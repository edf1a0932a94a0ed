-------------------------- MODULE Conversation_proofs --------------------------
(***************************************************************************)
(* Proofs about Conversation, for conversations of any length and whatever *)
(* clients say and upstreams answer: the types, what is sent of what was   *)
(* said and given as results, whose words it is, the tools, where results  *)
(* stand, and what comes back to the upstream of its answers.              *)
(***************************************************************************)
EXTENDS Conversation, TLAPS, WellFoundedInduction

(* ------------------------------ induction ------------------------------ *)

\* A set with 0 and with the successor of each of its numbers has them all.
LEMMA SetInduction ==
  ASSUME NEW T, 0 \in T, \A n \in Nat : n \in T => n + 1 \in T
  PROVE  Nat \subseteq T
<1> DEFINE R == OpToRel(<, Nat)
           S == Nat \ T
<1>1. IsWellFoundedOn(R, Nat)
  BY NatLessThanWellFounded
<1>2. SUFFICES ASSUME S # {} PROVE FALSE
  OBVIOUS
<1>3. S \subseteq Nat
  OBVIOUS
<1>4. PICK x \in S : \A y \in S : <<y, x>> \notin R
  <2> HIDE DEF R, S
  <2> QED BY <1>1, <1>2, <1>3, WFMin
<1>5. x \in Nat /\ x \notin T /\ x # 0
  BY <1>4
<1>6. x - 1 \in Nat /\ x - 1 \in S
  BY <1>5
<1>7. <<x - 1, x>> \in R
  BY <1>5, <1>6 DEF OpToRel
<1> QED BY <1>4, <1>6, <1>7

(* ----------------------------- FlattenSeq ------------------------------ *)

\* The recursion of FlattenSeq has a solution of the right type.
LEMMA FlattenExists ==
  ASSUME NEW S, NEW seqs \in Seq(Seq(S))
  PROVE  \E f \in [1..Len(seqs) -> Seq(S)] :
           \A i \in 1..Len(seqs) : f[i] = IF i = 1 THEN seqs[i] ELSE f[i - 1] \o seqs[i]
<1> DEFINE Step(f, i) == IF i = 1 THEN seqs[i] ELSE f[i - 1] \o seqs[i]
           Solvable(n) == \E f \in [1..n -> Seq(S)] : \A i \in 1..n : f[i] = Step(f, i)
           T == {n \in Nat : n <= Len(seqs) => Solvable(n)}
<1>1. 0 \in T
  <2> DEFINE f == [i \in 1..0 |-> <<>>]
  <2>1. f \in [1..0 -> Seq(S)]
    OBVIOUS
  <2>2. \A i \in 1..0 : f[i] = Step(f, i)
    OBVIOUS
  <2> HIDE DEF f, Step
  <2> QED BY <2>1, <2>2
<1>2. ASSUME NEW n \in Nat, n \in T PROVE n + 1 \in T
  <2>1. SUFFICES ASSUME n + 1 <= Len(seqs)
                 PROVE  Solvable(n + 1)
    <3> HIDE DEF Solvable
    <3> QED OBVIOUS
  <2>2. PICK f \in [1..n -> Seq(S)] : \A i \in 1..n : f[i] = Step(f, i)
    <3>1. Solvable(n)
      BY <1>2, <2>1
    <3> QED BY <3>1
  <2>3. n + 1 \in 1..Len(seqs) /\ seqs[n + 1] \in Seq(S)
    BY <2>1
  <2>4. Step(f, n + 1) \in Seq(S)
    BY <2>3
  <2> DEFINE g == [i \in 1..(n + 1) |-> IF i = n + 1 THEN Step(f, n + 1) ELSE f[i]]
  <2>5. g \in [1..(n + 1) -> Seq(S)]
    BY <2>4
  <2>6. ASSUME NEW i \in 1..(n + 1) PROVE g[i] = Step(g, i)
    <3>1. i # 1 => i - 1 \in 1..n /\ g[i - 1] = f[i - 1]
      OBVIOUS
    <3>2. Step(g, i) = Step(f, i)
      BY <3>1
    <3>3. g[i] = Step(f, i)
      <4> HIDE DEF Step
      <4>1. i # n + 1 => i \in 1..n
        OBVIOUS
      <4> QED BY <2>2, <4>1
    <3> QED BY <3>2, <3>3
  <2> HIDE DEF g, Step
  <2> QED BY <2>5, <2>6
<1>3. Len(seqs) \in T
  <2> HIDE DEF T
  <2> QED BY <1>1, <1>2, SetInduction
<1> QED BY <1>3

\* FlattenSeq puts the pieces together from the first to the last.
LEMMA FlattenUnfold ==
  ASSUME NEW S, NEW seqs \in Seq(Seq(S)), Len(seqs) # 0
  PROVE  \E f \in [1..Len(seqs) -> Seq(S)] :
           /\ FlattenSeq(seqs) = f[Len(seqs)]
           /\ f[1] = seqs[1]
           /\ \A n \in Nat : n # 0 /\ n + 1 <= Len(seqs) => f[n + 1] = f[n] \o seqs[n + 1]
<1> DEFINE N == Len(seqs)
           Solves(f) == f = [i \in 1..N |-> IF i = 1 THEN seqs[i] ELSE f[i - 1] \o seqs[i]]
           F == CHOOSE f : Solves(f)
<1>1. FlattenSeq(seqs) = F[N]
  BY DEF FlattenSeq
<1>2. \E f : Solves(f)
  <2>1. PICK f \in [1..N -> Seq(S)] :
           \A i \in 1..N : f[i] = IF i = 1 THEN seqs[i] ELSE f[i - 1] \o seqs[i]
    BY FlattenExists
  <2>2. Solves(f)
    BY <2>1
  <2> HIDE DEF Solves
  <2> QED BY <2>2
<1>3. Solves(F)
  <2> HIDE DEF Solves
  <2> QED BY <1>2
<1> HIDE DEF F
<1>4. F[1] = seqs[1]
  BY <1>3
<1>5. ASSUME NEW n \in Nat, n # 0, n + 1 <= N PROVE F[n + 1] = F[n] \o seqs[n + 1]
  <2>1. n + 1 \in 1..N /\ n + 1 # 1
    BY <1>5
  <2>2. n + 1 - 1 = n
    OBVIOUS
  <2>3. \A i \in 1..N : F[i] = IF i = 1 THEN seqs[i] ELSE F[i - 1] \o seqs[i]
    BY <1>3
  <2>4. \A i \in 1..N : i # 1 => F[i] = F[i - 1] \o seqs[i]
    BY <2>3
  <2> DEFINE k == n + 1
  <2>5. k \in 1..N /\ k # 1 /\ k - 1 = n
    BY <2>1, <2>2
  <2> HIDE DEF k
  <2>6. F[k] = F[n] \o seqs[k]
    BY <2>4, <2>5
  <2> QED BY <2>6 DEF k
<1> DEFINE T == {n \in Nat : n \in 1..N => F[n] \in Seq(S)}
<1>6. 0 \in T
  OBVIOUS
<1>7. ASSUME NEW n \in Nat, n \in T PROVE n + 1 \in T
  <2>1. SUFFICES ASSUME n + 1 \in 1..N PROVE F[n + 1] \in Seq(S)
    OBVIOUS
  <2>2. seqs[n + 1] \in Seq(S)
    BY <2>1
  <2>3. CASE n = 0
    BY <2>3, <1>4, <2>2
  <2>4. CASE n # 0
    <3>1. F[n] \in Seq(S)
      BY <1>7, <2>1, <2>4
    <3>2. F[n + 1] = F[n] \o seqs[n + 1]
      <4>1. n + 1 <= N
        BY <2>1
      <4> QED BY <1>5, <2>4, <4>1
    <3> QED BY <2>2, <3>1, <3>2
  <2> QED BY <2>3, <2>4
<1>8. Nat \subseteq T
  BY <1>6, <1>7, SetInduction
<1> DEFINE G == [n \in 1..N |-> F[n]]
<1>9. G \in [1..N -> Seq(S)]
  BY <1>8
<1>10. /\ FlattenSeq(seqs) = G[N] /\ G[1] = seqs[1]
       /\ \A n \in Nat : n # 0 /\ n + 1 <= N => G[n + 1] = G[n] \o seqs[n + 1]
  <2>1. N \in 1..N /\ 1 \in 1..N
    OBVIOUS
  <2>2. \A n \in Nat : n # 0 /\ n + 1 <= N => n \in 1..N /\ n + 1 \in 1..N
    OBVIOUS
  <2>3. \A n \in 1..N : G[n] = F[n]
    OBVIOUS
  <2> HIDE DEF G
  <2> QED BY <1>1, <1>4, <1>5, <2>1, <2>2, <2>3
<1> HIDE DEF G
<1> QED BY <1>9, <1>10

\* The pieces of a sequence of sequences, one after the other.
LEMMA FlattenSeqType ==
  ASSUME NEW S, NEW seqs \in Seq(Seq(S))
  PROVE  FlattenSeq(seqs) \in Seq(S)
<1>1. CASE Len(seqs) = 0
  BY <1>1 DEF FlattenSeq
<1>2. CASE Len(seqs) # 0
  <2>1. PICK f \in [1..Len(seqs) -> Seq(S)] : FlattenSeq(seqs) = f[Len(seqs)]
    BY <1>2, FlattenUnfold
  <2> QED BY <1>2, <2>1
<1> QED BY <1>1, <1>2

LEMMA SeqInduction ==
  ASSUME NEW A, NEW T, <<>> \in T,
         \A s \in Seq(A) : s \in T => \A a \in A : Append(s, a) \in T
  PROVE  Seq(A) \subseteq T
<1> DEFINE N == {n \in Nat : \A s \in Seq(A) : Len(s) = n => s \in T}
<1>1. 0 \in N
  OBVIOUS
<1>2. ASSUME NEW n \in Nat, n \in N PROVE n + 1 \in N
  <2>1. SUFFICES ASSUME NEW s \in Seq(A), Len(s) = n + 1 PROVE s \in T
    OBVIOUS
  <2> DEFINE t == SubSeq(s, 1, n)
             a == s[n + 1]
  <2>2. t \in Seq(A) /\ Len(t) = n /\ a \in A
    BY <2>1
  <2>3. s = Append(t, a)
    <3>1. \A i \in 1..n : t[i] = s[i]
      BY <2>1
    <3>2. Len(Append(t, a)) = n + 1 /\ Append(t, a) \in Seq(A)
      BY <2>2
    <3>3. ASSUME NEW i \in 1..(n + 1) PROVE Append(t, a)[i] = s[i]
      OBVIOUS
    <3> HIDE DEF t, a
    <3> QED BY <2>1, <3>2, <3>3
  <2> HIDE DEF t, a
  <2>4. t \in T
    BY <1>2, <2>2
  <2> QED BY <2>2, <2>3, <2>4
<1>3. Nat \subseteq N
  BY <1>1, <1>2, SetInduction
<1> QED BY <1>3

LEMMA FlattenNone == FlattenSeq(<<>>) = <<>>
BY DEF FlattenSeq

LEMMA FlattenAppend ==
  ASSUME NEW S, NEW seqs \in Seq(Seq(S)), NEW x \in Seq(S)
  PROVE  FlattenSeq(Append(seqs, x)) = FlattenSeq(seqs) \o x
<1> DEFINE all == Append(seqs, x)
           N == Len(seqs)
           M == N + 1
<1>1. /\ all \in Seq(Seq(S)) /\ Len(all) = M /\ N \in Nat /\ all[M] = x
      /\ \A i \in 1..N : all[i] = seqs[i]
  OBVIOUS
<1> HIDE DEF all
<1>2. PICK g \in [1..M -> Seq(S)] :
           /\ FlattenSeq(all) = g[M] /\ g[1] = all[1]
           /\ \A n \in Nat : n # 0 /\ n + 1 <= M => g[n + 1] = g[n] \o all[n + 1]
  <2>1. Len(all) # 0 /\ all \in Seq(Seq(S))
    BY <1>1
  <2>2. PICK h \in [1..Len(all) -> Seq(S)] :
           /\ FlattenSeq(all) = h[Len(all)] /\ h[1] = all[1]
           /\ \A n \in Nat : n # 0 /\ n + 1 <= Len(all) => h[n + 1] = h[n] \o all[n + 1]
    BY <2>1, FlattenUnfold
  <2>3. Len(all) = M
    BY <1>1
  <2> HIDE DEF M
  <2>4. /\ h \in [1..M -> Seq(S)] /\ FlattenSeq(all) = h[M]
        /\ \A n \in Nat : n # 0 /\ n + 1 <= M => h[n + 1] = h[n] \o all[n + 1]
    BY <2>2, <2>3
  <2> QED BY <2>2, <2>4
<1>3. CASE N = 0
  BY <1>3, <1>1, <1>2, FlattenNone DEF all
<1>4. CASE N # 0
  <2>1. PICK f \in [1..N -> Seq(S)] :
           /\ FlattenSeq(seqs) = f[N] /\ f[1] = seqs[1]
           /\ \A n \in Nat : n # 0 /\ n + 1 <= N => f[n + 1] = f[n] \o seqs[n + 1]
    BY <1>4, FlattenUnfold
  <2> DEFINE T == {n \in Nat : n \in 1..N => g[n] = f[n]}
  <2>2. 0 \in T
    OBVIOUS
  <2>3. ASSUME NEW n \in Nat, n \in T PROVE n + 1 \in T
    <3>1. SUFFICES ASSUME n + 1 \in 1..N PROVE g[n + 1] = f[n + 1]
      OBVIOUS
    <3>2. all[n + 1] = seqs[n + 1]
      BY <1>1, <3>1
    <3>3. CASE n = 0
      BY <3>3, <3>2, <1>2, <2>1
    <3>4. CASE n # 0
      <4>1. g[n] = f[n] /\ n + 1 <= N /\ n + 1 <= M
        BY <2>3, <3>1, <3>4, <1>1
      <4>2. g[n + 1] = g[n] \o all[n + 1] /\ f[n + 1] = f[n] \o seqs[n + 1]
        BY <1>2, <2>1, <3>4, <4>1
      <4> QED BY <3>2, <4>1, <4>2
    <3> QED BY <3>3, <3>4
  <2>4. Nat \subseteq T
    BY <2>2, <2>3, SetInduction
  <2>5. g[N] = f[N]
    <3>1. N \in T /\ N \in 1..N
      <4> HIDE DEF T
      <4> QED BY <2>4, <1>1, <1>4
    <3> QED BY <3>1
  <2>6. g[M] = g[N] \o all[M]
    <3>1. N \in Nat /\ N # 0 /\ N + 1 <= M
      BY <1>1, <1>4
    <3> HIDE DEF N
    <3> QED BY <1>2, <3>1
  <2> QED BY <1>1, <1>2, <2>1, <2>5, <2>6 DEF all
<1> QED BY <1>3, <1>4

(* ------------------------- mapping and flattening ----------------------- *)

\* Each, with a function for the operator.
FlatMap(h, s) == FlattenSeq([i \in DOMAIN s |-> h[s[i]]])

LEMMA FlatMapNone ==
  ASSUME NEW h
  PROVE  FlatMap(h, <<>>) = <<>>
BY FlattenNone DEF FlatMap

\* The pieces that the elements give.
LEMMA FlatMapSeqs ==
  ASSUME NEW A, NEW B, NEW h \in [A -> Seq(B)], NEW s \in Seq(A)
  PROVE  /\ [i \in DOMAIN s |-> h[s[i]]] \in Seq(Seq(B))
         /\ Len([i \in DOMAIN s |-> h[s[i]]]) = Len(s)
         /\ \A i \in 1..Len(s) : [j \in DOMAIN s |-> h[s[j]]][i] = h[s[i]]
<1> DEFINE n == Len(s)
           x == [i \in 1..n |-> h[s[i]]]
<1>1. n \in Nat /\ DOMAIN s = 1..n /\ \A i \in 1..n : s[i] \in A
  OBVIOUS
<1> HIDE DEF n
<1>2. \A i \in 1..n : h[s[i]] \in Seq(B)
  BY <1>1
<1>3. x \in [1..n -> Seq(B)]
  BY <1>2
<1>4. x \in Seq(Seq(B)) /\ Len(x) = n
  BY <1>1
<1>5. [i \in DOMAIN s |-> h[s[i]]] = x
  BY <1>1
<1>6. \A i \in 1..n : x[i] = h[s[i]]
  OBVIOUS
<1> HIDE DEF x
<1> QED BY <1>4, <1>5, <1>6 DEF n

LEMMA FlatMapAppend ==
  ASSUME NEW A, NEW B, NEW h \in [A -> Seq(B)], NEW s \in Seq(A), NEW a \in A
  PROVE  FlatMap(h, Append(s, a)) = FlatMap(h, s) \o h[a]
<1> DEFINE t == Append(s, a)
           n == Len(s)
           x == [i \in DOMAIN s |-> h[s[i]]]
           y == [i \in DOMAIN t |-> h[t[i]]]
<1>1. /\ t \in Seq(A) /\ Len(t) = n + 1 /\ t[n + 1] = a /\ \A i \in 1..n : t[i] = s[i]
      /\ DOMAIN t = 1..(n + 1) /\ DOMAIN s = 1..n /\ n \in Nat
  OBVIOUS
<1>2. x \in Seq(Seq(B)) /\ Len(x) = n /\ \A i \in 1..n : x[i] = h[s[i]]
  BY FlatMapSeqs
<1>3. h[a] \in Seq(B)
  OBVIOUS
<1>4. /\ Append(x, h[a]) \in Seq(Seq(B)) /\ DOMAIN Append(x, h[a]) = 1..(n + 1)
      /\ Append(x, h[a])[n + 1] = h[a] /\ \A i \in 1..n : Append(x, h[a])[i] = x[i]
  BY <1>2
<1>5. y = Append(x, h[a])
  <2>1. DOMAIN y = 1..(n + 1) /\ y = [i \in 1..(n + 1) |-> h[t[i]]]
    BY <1>1
  <2>2. ASSUME NEW i \in 1..(n + 1) PROVE y[i] = Append(x, h[a])[i]
    BY <1>4, <1>2
  <2>3. Append(x, h[a]) = [i \in 1..(n + 1) |-> Append(x, h[a])[i]]
    OBVIOUS
  <2> HIDE DEF x, y, t
  <2> QED BY <2>1, <2>2, <2>3
<1> HIDE DEF x, y
<1>6. FlattenSeq(y) = FlattenSeq(x) \o h[a]
  BY <1>2, <1>3, <1>5, FlattenAppend
<1> QED BY <1>6 DEF FlatMap, x, y

LEMMA FlatMapType ==
  ASSUME NEW A, NEW B, NEW h \in [A -> Seq(B)], NEW s \in Seq(A)
  PROVE  FlatMap(h, s) \in Seq(B)
<1> DEFINE x == [i \in DOMAIN s |-> h[s[i]]]
<1>1. x \in Seq(Seq(B))
  BY FlatMapSeqs
<1> HIDE DEF x
<1>2. FlattenSeq(x) \in Seq(B)
  BY <1>1, FlattenSeqType
<1> QED BY <1>2 DEF FlatMap, x

LEMMA ConcatAppend ==
  ASSUME NEW B, NEW x \in Seq(B), NEW y \in Seq(B), NEW b \in B
  PROVE  x \o Append(y, b) = Append(x \o y, b)
OBVIOUS

\* The end of a sequence one element longer.
LEMMA ConcatOne ==
  ASSUME NEW B, NEW x \in Seq(B), NEW b \in B
  PROVE  /\ x \o <<b>> \in Seq(B) /\ Len(x \o <<b>>) = Len(x) + 1
         /\ (x \o <<b>>)[Len(x) + 1] = b
         /\ \A i \in 1..Len(x) : (x \o <<b>>)[i] = x[i]
OBVIOUS

\* Names for the sets of functions and of sequences, which the provers then
\* leave alone.
Maps(A, B) == [A -> Seq(B)]
Lists(A) == Seq(A)

LEMMA FlatMapConcat ==
  \A A, B : \A h \in Maps(A, B) : \A s, t \in Lists(A) :
    FlatMap(h, s \o t) = FlatMap(h, s) \o FlatMap(h, t)
<1> SUFFICES ASSUME NEW A, NEW B, NEW h \in [A -> Seq(B)], NEW s \in Seq(A), NEW t \in Seq(A)
             PROVE  FlatMap(h, s \o t) = FlatMap(h, s) \o FlatMap(h, t)
  BY DEF Maps, Lists
<1> DEFINE T == {u \in Seq(A) : FlatMap(h, s \o u) = FlatMap(h, s) \o FlatMap(h, u)}
<1>1. <<>> \in T
  <2> DEFINE x == FlatMap(h, s)
             none == <<>>
  <2>1. x \in Seq(B) /\ FlatMap(h, none) = <<>>
    BY FlatMapType, FlatMapNone
  <2>2. s \o none = s /\ none \in Seq(A)
    OBVIOUS
  <2> HIDE DEF x
  <2>3. x \o <<>> = x
    BY <2>1
  <2> HIDE DEF none
  <2>4. FlatMap(h, s \o none) = FlatMap(h, s) \o FlatMap(h, none)
    BY <2>1, <2>2, <2>3 DEF x
  <2>5. none \in T
    BY <2>2, <2>4
  <2> QED BY <2>5 DEF none
<1>2. ASSUME NEW u \in Seq(A), u \in T, NEW a \in A PROVE Append(u, a) \in T
  <2>1. s \o Append(u, a) = Append(s \o u, a) /\ s \o u \in Seq(A) /\ Append(u, a) \in Seq(A)
    BY ConcatAppend
  <2>2. FlatMap(h, Append(s \o u, a)) = FlatMap(h, s \o u) \o h[a]
    BY <2>1, FlatMapAppend
  <2>3. FlatMap(h, s \o u) = FlatMap(h, s) \o FlatMap(h, u)
    BY <1>2
  <2>4. FlatMap(h, Append(u, a)) = FlatMap(h, u) \o h[a]
    BY FlatMapAppend
  <2> DEFINE x == FlatMap(h, s)
             y == FlatMap(h, u)
             z == h[a]
  <2>5. x \in Seq(B) /\ y \in Seq(B) /\ z \in Seq(B)
    BY FlatMapType
  <2> HIDE DEF x, y, z
  <2>6. (x \o y) \o z = x \o (y \o z)
    BY <2>5
  <2> QED BY <2>1, <2>2, <2>3, <2>4, <2>6 DEF x, y, z
<1>3. Seq(A) \subseteq T
  BY <1>1, <1>2, SeqInduction
<1> QED BY <1>3

LEMMA FlatMapOne ==
  ASSUME NEW A, NEW B, NEW h \in [A -> Seq(B)], NEW a \in A
  PROVE  FlatMap(h, <<a>>) = h[a]
<1> DEFINE none == <<>>
<1>1. none \in Seq(A) /\ Append(none, a) = <<a>> /\ FlatMap(h, none) = <<>>
  BY FlatMapNone
<1> HIDE DEF none
<1>2. FlatMap(h, Append(none, a)) = FlatMap(h, none) \o h[a]
  BY <1>1, FlatMapAppend
<1>3. <<>> \o h[a] = h[a]
  OBVIOUS
<1> QED BY <1>1, <1>2, <1>3

\* Two maps, one after the other, are one.
LEMMA FlatMapTwice ==
  \A B, C : \A h \in Maps(B, C) : \A A : \A g \in Maps(A, B), k \in Maps(A, C), s \in Lists(A) :
    (\A a \in A : k[a] = FlatMap(h, g[a])) => FlatMap(h, FlatMap(g, s)) = FlatMap(k, s)
<1> SUFFICES ASSUME NEW B, NEW C, NEW h \in [B -> Seq(C)]
             PROVE  \A A : \A g \in Maps(A, B), k \in Maps(A, C), s \in Lists(A) :
                      (\A a \in A : k[a] = FlatMap(h, g[a]))
                        => FlatMap(h, FlatMap(g, s)) = FlatMap(k, s)
  BY DEF Maps
<1>0. \A x, y \in Seq(B) : FlatMap(h, x \o y) = FlatMap(h, x) \o FlatMap(h, y)
  BY FlatMapConcat DEF Maps, Lists
<1> SUFFICES ASSUME NEW A, NEW g \in [A -> Seq(B)], NEW k \in [A -> Seq(C)], NEW s \in Seq(A),
                    \A a \in A : k[a] = FlatMap(h, g[a])
             PROVE  FlatMap(h, FlatMap(g, s)) = FlatMap(k, s)
  BY DEF Maps, Lists
<1> DEFINE T == {u \in Seq(A) : FlatMap(h, FlatMap(g, u)) = FlatMap(k, u)}
<1>1. <<>> \in T
  BY FlatMapNone
<1>2. ASSUME NEW u \in Seq(A), u \in T, NEW a \in A PROVE Append(u, a) \in T
  <2> DEFINE x == FlatMap(g, u)
             y == g[a]
  <2>1. x \in Seq(B) /\ y \in Seq(B)
    BY FlatMapType
  <2>2. FlatMap(g, Append(u, a)) = x \o y /\ FlatMap(k, Append(u, a)) = FlatMap(k, u) \o k[a]
    BY FlatMapAppend
  <2>3. FlatMap(h, x) = FlatMap(k, u) /\ k[a] = FlatMap(h, y)
    BY <1>2
  <2>4. Append(u, a) \in Seq(A)
    OBVIOUS
  <2> HIDE DEF x, y
  <2>5. FlatMap(h, x \o y) = FlatMap(h, x) \o FlatMap(h, y)
    BY <1>0, <2>1
  <2>6. FlatMap(h, FlatMap(g, Append(u, a))) = FlatMap(k, Append(u, a))
    BY <2>2, <2>3, <2>5
  <2> QED BY <2>4, <2>6
<1>3. Seq(A) \subseteq T
  BY <1>1, <1>2, SeqInduction
<1> QED BY <1>3

\* What is put in comes out.
LEMMA FlatMapHas ==
  ASSUME NEW A, NEW B, NEW h \in [A -> Seq(B)], NEW s \in Seq(A),
         NEW i \in DOMAIN s, NEW j \in DOMAIN h[s[i]]
  PROVE  \E k \in DOMAIN FlatMap(h, s) : FlatMap(h, s)[k] = h[s[i]][j]
<1> DEFINE Found(u) == \A m \in DOMAIN u : \A l \in DOMAIN h[u[m]] :
                         \E k \in DOMAIN FlatMap(h, u) : FlatMap(h, u)[k] = h[u[m]][l]
           T == {u \in Seq(A) : Found(u)}
<1>1. <<>> \in T
  OBVIOUS
<1>2. ASSUME NEW u \in Seq(A), u \in T, NEW a \in A PROVE Append(u, a) \in T
  <2> DEFINE v == Append(u, a)
             x == FlatMap(h, u)
             y == h[a]
             n == Len(u)
  <2>1. /\ v \in Seq(A) /\ DOMAIN v = 1..(n + 1) /\ v[n + 1] = a /\ DOMAIN u = 1..n
        /\ \A m \in 1..n : v[m] = u[m]
    OBVIOUS
  <2>2. x \in Seq(B) /\ y \in Seq(B) /\ FlatMap(h, v) = x \o y
    BY FlatMapType, FlatMapAppend
  <2>3. \A m \in DOMAIN u : \A l \in DOMAIN h[u[m]] : \E k \in DOMAIN x : x[k] = h[u[m]][l]
    BY <1>2
  <2>4. n \in Nat /\ y = h[a]
    OBVIOUS
  <2> HIDE DEF v, x, y, n
  <2>5. /\ \A k \in DOMAIN x : k \in DOMAIN (x \o y) /\ (x \o y)[k] = x[k]
        /\ \A l \in DOMAIN y : Len(x) + l \in DOMAIN (x \o y) /\ (x \o y)[Len(x) + l] = y[l]
    BY <2>2
  <2>6. ASSUME NEW m \in 1..(n + 1), NEW l \in DOMAIN h[v[m]]
        PROVE  \E k \in DOMAIN FlatMap(h, v) : FlatMap(h, v)[k] = h[v[m]][l]
    <3>1. CASE m = n + 1
      <4>1. l \in DOMAIN y /\ h[v[m]] = y
        BY <3>1, <2>1, <2>4, <2>6
      <4> QED BY <4>1, <2>2, <2>5
    <3>2. CASE m # n + 1
      <4>1. m \in DOMAIN u /\ v[m] = u[m]
        BY <3>2, <2>1, <2>4
      <4>2. PICK k \in DOMAIN x : x[k] = h[u[m]][l]
        BY <2>3, <4>1, <2>6
      <4> QED BY <4>1, <4>2, <2>2, <2>5
    <3> QED BY <3>1, <3>2
  <2>7. Found(v)
    BY <2>1, <2>6
  <2> QED BY <2>1, <2>7 DEF v
<1>3. Seq(A) \subseteq T
  BY <1>1, <1>2, SeqInduction
<1> QED BY <1>3

\* Where each element gives one, it keeps its place.
LEMMA FlatMapSingle ==
  \A A, B, f : \A h \in Maps(A, B) : \A s \in Lists(A) :
    (\A a \in A : f[a] \in B /\ h[a] = <<f[a]>>)
      => FlatMap(h, s) = [i \in DOMAIN s |-> f[s[i]]]
<1> SUFFICES ASSUME NEW A, NEW B, NEW f, NEW h \in [A -> Seq(B)], NEW s \in Seq(A),
                    \A a \in A : f[a] \in B /\ h[a] = <<f[a]>>
             PROVE  FlatMap(h, s) = [i \in DOMAIN s |-> f[s[i]]]
  BY DEF Maps, Lists
<1> DEFINE Map(u) == [i \in DOMAIN u |-> f[u[i]]]
           T == {u \in Seq(A) : FlatMap(h, u) = Map(u)}
<1>1. <<>> \in T
  <2> DEFINE none == <<>>
  <2>1. Map(none) = none /\ FlatMap(h, none) = none /\ none \in Seq(A)
    BY FlatMapNone
  <2> HIDE DEF none, Map
  <2>2. none \in T
    BY <2>1
  <2> QED BY <2>2 DEF none
<1>2. ASSUME NEW u \in Seq(A), u \in T, NEW a \in A PROVE Append(u, a) \in T
  <2> DEFINE v == Append(u, a)
             n == Len(u)
  <2>1. /\ v \in Seq(A) /\ DOMAIN v = 1..(n + 1) /\ v[n + 1] = a /\ DOMAIN u = 1..n
        /\ \A m \in 1..n : v[m] = u[m]
        /\ n \in Nat
    OBVIOUS
  <2>2. FlatMap(h, v) = FlatMap(h, u) \o h[a]
    BY FlatMapAppend
  <2>3. FlatMap(h, u) = Map(u) /\ h[a] = <<f[a]>> /\ f[a] \in B
    BY <1>2
  <2>4. Map(u) \in Seq(B) /\ Len(Map(u)) = n /\ \A i \in 1..n : Map(u)[i] = f[u[i]]
    <3>1. \A i \in 1..n : f[u[i]] \in B
      BY <2>1
    <3> DEFINE w == [i \in 1..n |-> f[u[i]]]
    <3>2. w \in [1..n -> B] /\ \A i \in 1..n : w[i] = f[u[i]]
      BY <3>1
    <3>3. Map(u) = w
      BY <2>1
    <3> HIDE DEF Map, w, n
    <3>4. w \in Seq(B) /\ Len(w) = n
      BY <2>1, <3>2
    <3> QED BY <3>2, <3>3, <3>4
  <2>5. Map(u) \o <<f[a]>> = Map(v)
    <3>1. Map(v) = [i \in 1..(n + 1) |-> f[v[i]]]
      BY <2>1
    <3> DEFINE x == Map(u)
               b == f[a]
    <3> HIDE DEF v, n, Map
    <3>2. /\ x \o <<b>> \in Seq(B) /\ Len(x \o <<b>>) = n + 1
          /\ (x \o <<b>>)[n + 1] = b /\ \A i \in 1..n : (x \o <<b>>)[i] = x[i]
      <4>1. x \in Seq(B) /\ Len(x) = n /\ b \in B /\ n \in Nat
        BY <2>1, <2>3, <2>4
      <4> HIDE DEF x, b
      <4>2. n = Len(x)
        BY <4>1
      <4> HIDE DEF n
      <4> QED BY <4>1, <4>2, ConcatOne
    <3>3. ASSUME NEW i \in 1..(n + 1) PROVE (x \o <<b>>)[i] = f[v[i]]
      BY <3>2, <2>1, <2>4
    <3>4. x \o <<b>> = [i \in 1..(n + 1) |-> (x \o <<b>>)[i]]
      <4> HIDE DEF x, b
      <4> QED BY <3>2, <2>1
    <3> HIDE DEF x, b
    <3>5. x \o <<b>> = Map(v)
      BY <3>1, <3>3, <3>4
    <3> QED BY <3>5 DEF x, b
  <2> HIDE DEF v, Map
  <2>6. FlatMap(h, v) = Map(v)
    BY <2>2, <2>3, <2>5
  <2> QED BY <2>1, <2>6 DEF v
<1>3. Seq(A) \subseteq T
  BY <1>1, <1>2, SeqInduction
<1> QED BY <1>3

\* What the pieces are is what the whole is.
LEMMA FlatMapInto ==
  ASSUME NEW A, NEW B, NEW h, NEW s \in Seq(A), \A i \in DOMAIN s : h[s[i]] \in Seq(B)
  PROVE  FlatMap(h, s) \in Seq(B)
<1> DEFINE n == Len(s)
           x == [i \in 1..n |-> h[s[i]]]
<1>1. n \in Nat /\ DOMAIN s = 1..n /\ \A i \in 1..n : h[s[i]] \in Seq(B)
  OBVIOUS
<1> HIDE DEF n
<1>2. x \in [1..n -> Seq(B)]
  BY <1>1
<1>3. x \in Seq(Seq(B))
  BY <1>1
<1>4. [i \in DOMAIN s |-> h[s[i]]] = x
  BY <1>1
<1> HIDE DEF x
<1>5. FlattenSeq(x) \in Seq(B)
  BY <1>3, FlattenSeqType
<1> QED BY <1>4, <1>5 DEF FlatMap

\* What is the same piece by piece is the same.
LEMMA FlatMapSame ==
  ASSUME NEW g, NEW h, NEW s, \A i \in DOMAIN s : g[s[i]] = h[s[i]]
  PROVE  FlatMap(g, s) = FlatMap(h, s)
BY DEF FlatMap

LEMMA FlatMapEmpty ==
  ASSUME NEW A, NEW h, NEW s \in Seq(A), \A i \in DOMAIN s : h[s[i]] = <<>>
  PROVE  FlatMap(h, s) = <<>>
<1>1. \A i \in DOMAIN s : h[s[i]] \in Seq({})
  <2>1. <<>> \in Seq({})
    OBVIOUS
  <2> QED BY <2>1
<1>2. FlatMap(h, s) \in Seq({})
  BY <1>1, FlatMapInto
<1> DEFINE x == FlatMap(h, s)
<1>3. x \in Seq({})
  BY <1>2
<1> HIDE DEF x
<1>4. x = <<>>
  BY <1>3
<1> QED BY <1>4 DEF x

\* The same for any f that says what h gives.
LEMMA FlatMapEach ==
  ASSUME NEW A, NEW f, NEW h, NEW s \in Seq(A), \A i \in DOMAIN s : h[s[i]] = <<f[s[i]]>>
  PROVE  FlatMap(h, s) = [i \in DOMAIN s |-> f[s[i]]]
<1> DEFINE D == {s[i] : i \in DOMAIN s}
           C == {f[a] : a \in D}
           g == [a \in D |-> <<f[a]>>]
<1>1. s \in Seq(D)
  OBVIOUS
<1>2. \A a \in D : f[a] \in C
  OBVIOUS
<1>3. \A i \in DOMAIN s : s[i] \in D
  OBVIOUS
<1> HIDE DEF D, C
<1>4. g \in [D -> Seq(C)] /\ \A a \in D : g[a] = <<f[a]>>
  BY <1>2
<1>5. \A i \in DOMAIN s : g[s[i]] = h[s[i]]
  BY <1>3
<1> HIDE DEF g
<1>6. FlatMap(g, s) = [i \in DOMAIN s |-> f[s[i]]]
  <2>1. g \in Maps(D, C) /\ s \in Lists(D)
    BY <1>1, <1>4 DEF Maps, Lists
  <2> QED BY <1>2, <1>4, <2>1, FlatMapSingle
<1>7. FlatMap(g, s) = FlatMap(h, s)
  BY <1>5, FlatMapSame
<1> QED BY <1>6, <1>7

(* --------------------------- canonical messages ------------------------- *)

Protocols == {"anthropic", "openai"}

Parts1 == Texts("text") \cup Images("image", {"base64"})
Calls1 == [type : {"tool_call"}, id : IDs, val : [name : Names, args : Arguments]]
Results1 == [type : {"tool_result"}, id : IDs, val : [content : Seq(Parts1), is_error : BOOLEAN]]
Blocks1 == Parts1 \cup Texts("thinking") \cup Calls1 \cup Results1
Messages1 ==
  [role : {"user", "tool"}, content : Seq(Parts1 \cup Results1)]
    \cup [role : {"assistant"}, content : Seq(Parts1 \cup Texts("thinking") \cup Calls1)]

\* The words of /v1/messages, of results and of whole messages.
AnthropicBlocks == UserBlocks \cup AnswerBlocks \cup ResultBlocks
DecodePlain == [b \in AnthropicBlocks |-> DecodePlainBlock(b)]
DecodeBlock == [b \in AnthropicBlocks |-> DecodeAnthropicBlock(b)]
DecodeAnthropic ==
  [m \in AnthropicMessages |-> Messages(m.role, Each(DecodeAnthropicBlock, m.content))]

\* Those of /v1/chat/completions.
DecodeParts == [b \in PartBlocks |-> DecodePart(b)]
DecodeCalls == [c \in CallRecords |-> DecodeCall(c)]
DecodeOpenAI ==
  [m \in OpenAIMessages |-> IF m.role = "system" THEN <<>> ELSE DecodeOpenAIMessage(m)]
SystemOf ==
  [m \in OpenAIMessages |-> IF m.role = "system" THEN Each(DecodePart, m.content) ELSE <<>>]

LEMMA Arguments1 ==
  ASSUME NEW a \in Arguments
  PROVE  Reparsed[a] \in Arguments
BY ConversationAssumption

LEMMA BlockKinds ==
  ASSUME NEW b
  PROVE  /\ b \in UserBlocks => b.type \in {"text", "image"}
         /\ b \in AnswerBlocks =>
              b.type \in {"thinking", "tool_use", "server_tool_use", "web_search_tool_result"}
         /\ b \in ResultBlocks => b.type = "tool_result"
BY DEF UserBlocks, AnswerBlocks, ResultBlocks, Texts, Images

LEMMA DecodePlainType ==
  ASSUME NEW b \in AnthropicBlocks
  PROVE  /\ DecodePlainBlock(b) \in Seq(Parts1 \cup Texts("thinking") \cup Calls1)
         /\ b \in UserBlocks => DecodePlainBlock(b) \in Seq(Parts1)
<1> DEFINE All == Parts1 \cup Texts("thinking") \cup Calls1
<1>1. CASE b \in Texts("text")
  <2>1. DecodePlainBlock(b) = <<b>>
    BY <1>1 DEF Texts, DecodePlainBlock
  <2>2. b \in Parts1 /\ b \in All
    BY <1>1 DEF Parts1
  <2> HIDE DEF All
  <2> QED BY <2>1, <2>2 DEF All
<1>2. CASE b \in Images("image", {"base64", "url", "other"})
  <2>1. CASE b.id = "base64"
    <3>1. b \in Images("image", {"base64"})
      BY <1>2, <2>1 DEF Images
    <3>2. DecodePlainBlock(b) = <<b>>
      BY <1>2, <2>1 DEF Images, DecodePlainBlock
    <3>3. b \in Parts1 /\ b \in All
      BY <3>1 DEF Parts1
    <3> HIDE DEF All
    <3> QED BY <3>2, <3>3 DEF All
  <2>2. CASE b.id # "base64"
    BY <1>2, <2>2 DEF Images, DecodePlainBlock
  <2> QED BY <2>1, <2>2
<1>3. CASE b \in Texts("thinking")
  <2>1. DecodePlainBlock(b) = <<b>> /\ b.type = "thinking"
    BY <1>3 DEF Texts, DecodePlainBlock
  <2>2. b \in All
    BY <1>3
  <2> HIDE DEF All
  <2> QED BY <2>1, <2>2, BlockKinds DEF All
<1>4. CASE b \in [type : {"tool_use"}, id : IDs, val : [name : Names, args : Arguments]]
  <2> DEFINE c == Block("tool_call", b.id, [b.val EXCEPT !.args = Reparsed[@]])
  <2>1. c \in Calls1
    BY <1>4, Arguments1 DEF Calls1, Block
  <2>2. DecodePlainBlock(b) = <<c>> /\ b.type = "tool_use"
    BY <1>4 DEF DecodePlainBlock
  <2> HIDE DEF c
  <2>3. c \in All
    BY <2>1
  <2> HIDE DEF All
  <2> QED BY <2>2, <2>3, BlockKinds DEF All
<1>5. CASE b \in [type : {"server_tool_use"}, id : {Empty}, val : {Empty}]
                   \cup [type : {"web_search_tool_result"}, id : {Empty}, val : SourceLists]
  BY <1>5 DEF DecodePlainBlock
<1>6. CASE b \in ResultBlocks
  BY <1>6 DEF DecodePlainBlock, ResultBlocks
<1> QED BY <1>1, <1>2, <1>3, <1>4, <1>5, <1>6 DEF AnthropicBlocks, UserBlocks, AnswerBlocks

LEMMA DecodePlainEach ==
  ASSUME NEW s \in Seq(UserBlocks)
  PROVE  /\ Each(DecodePlainBlock, s) = FlatMap(DecodePlain, s)
         /\ Each(DecodePlainBlock, s) \in Seq(Parts1)
<1>1. \A i \in DOMAIN s : s[i] \in UserBlocks /\ s[i] \in AnthropicBlocks
  BY DEF AnthropicBlocks
<1>2. [i \in DOMAIN s |-> DecodePlainBlock(s[i])] = [i \in DOMAIN s |-> DecodePlain[s[i]]]
  BY <1>1 DEF DecodePlain
<1>3. \A i \in DOMAIN s : DecodePlain[s[i]] \in Seq(Parts1)
  BY <1>1, DecodePlainType DEF DecodePlain
<1>4. FlatMap(DecodePlain, s) \in Seq(Parts1)
  BY <1>3, FlatMapInto
<1> QED BY <1>2, <1>4 DEF Each, FlatMap

LEMMA DecodeBlockType ==
  ASSUME NEW b \in AnthropicBlocks
  PROVE  /\ b \in UserBlocks \cup AnswerBlocks => DecodeAnthropicBlock(b) = DecodePlainBlock(b)
         /\ b \in UserBlocks => DecodeAnthropicBlock(b) \in Seq(Parts1)
         /\ b \in UserBlocks \cup AnswerBlocks =>
              DecodeAnthropicBlock(b) \in Seq(Parts1 \cup Texts("thinking") \cup Calls1)
         /\ b \in ResultBlocks =>
              LET r == [type |-> "tool_result", id |-> b.id,
                        val |-> [content |-> FlatMap(DecodePlain, b.val.content),
                                 is_error |-> b.val.is_error]]
              IN  r \in Results1 /\ DecodeAnthropicBlock(b) = <<r>>
<1>1. b \in UserBlocks \cup AnswerBlocks => DecodeAnthropicBlock(b) = DecodePlainBlock(b)
  BY BlockKinds DEF DecodeAnthropicBlock
<1>2. ASSUME b \in ResultBlocks
      PROVE  LET r == [type |-> "tool_result", id |-> b.id,
                       val |-> [content |-> FlatMap(DecodePlain, b.val.content),
                                is_error |-> b.val.is_error]]
             IN  r \in Results1 /\ DecodeAnthropicBlock(b) = <<r>>
  <2>1. b.val \in [content : Seq(UserBlocks), is_error : BOOLEAN] /\ b.id \in IDs /\ b.type = "tool_result"
    BY <1>2, ContentAssumption DEF ResultBlocks
  <2> DEFINE c == b.val.content
             d == Each(DecodePlainBlock, c)
  <2>2. d = FlatMap(DecodePlain, c) /\ d \in Seq(Parts1)
    BY <2>1, DecodePlainEach
  <2>3. DecodeAnthropicBlock(b) = <<[b EXCEPT !.val.content = d]>>
    BY <2>1 DEF DecodeAnthropicBlock, Each
  <2> HIDE DEF d
  <2>4. [b EXCEPT !.val.content = d] =
          [type |-> "tool_result", id |-> b.id, val |-> [content |-> d, is_error |-> b.val.is_error]]
    BY <1>2, <2>1 DEF ResultBlocks
  <2>5. [type |-> "tool_result", id |-> b.id, val |-> [content |-> d, is_error |-> b.val.is_error]]
          \in Results1
    BY <2>1, <2>2 DEF Results1
  <2> QED BY <2>2, <2>3, <2>4, <2>5
<1> QED BY <1>1, <1>2, DecodePlainType

LEMMA DecodeContentEach ==
  ASSUME NEW s \in Seq(AnthropicBlocks)
  PROVE  /\ Each(DecodeAnthropicBlock, s) = FlatMap(DecodeBlock, s)
         /\ s \in Seq(UserBlocks \cup ResultBlocks) => FlatMap(DecodeBlock, s) \in Seq(Parts1 \cup Results1)
         /\ s \in Seq(UserBlocks \cup AnswerBlocks) =>
              FlatMap(DecodeBlock, s) \in Seq(Parts1 \cup Texts("thinking") \cup Calls1)
<1>1. \A i \in DOMAIN s : s[i] \in AnthropicBlocks
  OBVIOUS
<1>2. [i \in DOMAIN s |-> DecodeAnthropicBlock(s[i])] = [i \in DOMAIN s |-> DecodeBlock[s[i]]]
  BY <1>1 DEF DecodeBlock
<1>3. ASSUME s \in Seq(UserBlocks \cup ResultBlocks)
      PROVE  FlatMap(DecodeBlock, s) \in Seq(Parts1 \cup Results1)
  <2>1. ASSUME NEW i \in DOMAIN s PROVE DecodeBlock[s[i]] \in Seq(Parts1 \cup Results1)
    <3>1. s[i] \in UserBlocks \cup ResultBlocks
      BY <1>3
    <3>2. DecodeBlock[s[i]] = DecodeAnthropicBlock(s[i])
      BY <1>1 DEF DecodeBlock
    <3>3. CASE s[i] \in UserBlocks
      <4>1. DecodeBlock[s[i]] \in Seq(Parts1)
        BY <1>1, <3>2, <3>3, DecodeBlockType
      <4> QED BY <4>1
    <3>4. CASE s[i] \in ResultBlocks
      <4>1. PICK r \in Results1 : DecodeBlock[s[i]] = <<r>>
        BY <1>1, <3>2, <3>4, DecodeBlockType
      <4> QED BY <4>1
    <3> QED BY <3>1, <3>3, <3>4
  <2> QED BY <2>1, FlatMapInto
<1>4. ASSUME s \in Seq(UserBlocks \cup AnswerBlocks)
      PROVE  FlatMap(DecodeBlock, s) \in Seq(Parts1 \cup Texts("thinking") \cup Calls1)
  <2>1. \A i \in DOMAIN s : DecodeBlock[s[i]] \in Seq(Parts1 \cup Texts("thinking") \cup Calls1)
    <3>1. \A i \in DOMAIN s : s[i] \in UserBlocks \cup AnswerBlocks
      BY <1>4
    <3> QED BY <1>1, <3>1, DecodeBlockType DEF DecodeBlock
  <2> QED BY <2>1, FlatMapInto
<1> QED BY <1>2, <1>3, <1>4 DEF Each, FlatMap

LEMMA DecodeAnthropicType ==
  ASSUME NEW m \in AnthropicMessages
  PROVE  /\ DecodeAnthropic[m] = Messages(m.role, FlatMap(DecodeBlock, m.content))
         /\ DecodeAnthropic[m] \in Seq(Messages1)
         /\ m.content \in Seq(AnthropicBlocks) /\ m.role \in {"user", "assistant"}
         /\ FlatMap(DecodeBlock, m.content) \in Seq(Blocks1)
<1> DEFINE c == m.content
           d == FlatMap(DecodeBlock, c)
<1>1. c \in Seq(AnthropicBlocks) /\ m.role \in {"user", "assistant"}
  BY DEF AnthropicMessages, AnthropicBlocks
<1>2. DecodeAnthropic[m] = Messages(m.role, d)
  BY <1>1, DecodeContentEach DEF DecodeAnthropic
<1>3. CASE m.role = "user"
  <2>1. c \in Seq(UserBlocks \cup ResultBlocks)
    BY <1>3 DEF AnthropicMessages
  <2>2. d \in Seq(Parts1 \cup Results1)
    BY <1>1, <2>1, DecodeContentEach
  <2> HIDE DEF d
  <2>3. Message(m.role, d) \in Messages1 /\ d \in Seq(Blocks1)
    BY <1>3, <2>2 DEF Messages1, Message, Blocks1
  <2> QED BY <1>1, <1>2, <2>3 DEF Messages, d
<1>4. CASE m.role = "assistant"
  <2>1. c \in Seq(UserBlocks \cup AnswerBlocks)
    BY <1>4 DEF AnthropicMessages
  <2>2. d \in Seq(Parts1 \cup Texts("thinking") \cup Calls1)
    BY <1>1, <2>1, DecodeContentEach
  <2> HIDE DEF d
  <2>3. Message(m.role, d) \in Messages1 /\ d \in Seq(Blocks1)
    BY <1>4, <2>2 DEF Messages1, Message, Blocks1
  <2> QED BY <1>1, <1>2, <2>3 DEF Messages, d
<1> QED BY <1>1, <1>3, <1>4

LEMMA DecodePartType ==
  ASSUME NEW b \in PartBlocks
  PROVE  DecodePart(b) \in Seq(Parts1)
<1>1. CASE b \in Texts("text")
  <2>1. DecodePart(b) = <<b>> /\ b \in Parts1
    BY <1>1 DEF Texts, DecodePart, Parts1
  <2> QED BY <2>1
<1>2. CASE b \in Images("image_url", {"base64", "https", "data"}) /\ b.id = "base64"
  <2> DEFINE c == Block("image", "base64", b.val)
  <2>1. DecodePart(b) = <<c>>
    BY <1>2 DEF Images, DecodePart
  <2>2. c \in Parts1
    BY <1>2 DEF Images, Parts1, Block
  <2> HIDE DEF c
  <2> QED BY <2>1, <2>2
<1>3. CASE b \in Images("image_url", {"base64", "https", "data"}) /\ b.id # "base64"
  BY <1>3 DEF Images, DecodePart
<1> QED BY <1>1, <1>2, <1>3 DEF PartBlocks

LEMMA DecodePartsEach ==
  ASSUME NEW s \in Seq(PartBlocks)
  PROVE  /\ Each(DecodePart, s) = FlatMap(DecodeParts, s)
         /\ FlatMap(DecodeParts, s) \in Seq(Parts1)
<1>1. \A i \in DOMAIN s : s[i] \in PartBlocks
  OBVIOUS
<1>2. [i \in DOMAIN s |-> DecodePart(s[i])] = [i \in DOMAIN s |-> DecodeParts[s[i]]]
  BY <1>1 DEF DecodeParts
<1>3. \A i \in DOMAIN s : DecodeParts[s[i]] \in Seq(Parts1)
  BY <1>1, DecodePartType DEF DecodeParts
<1>4. FlatMap(DecodeParts, s) \in Seq(Parts1)
  BY <1>3, FlatMapInto
<1> QED BY <1>2, <1>4 DEF Each, FlatMap

LEMMA DecodeCallsEach ==
  ASSUME NEW s \in Seq(CallRecords)
  PROVE  /\ Each(DecodeCall, s) = FlatMap(DecodeCalls, s)
         /\ FlatMap(DecodeCalls, s) \in Seq(Calls1)
<1>1. \A i \in DOMAIN s : s[i] \in CallRecords
  OBVIOUS
<1>2. [i \in DOMAIN s |-> DecodeCall(s[i])] = [i \in DOMAIN s |-> DecodeCalls[s[i]]]
  BY <1>1 DEF DecodeCalls
<1>3. ASSUME NEW c \in CallRecords PROVE DecodeCalls[c] \in Seq(Calls1)
  <2> DEFINE b == Block("tool_call", c.id, [name |-> c.name, args |-> Reparsed[c.args]])
  <2>1. b \in Calls1
    BY Arguments1 DEF CallRecords, Calls1, Block
  <2>2. DecodeCalls[c] = <<b>>
    BY DEF DecodeCalls, DecodeCall
  <2> HIDE DEF b
  <2> QED BY <2>1, <2>2
<1>4. FlatMap(DecodeCalls, s) \in Seq(Calls1)
  BY <1>1, <1>3, FlatMapInto
<1> QED BY <1>2, <1>4 DEF Each, FlatMap

LEMMA OpenAIKinds ==
  ASSUME NEW m \in OpenAIMessages
  PROVE  /\ m.role \in Roles /\ m.content \in Seq(PartBlocks) /\ m.thinking \in Seq(Texts("thinking"))
         /\ m.tool_calls \in Seq(CallRecords)
         /\ m.role = "system" => m.content \in Seq(Texts("text"))
         /\ m.role # "assistant" => m.thinking = <<>> /\ m.tool_calls = <<>>
         /\ m.role = "tool" => m.tool_call_id \in IDs /\ m.tool_call_id # Empty
         /\ m.role # "tool" => m.tool_call_id = Empty
<1>1. Empty \notin IDs
  BY ConversationAssumption DEF IDs
<1>2. CASE m \in [role : {"system"}, content : Seq(Texts("text")), thinking : {<<>>},
                  tool_calls : {<<>>}, tool_call_id : {Empty}]
  <2>1. /\ m.role = "system" /\ m.content \in Seq(Texts("text")) /\ m.thinking = <<>>
        /\ m.tool_calls = <<>> /\ m.tool_call_id = Empty
    BY <1>2
  <2>2. m.content \in Seq(PartBlocks)
    BY <2>1 DEF PartBlocks
  <2> QED BY <2>1, <2>2 DEF Roles
<1>3. CASE m \in [role : {"user"}, content : Seq(PartBlocks), thinking : {<<>>}, tool_calls : {<<>>},
                  tool_call_id : {Empty}]
  <2>1. <<>> \in Seq(Texts("thinking")) /\ <<>> \in Seq(CallRecords)
    OBVIOUS
  <2> QED BY <1>3, <2>1 DEF Roles
<1>4. CASE m \in [role : {"tool"}, content : Seq(PartBlocks), thinking : {<<>>}, tool_calls : {<<>>},
                  tool_call_id : IDs]
  <2>1. <<>> \in Seq(Texts("thinking")) /\ <<>> \in Seq(CallRecords)
    OBVIOUS
  <2> QED BY <1>1, <1>4, <2>1 DEF Roles
<1>5. CASE m \in [role : {"assistant"}, content : Seq(PartBlocks), thinking : Seq(Texts("thinking")),
                  tool_calls : Seq(CallRecords), tool_call_id : {Empty}]
  BY <1>5 DEF Roles
<1> QED BY <1>2, <1>3, <1>4, <1>5 DEF OpenAIMessages

LEMMA DecodeOpenAIType ==
  ASSUME NEW m \in OpenAIMessages, m.role # "system"
  PROVE  LET parts == FlatMap(DecodeParts, m.content)
             calls == FlatMap(DecodeCalls, m.tool_calls)
             result == Block("tool_result", m.tool_call_id, [content |-> parts, is_error |-> FALSE])
         IN  /\ parts \in Seq(Parts1) /\ calls \in Seq(Calls1)
             /\ m.role = "user" => DecodeOpenAI[m] = Messages("user", parts)
             /\ m.role = "tool" => /\ DecodeOpenAI[m] = Messages("tool", parts \o <<result>>)
                                   /\ result \in Results1
             /\ m.role = "assistant" => DecodeOpenAI[m] = Messages("assistant", m.thinking \o parts \o calls)
             /\ DecodeOpenAI[m] \in Seq(Messages1)
<1> DEFINE parts == FlatMap(DecodeParts, m.content)
           calls == FlatMap(DecodeCalls, m.tool_calls)
           result == Block("tool_result", m.tool_call_id, [content |-> parts, is_error |-> FALSE])
           results == IF m.role = "tool" /\ m.tool_call_id # Empty THEN <<result>> ELSE <<>>
           whole == m.thinking \o parts \o calls \o results
<1>1. parts \in Seq(Parts1) /\ Each(DecodePart, m.content) = parts
  BY OpenAIKinds, DecodePartsEach
<1>2. calls \in Seq(Calls1) /\ Each(DecodeCall, m.tool_calls) = calls
  BY OpenAIKinds, DecodeCallsEach
<1>3. DecodeOpenAI[m] = Messages(m.role, whole)
  BY <1>1, <1>2 DEF DecodeOpenAI, DecodeOpenAIMessage, Each
<1>4. m.role # "assistant" => calls = <<>> /\ m.thinking = <<>>
  BY OpenAIKinds, FlatMapNone
<1>5. m.role = "tool" => result \in Results1
  BY <1>1, OpenAIKinds DEF Results1, Block
<1>6. m.thinking \in Seq(Texts("thinking"))
  BY OpenAIKinds
<1> HIDE DEF parts, calls, result
<1>7. m.role = "user" => whole = parts
  BY <1>1, <1>4
<1>8. m.role = "tool" => whole = parts \o <<result>>
  <2>1. SUFFICES ASSUME m.role = "tool" PROVE whole = parts \o <<result>>
    OBVIOUS
  <2>2. results = <<result>>
    BY <2>1, OpenAIKinds
  <2>3. whole = <<>> \o parts \o <<>> \o <<result>>
    BY <1>4, <2>1, <2>2
  <2> HIDE DEF whole
  <2> QED BY <1>1, <2>3
<1>9. m.role = "assistant" => whole = m.thinking \o parts \o calls
  BY <1>1, <1>2, <1>6
<1> HIDE DEF whole
<1>10. m.role \in {"user", "tool", "assistant"}
  BY OpenAIKinds DEF Roles
<1>11. Message(m.role, whole) \in Messages1
  <2>1. CASE m.role = "user"
    BY <1>1, <1>7, <2>1 DEF Messages1, Message
  <2>2. CASE m.role = "tool"
    BY <1>1, <1>5, <1>8, <2>2 DEF Messages1, Message
  <2>3. CASE m.role = "assistant"
    <3> DEFINE All == Parts1 \cup Texts("thinking") \cup Calls1
    <3>2. parts \in Seq(All) /\ calls \in Seq(All) /\ m.thinking \in Seq(All)
      BY <1>1, <1>2, <1>6
    <3> HIDE DEF All
    <3>3. m.thinking \o parts \in Seq(All)
      BY <3>2
    <3>4. m.thinking \o parts \o calls \in Seq(All)
      BY <3>2, <3>3
    <3>1. whole \in Seq(All)
      BY <3>4, <1>9, <2>3
    <3> USE DEF All
    <3> QED BY <2>3, <3>1 DEF Messages1, Message
  <2> QED BY <1>10, <2>1, <2>2, <2>3
<1>12. DecodeOpenAI[m] \in Seq(Messages1)
  <2>1. Messages(m.role, whole) \in {<<>>, <<Message(m.role, whole)>>}
    BY DEF Messages
  <2> DEFINE x == Message(m.role, whole)
  <2>2. x \in Messages1
    BY <1>11
  <2> HIDE DEF x
  <2>3. <<>> \in Seq(Messages1) /\ <<x>> \in Seq(Messages1)
    BY <2>2
  <2> QED BY <1>3, <2>1, <2>3 DEF x
<1> QED BY <1>1, <1>2, <1>3, <1>5, <1>7, <1>8, <1>9, <1>12 DEF parts, calls, result

(* ---------------------------- sent messages ----------------------------- *)

SentParts ==
  Texts("text") \cup [type : {"image_url"}, id : {"base64"}, val : Pictures \ {Empty}]
Errors == [type : {"text"}, id : {Empty}, val : Seq(Pieces \cup {ErrorMark})]
ToolMessages ==
  [role : {"tool"}, content : Seq(SentParts \cup Errors), tool_calls : {<<>>}, tool_call_id : IDs]
OwnMessages ==
  {m \in [role : {"system", "user", "assistant"}, content : Seq(SentParts),
          tool_calls : Seq(CallRecords), tool_call_id : {Empty}] :
     /\ m.content # <<>> \/ m.tool_calls # <<>>
     /\ m.tool_calls # <<>> => m.role = "assistant"}
SentMessages == ToolMessages \cup OwnMessages

\* What of a message's blocks is sent as its parts, its calls and its results.
EncodeParts == [b \in Blocks1 |-> EncodePart(b)]
OnlyCalls == [b \in Blocks1 |-> IF b.type = "tool_call" THEN <<b>> ELSE <<>>]
EncodeCalls == [b \in Calls1 |-> EncodeCall(b)]
CallsOf == [b \in Blocks1 |-> IF b.type = "tool_call" THEN EncodeCall(b) ELSE <<>>]
OnlyResults == [b \in Blocks1 |-> IF b.type = "tool_result" THEN <<b>> ELSE <<>>]
EncodeResults == [b \in Results1 |-> EncodeToolResult(b)]
ResultsOf == [b \in Blocks1 |-> IF b.type = "tool_result" THEN EncodeToolResult(b) ELSE <<>>]
Encode == [m \in Messages1 |-> EncodeOpenAIMessage(m)]

LEMMA Block1Kinds ==
  ASSUME NEW b \in Blocks1
  PROVE  /\ b.type = "text" => b \in Texts("text")
         /\ b.type = "image" => b \in Images("image", {"base64"})
         /\ b.type = "tool_call" <=> b \in Calls1
         /\ b.type = "tool_result" <=> b \in Results1
         /\ b \in Parts1 <=> b.type \in {"text", "image"}
         /\ b.type \in {"text", "image", "thinking", "tool_call", "tool_result"}
BY DEF Blocks1, Parts1, Calls1, Results1, Texts, Images

LEMMA EncodePartType ==
  ASSUME NEW b \in Blocks1
  PROVE  /\ b.type = "text" => EncodePart(b) = <<b>>
         /\ b.type = "image" /\ b.val # Empty =>
              EncodePart(b) = <<[type |-> "image_url", id |-> "base64", val |-> b.val]>>
         /\ b.type = "image" /\ b.val = Empty => EncodePart(b) = <<>>
         /\ b.type \notin {"text", "image"} => EncodePart(b) = <<>>
         /\ EncodePart(b) \in Seq(SentParts)
<1>1. /\ b.type = "text" => EncodePart(b) = <<b>>
      /\ b.type = "image" /\ b.val # Empty =>
           EncodePart(b) = <<[type |-> "image_url", id |-> "base64", val |-> b.val]>>
      /\ b.type = "image" /\ b.val = Empty => EncodePart(b) = <<>>
      /\ b.type \notin {"text", "image"} => EncodePart(b) = <<>>
  BY DEF EncodePart, Block
<1>2. CASE b.type = "text"
  <2>1. b \in SentParts
    BY <1>2, Block1Kinds DEF SentParts
  <2>2. <<b>> \in Seq(SentParts)
    BY <2>1
  <2> QED BY <1>1, <1>2, <2>2
<1>3. CASE b.type = "image" /\ b.val # Empty
  <2> DEFINE c == [type |-> "image_url", id |-> "base64", val |-> b.val]
  <2>1. c \in SentParts
    BY <1>3, Block1Kinds DEF SentParts, Images
  <2> HIDE DEF c
  <2>2. <<c>> \in Seq(SentParts)
    BY <2>1
  <2> QED BY <1>1, <1>3, <2>2 DEF c
<1>4. CASE b.type \notin {"text", "image"} \/ (b.type = "image" /\ b.val = Empty)
  <2>1. <<>> \in Seq(SentParts)
    OBVIOUS
  <2> QED BY <1>1, <1>4, <2>1
<1> QED BY <1>1, <1>2, <1>3, <1>4

LEMMA EncodePartsEach ==
  ASSUME NEW s \in Seq(Blocks1)
  PROVE  /\ Each(EncodePart, s) = FlatMap(EncodeParts, s)
         /\ FlatMap(EncodeParts, s) \in Seq(SentParts)
         /\ EncodeParts \in [Blocks1 -> Seq(SentParts)]
<1>1. \A i \in DOMAIN s : s[i] \in Blocks1
  OBVIOUS
<1>2. [i \in DOMAIN s |-> EncodePart(s[i])] = [i \in DOMAIN s |-> EncodeParts[s[i]]]
  BY <1>1 DEF EncodeParts
<1>3. EncodeParts \in [Blocks1 -> Seq(SentParts)]
  BY EncodePartType DEF EncodeParts
<1>4. FlatMap(EncodeParts, s) \in Seq(SentParts)
  BY <1>3, FlatMapType
<1> QED BY <1>2, <1>3, <1>4 DEF Each, FlatMap

LEMMA EncodeCallsEach ==
  ASSUME NEW s \in Seq(Blocks1)
  PROVE  /\ Each(EncodeCall, OfType("tool_call", s)) = FlatMap(CallsOf, s)
         /\ CallsOf \in [Blocks1 -> Seq(CallRecords)]
         /\ FlatMap(CallsOf, s) \in Seq(CallRecords)
<1>1. OnlyCalls \in [Blocks1 -> Seq(Calls1)]
  BY Block1Kinds DEF OnlyCalls
<1>2. EncodeCalls \in [Calls1 -> Seq(CallRecords)]
  <2>1. ASSUME NEW b \in Calls1 PROVE EncodeCall(b) \in Seq(CallRecords)
    <3> DEFINE c == [id |-> b.id, name |-> b.val.name, args |-> b.val.args]
    <3>1. c \in CallRecords
      BY DEF Calls1, CallRecords
    <3> HIDE DEF c
    <3>2. <<c>> \in Seq(CallRecords)
      BY <3>1
    <3> QED BY <3>2 DEF EncodeCall, c
  <2> QED BY <2>1 DEF EncodeCalls
<1>3. CallsOf \in [Blocks1 -> Seq(CallRecords)]
  <2>1. ASSUME NEW b \in Blocks1 PROVE CallsOf[b] \in Seq(CallRecords)
    BY <1>2, Block1Kinds DEF CallsOf, EncodeCalls
  <2> QED BY <2>1 DEF CallsOf
<1>4. ASSUME NEW b \in Blocks1 PROVE CallsOf[b] = FlatMap(EncodeCalls, OnlyCalls[b])
  BY <1>2, Block1Kinds, FlatMapOne, FlatMapNone DEF CallsOf, EncodeCalls, OnlyCalls
<1>5. FlatMap(EncodeCalls, FlatMap(OnlyCalls, s)) = FlatMap(CallsOf, s)
  <2>1. OnlyCalls \in Maps(Blocks1, Calls1) /\ EncodeCalls \in Maps(Calls1, CallRecords)
    BY <1>1, <1>2 DEF Maps
  <2>2. CallsOf \in Maps(Blocks1, CallRecords) /\ s \in Lists(Blocks1)
    BY <1>3 DEF Maps, Lists
  <2> QED BY <1>4, <2>1, <2>2, FlatMapTwice
<1> DEFINE t == FlatMap(OnlyCalls, s)
<1>6. OfType("tool_call", s) = t
  <2>1. [i \in DOMAIN s |-> IF s[i].type = "tool_call" THEN <<s[i]>> ELSE <<>>]
          = [i \in DOMAIN s |-> OnlyCalls[s[i]]]
    BY DEF OnlyCalls
  <2> QED BY <2>1 DEF OfType, Each, FlatMap
<1>7. t \in Seq(Calls1)
  BY <1>1, FlatMapType
<1> HIDE DEF t
<1>8. Each(EncodeCall, t) = FlatMap(EncodeCalls, t)
  <2>1. [i \in DOMAIN t |-> EncodeCall(t[i])] = [i \in DOMAIN t |-> EncodeCalls[t[i]]]
    BY <1>7 DEF EncodeCalls
  <2> QED BY <2>1 DEF Each, FlatMap
<1>9. FlatMap(CallsOf, s) \in Seq(CallRecords)
  BY <1>3, FlatMapType
<1> QED BY <1>3, <1>5, <1>6, <1>8, <1>9 DEF t, Each

\* What a result becomes: its parts, with the mark of an error.
LEMMA ResultContent ==
  ASSUME NEW r \in Results1
  PROVE  LET parts == FlatMap(EncodeParts, r.val.content)
             sent1 == EncodeToolResultContent(r.val)
         IN  /\ parts \in Seq(SentParts) /\ sent1 \in Seq(SentParts \cup Errors)
             /\ ~r.val.is_error => sent1 = parts
             /\ r.val.is_error =>
                  \/ sent1 = <<Block("text", Empty, <<ErrorMark>>)>> \o parts
                  \/ /\ parts # <<>> /\ parts[1].type = "text"
                     /\ sent1 = [parts EXCEPT ![1].val = <<ErrorMark>> \o @]
<1> DEFINE c == r.val.content
           parts == FlatMap(EncodeParts, c)
           sent1 == EncodeToolResultContent(r.val)
           mark == Block("text", Empty, <<ErrorMark>>)
<1>1. c \in Seq(Parts1) /\ r.val.is_error \in BOOLEAN
  BY DEF Results1
<1>2. c \in Seq(Blocks1)
  BY <1>1 DEF Blocks1
<1>3. parts \in Seq(SentParts) /\ Each(EncodePart, c) = parts
  BY <1>2, EncodePartsEach
<1>4. sent1 = CASE ~r.val.is_error -> parts
                [] r.val.is_error /\ parts # <<>> /\ Head(parts).type = "text" ->
                     [parts EXCEPT ![1].val = <<ErrorMark>> \o @]
                [] OTHER -> <<mark>> \o parts
  BY <1>3 DEF EncodeToolResultContent, Each
<1> HIDE DEF parts, sent1
<1>5. mark \in Errors
  BY DEF Errors, Block
<1> HIDE DEF mark
<1>6. CASE ~r.val.is_error
  BY <1>4, <1>6, <1>3 DEF parts, sent1
<1>7. CASE r.val.is_error /\ parts # <<>> /\ Head(parts).type = "text"
  <2> DEFINE p == parts[1]
             q == [p EXCEPT !.val = <<ErrorMark>> \o @]
  <2>1. Head(parts) = p /\ p \in SentParts /\ 1 \in DOMAIN parts
    BY <1>3, <1>7
  <2>2. sent1 = [parts EXCEPT ![1] = q]
    BY <1>4, <1>7, <2>1
  <2>3. p.type = "text"
    BY <1>7, <2>1
  <2>4. p \in Texts("text")
    BY <2>1, <2>3 DEF SentParts, Images
  <2>5. <<ErrorMark>> \o p.val \in Seq(Pieces \cup {ErrorMark})
    <3>1. p.val \in Seq(Pieces)
      BY <2>4 DEF Texts
    <3> HIDE DEF p
    <3> DEFINE v == p.val
    <3>2. v \in Seq(Pieces)
      BY <3>1
    <3> HIDE DEF v
    <3>3. <<ErrorMark>> \o v \in Seq(Pieces \cup {ErrorMark})
      BY <3>2
    <3> QED BY <3>3 DEF v
  <2>6. q \in Errors
    BY <2>4, <2>5 DEF Texts, Errors
  <2> HIDE DEF p, q
  <2>7. [parts EXCEPT ![1] = q] \in Seq(SentParts \cup Errors)
    BY <1>3, <2>1, <2>6
  <2>8. sent1 = [parts EXCEPT ![1].val = <<ErrorMark>> \o @]
    BY <1>4, <1>7
  <2> QED BY <1>3, <1>7, <2>1, <2>2, <2>3, <2>7, <2>8 DEF parts, sent1, p
<1>8. CASE r.val.is_error /\ ~(parts # <<>> /\ Head(parts).type = "text")
  <2>1. sent1 = <<mark>> \o parts
    BY <1>4, <1>8
  <2>2. <<mark>> \o parts \in Seq(SentParts \cup Errors)
    BY <1>3, <1>5
  <2> QED BY <1>3, <1>8, <2>1, <2>2 DEF parts, sent1, mark
<1> QED BY <1>1, <1>6, <1>7, <1>8

LEMMA EncodeResultsEach ==
  ASSUME NEW s \in Seq(Blocks1)
  PROVE  /\ Each(EncodeToolResult, OfType("tool_result", s)) = FlatMap(ResultsOf, s)
         /\ ResultsOf \in [Blocks1 -> Seq(ToolMessages)]
         /\ FlatMap(ResultsOf, s) \in Seq(ToolMessages)
<1>1. OnlyResults \in [Blocks1 -> Seq(Results1)]
  BY Block1Kinds DEF OnlyResults
<1>2. EncodeResults \in [Results1 -> Seq(ToolMessages)]
  <2>1. ASSUME NEW b \in Results1 PROVE EncodeToolResult(b) \in Seq(ToolMessages)
    <3> DEFINE x == EncodeToolResultContent(b.val)
               c == ChatMessage("tool", x, <<>>, b.id)
    <3>1. x \in Seq(SentParts \cup Errors)
      BY ResultContent
    <3> HIDE DEF x
    <3>2. c \in ToolMessages
      BY <3>1 DEF Results1, ToolMessages, ChatMessage
    <3> HIDE DEF c
    <3>3. <<c>> \in Seq(ToolMessages)
      BY <3>2
    <3> QED BY <3>3 DEF EncodeToolResult, c, x
  <2> QED BY <2>1 DEF EncodeResults
<1>3. ResultsOf \in [Blocks1 -> Seq(ToolMessages)]
  <2>1. ASSUME NEW b \in Blocks1 PROVE ResultsOf[b] \in Seq(ToolMessages)
    BY <1>2, Block1Kinds DEF ResultsOf, EncodeResults
  <2> QED BY <2>1 DEF ResultsOf
<1>4. ASSUME NEW b \in Blocks1 PROVE ResultsOf[b] = FlatMap(EncodeResults, OnlyResults[b])
  BY <1>2, Block1Kinds, FlatMapOne, FlatMapNone DEF ResultsOf, EncodeResults, OnlyResults
<1>5. FlatMap(EncodeResults, FlatMap(OnlyResults, s)) = FlatMap(ResultsOf, s)
  <2>1. OnlyResults \in Maps(Blocks1, Results1) /\ EncodeResults \in Maps(Results1, ToolMessages)
    BY <1>1, <1>2 DEF Maps
  <2>2. ResultsOf \in Maps(Blocks1, ToolMessages) /\ s \in Lists(Blocks1)
    BY <1>3 DEF Maps, Lists
  <2> QED BY <1>4, <2>1, <2>2, FlatMapTwice
<1> DEFINE t == FlatMap(OnlyResults, s)
<1>6. OfType("tool_result", s) = t
  <2>1. [i \in DOMAIN s |-> IF s[i].type = "tool_result" THEN <<s[i]>> ELSE <<>>]
          = [i \in DOMAIN s |-> OnlyResults[s[i]]]
    BY DEF OnlyResults
  <2> QED BY <2>1 DEF OfType, Each, FlatMap
<1>7. t \in Seq(Results1)
  BY <1>1, FlatMapType
<1> HIDE DEF t
<1>8. Each(EncodeToolResult, t) = FlatMap(EncodeResults, t)
  <2>1. [i \in DOMAIN t |-> EncodeToolResult(t[i])] = [i \in DOMAIN t |-> EncodeResults[t[i]]]
    BY <1>7 DEF EncodeResults
  <2> QED BY <2>1 DEF Each, FlatMap
<1>9. FlatMap(ResultsOf, s) \in Seq(ToolMessages)
  BY <1>3, FlatMapType
<1> QED BY <1>3, <1>5, <1>6, <1>8, <1>9 DEF t, Each

LEMMA Message1Kinds ==
  ASSUME NEW m \in Messages1
  PROVE  /\ m.role \in {"user", "tool", "assistant"} /\ m.content \in Seq(Blocks1)
         /\ m.role # "assistant" => m.content \in Seq(Parts1 \cup Results1)
         /\ m.role = "assistant" => m.content \in Seq(Parts1 \cup Texts("thinking") \cup Calls1)
BY DEF Blocks1, Messages1

\* Only the assistant calls, and the assistant gives no results.
LEMMA RolesOfBlocks ==
  ASSUME NEW m \in Messages1
  PROVE  /\ m.role # "assistant" => FlatMap(CallsOf, m.content) = <<>>
         /\ m.role = "assistant" => FlatMap(ResultsOf, m.content) = <<>>
<1> DEFINE s == m.content
<1>1. s \in Seq(Blocks1)
  BY Message1Kinds
<1>2. ASSUME m.role # "assistant" PROVE FlatMap(CallsOf, s) = <<>>
  <2>1. s \in Seq(Parts1 \cup Results1)
    BY <1>2, Message1Kinds
  <2> HIDE DEF s
  <2>2. ASSUME NEW i \in DOMAIN s PROVE CallsOf[s[i]] = <<>>
    BY <1>1, <2>1, Block1Kinds DEF CallsOf
  <2> QED BY <1>1, <2>2, FlatMapEmpty
<1>3. ASSUME m.role = "assistant" PROVE FlatMap(ResultsOf, s) = <<>>
  <2>1. s \in Seq(Parts1 \cup Texts("thinking") \cup Calls1)
    BY <1>3, Message1Kinds
  <2> HIDE DEF s
  <2>2. ASSUME NEW i \in DOMAIN s PROVE ResultsOf[s[i]] = <<>>
    BY <1>1, <2>1, Block1Kinds DEF Texts, ResultsOf
  <2> QED BY <1>1, <2>2, FlatMapEmpty
<1> QED BY <1>2, <1>3

LEMMA EncodeType ==
  ASSUME NEW m \in Messages1
  PROVE  LET parts == FlatMap(EncodeParts, m.content)
             calls == FlatMap(CallsOf, m.content)
             results == FlatMap(ResultsOf, m.content)
             own == ChatMessage(m.role, parts, calls, Empty)
         IN  /\ parts \in Seq(SentParts) /\ calls \in Seq(CallRecords) /\ results \in Seq(ToolMessages)
             /\ m.role = "tool" => Encode[m] = results
             /\ m.role = "user" =>
                  /\ parts = <<>> => Encode[m] = results
                  /\ parts # <<>> => Encode[m] = results \o <<own>> /\ own \in OwnMessages
             /\ m.role = "assistant" =>
                  /\ parts = <<>> /\ calls = <<>> => Encode[m] = <<>>
                  /\ ~(parts = <<>> /\ calls = <<>>) => Encode[m] = <<own>> /\ own \in OwnMessages
             /\ Encode[m] \in Seq(SentMessages)
<1> DEFINE parts == FlatMap(EncodeParts, m.content)
           calls == FlatMap(CallsOf, m.content)
           results == FlatMap(ResultsOf, m.content)
           own == ChatMessage(m.role, parts, calls, Empty)
<1>1. parts \in Seq(SentParts) /\ Parts(m) = parts
  BY Message1Kinds, EncodePartsEach DEF Parts, Each
<1>2. calls \in Seq(CallRecords) /\ Calls(m) = calls
  BY Message1Kinds, EncodeCallsEach DEF Calls, Each
<1>3. results \in Seq(ToolMessages) /\ ToolResults(m) = results
  BY Message1Kinds, EncodeResultsEach DEF ToolResults, Each
<1>4. Own(m) = <<own>>
  BY <1>1, <1>2 DEF Own
<1>5. /\ m.role # "assistant" => calls = <<>>
      /\ m.role = "assistant" => results = <<>>
  BY RolesOfBlocks
<1>6. m.role \in {"user", "tool", "assistant"}
  BY Message1Kinds
<1> HIDE DEF parts, calls, results
<1>7. (m.role = "user" /\ parts # <<>>) \/ (m.role = "assistant" /\ ~(parts = <<>> /\ calls = <<>>))
        => own \in OwnMessages
  BY <1>1, <1>2, <1>5 DEF ChatMessage, OwnMessages
<1> HIDE DEF own
<1>8. Encode[m] = EncodeOpenAIMessage(m)
  BY DEF Encode
<1>9. m.role = "tool" => Encode[m] = results
  BY <1>3, <1>8 DEF EncodeOpenAIMessage
<1>10. m.role = "user" =>
          /\ parts = <<>> => Encode[m] = results
          /\ parts # <<>> => Encode[m] = results \o <<own>>
  <2>1. CASE results = <<>>
    BY <1>1, <1>2, <1>3, <1>4, <1>8, <2>1, <1>5 DEF EncodeOpenAIMessage
  <2>2. CASE results # <<>>
    BY <1>1, <1>3, <1>4, <1>8, <2>2 DEF EncodeOpenAIMessage
  <2> QED BY <2>1, <2>2
<1>11. m.role = "assistant" => Encode[m] = IF parts = <<>> /\ calls = <<>> THEN <<>> ELSE <<own>>
  BY <1>1, <1>2, <1>3, <1>4, <1>5, <1>8 DEF EncodeOpenAIMessage
<1>12. Encode[m] \in Seq(SentMessages)
  <2>1. results \in Seq(SentMessages)
    BY <1>3 DEF SentMessages
  <2>2. own \in OwnMessages => results \o <<own>> \in Seq(SentMessages) /\ <<own>> \in Seq(SentMessages)
    BY <2>1 DEF SentMessages
  <2>3. <<>> \in Seq(SentMessages)
    OBVIOUS
  <2> QED BY <1>6, <1>7, <1>9, <1>10, <1>11, <2>1, <2>2, <2>3
<1> QED BY <1>1, <1>2, <1>3, <1>7, <1>9, <1>10, <1>11, <1>12 DEF parts, calls, results, own

(* ---------------------------- whole requests ---------------------------- *)

OnlyTexts == [b \in Texts("text") |-> IF b.type = "text" THEN <<b>> ELSE <<>>]
SystemMessages == [b \in Texts("text") |-> <<ChatMessage("system", <<b>>, <<>>, Empty)>>]

Histories(p) == IF p = "anthropic" THEN AnthropicMessages ELSE OpenAIMessages
Decode(p) == IF p = "anthropic" THEN DecodeAnthropic ELSE DecodeOpenAI
SystemTexts(p, system, h) == IF p = "anthropic" THEN system ELSE FlatMap(SystemOf, h)

\* What a request becomes before its last message may change its role.
Unroled(p, system, h) ==
  FlatMap(SystemMessages, SystemTexts(p, system, h)) \o FlatMap(Encode, FlatMap(Decode(p), h))

Requests == [system : Seq(Texts("text")), tools : SUBSET Names, web_search : BOOLEAN,
             choice : [anthropic : ToolChoices("tool"), openai : ToolChoices("function")]]

LEMMA TextsStay ==
  ASSUME NEW s \in Seq(Texts("text"))
  PROVE  OfType("text", s) = s
<1> DEFINE T == Texts("text")
           f == [b \in T |-> b]
<1>1. OnlyTexts \in [T -> Seq(T)] /\ f \in [T -> T]
  BY DEF OnlyTexts
<1>2. \A b \in T : OnlyTexts[b] = <<f[b]>>
  BY DEF OnlyTexts, Texts
<1>0. s \in Seq(T)
  OBVIOUS
<1> HIDE DEF T
<1>4. [i \in DOMAIN s |-> f[s[i]]] = [i \in DOMAIN s |-> s[i]]
  BY <1>0
<1> HIDE DEF f
<1>3. FlatMap(OnlyTexts, s) = [i \in DOMAIN s |-> f[s[i]]]
  BY <1>0, <1>2, FlatMapEach
<1>5. [i \in DOMAIN s |-> s[i]] = s
  OBVIOUS
<1>6. [i \in DOMAIN s |-> IF s[i].type = "text" THEN <<s[i]>> ELSE <<>>]
        = [i \in DOMAIN s |-> OnlyTexts[s[i]]]
  BY DEF OnlyTexts
<1> QED BY <1>3, <1>4, <1>5, <1>6 DEF OfType, Each, FlatMap

LEMMA SystemOfType ==
  ASSUME NEW m \in OpenAIMessages
  PROVE  /\ SystemOf[m] \in Seq(Texts("text"))
         /\ m.role = "system" => SystemOf[m] = m.content /\ m.content \in Seq(Texts("text"))
<1>1. CASE m.role = "system"
  <2> DEFINE s == m.content
  <2>1. s \in Seq(Texts("text")) /\ SystemOf[m] = Each(DecodePart, s)
    BY <1>1, OpenAIKinds DEF SystemOf, Each
  <2> HIDE DEF s
  <2>2. [i \in DOMAIN s |-> DecodePart(s[i])]
          = [i \in DOMAIN s |-> IF s[i].type = "text" THEN <<s[i]>> ELSE <<>>]
    <3>1. \A i \in DOMAIN s : s[i].type = "text"
      <4>1. \A i \in DOMAIN s : s[i] \in Texts("text")
        BY <2>1
      <4> QED BY <4>1 DEF Texts
    <3> QED BY <3>1 DEF DecodePart
  <2>3. Each(DecodePart, s) = OfType("text", s)
    BY <2>2 DEF Each, OfType
  <2> QED BY <2>1, <2>3, TextsStay DEF s, Each
<1>2. CASE m.role # "system"
  BY <1>2 DEF SystemOf
<1> QED BY <1>1, <1>2

LEMMA DecodeType ==
  ASSUME NEW p \in Protocols
  PROVE  /\ Decode(p) \in [Histories(p) -> Seq(Messages1)]
         /\ \A h \in Seq(Histories(p)) : FlatMap(Decode(p), h) \in Seq(Messages1)
<1>1. ASSUME NEW m \in Histories(p) PROVE Decode(p)[m] \in Seq(Messages1)
  <2>1. CASE p = "anthropic"
    BY <2>1, DecodeAnthropicType DEF Histories, Decode
  <2>2. CASE p = "openai" /\ m.role # "system"
    BY <2>2, DecodeOpenAIType DEF Histories, Decode
  <2>3. CASE p = "openai" /\ m.role = "system"
    BY <2>3 DEF Histories, Decode, DecodeOpenAI
  <2> QED BY <2>1, <2>2, <2>3 DEF Protocols
<1>2. Decode(p) = [m \in Histories(p) |-> Decode(p)[m]]
  BY DEF Decode, Histories, DecodeAnthropic, DecodeOpenAI
<1>3. Decode(p) \in [Histories(p) -> Seq(Messages1)]
  BY <1>1, <1>2
<1> DEFINE f == Decode(p)
           H == Histories(p)
<1>4. f \in [H -> Seq(Messages1)]
  BY <1>3
<1> HIDE DEF f, H
<1>5. \A h \in Seq(H) : FlatMap(f, h) \in Seq(Messages1)
  BY <1>4, FlatMapType
<1> QED BY <1>3, <1>5 DEF f, H

LEMMA UnroledType ==
  ASSUME NEW p \in Protocols, NEW system \in Seq(Texts("text")), NEW h \in Seq(Histories(p))
  PROVE  /\ SystemTexts(p, system, h) \in Seq(Texts("text"))
         /\ SystemMessages \in [Texts("text") -> Seq(SentMessages)]
         /\ Encode \in [Messages1 -> Seq(SentMessages)]
         /\ FlatMap(SystemMessages, SystemTexts(p, system, h)) \in Seq(SentMessages)
         /\ FlatMap(Encode, FlatMap(Decode(p), h)) \in Seq(SentMessages)
         /\ Unroled(p, system, h) \in Seq(SentMessages)
<1> DEFINE s == SystemTexts(p, system, h)
           x == FlatMap(SystemMessages, s)
           c == FlatMap(Decode(p), h)
           y == FlatMap(Encode, c)
<1>1. s \in Seq(Texts("text"))
  BY SystemOfType, FlatMapType DEF SystemTexts, SystemOf, Histories
<1>2. SystemMessages \in [Texts("text") -> Seq(SentMessages)]
  <2>1. ASSUME NEW b \in Texts("text") PROVE SystemMessages[b] \in Seq(SentMessages)
    <3> DEFINE m == ChatMessage("system", <<b>>, <<>>, Empty)
    <3>1. b \in SentParts
      BY DEF SentParts
    <3>2. <<b>> \in Seq(SentParts) /\ <<b>> # <<>> /\ <<>> \in Seq(CallRecords)
      BY <3>1
    <3>3. m \in OwnMessages
      BY <3>2 DEF OwnMessages, ChatMessage
    <3>4. SystemMessages[b] = <<m>>
      BY DEF SystemMessages
    <3> HIDE DEF m
    <3>5. m \in SentMessages
      BY <3>3 DEF SentMessages
    <3> QED BY <3>4, <3>5
  <2> QED BY <2>1 DEF SystemMessages
<1>3. Encode \in [Messages1 -> Seq(SentMessages)]
  BY EncodeType DEF Encode
<1>4. c \in Seq(Messages1)
  BY DecodeType
<1> HIDE DEF s, c
<1>5. x \in Seq(SentMessages) /\ y \in Seq(SentMessages)
  BY <1>1, <1>2, <1>3, <1>4, FlatMapType
<1> HIDE DEF x, y
<1>6. x \o y \in Seq(SentMessages)
  BY <1>5
<1> QED BY <1>1, <1>2, <1>3, <1>5, <1>6 DEF Unroled, x, y, s, c

LEMMA ReRoleType ==
  ASSUME NEW ms \in Seq(SentMessages)
  PROVE  /\ ReRole(ms) \in Seq(SentMessages) /\ DOMAIN ReRole(ms) = DOMAIN ms
         /\ \A i \in DOMAIN ms : /\ ReRole(ms)[i].content = ms[i].content
                                 /\ ReRole(ms)[i].tool_calls = ms[i].tool_calls
                                 /\ ReRole(ms)[i].tool_call_id = ms[i].tool_call_id
                                 /\ \/ ReRole(ms)[i].role = ms[i].role
                                    \/ ReRole(ms)[i].role = "user" /\ ms[i].role = "assistant"
<1> DEFINE n == Len(ms)
           x == ReRole(ms)
           Turned(m) == [m EXCEPT !.role = "user"]
<1>1. n \in Nat /\ DOMAIN ms = 1..n /\ \A i \in 1..n : ms[i] \in SentMessages
  OBVIOUS
<1>2. x = [i \in 1..n |-> IF i = n /\ ms[i].role = "assistant" /\ ms[i].tool_calls = <<>>
                          THEN Turned(ms[i]) ELSE ms[i]]
  BY <1>1 DEF ReRole
<1> HIDE DEF x, n
<1>3. ASSUME NEW m \in SentMessages, m.role = "assistant", m.tool_calls = <<>>
      PROVE  /\ Turned(m) \in SentMessages
             /\ Turned(m).content = m.content /\ Turned(m).tool_calls = m.tool_calls
             /\ Turned(m).tool_call_id = m.tool_call_id /\ Turned(m).role = "user"
  BY <1>3 DEF SentMessages, ToolMessages, OwnMessages
<1> HIDE DEF Turned
<1>4. \A i \in 1..n : x[i] \in SentMessages
  BY <1>1, <1>2, <1>3
<1>5. x \in Seq(SentMessages)
  BY <1>2, <1>4, <1>1
<1>6. \A i \in 1..n : /\ x[i].content = ms[i].content
                      /\ x[i].tool_calls = ms[i].tool_calls
                      /\ x[i].tool_call_id = ms[i].tool_call_id
                      /\ \/ x[i].role = ms[i].role
                         \/ x[i].role = "user" /\ ms[i].role = "assistant"
  <2>1. ASSUME NEW i \in 1..n
        PROVE  /\ x[i].content = ms[i].content
               /\ x[i].tool_calls = ms[i].tool_calls
               /\ x[i].tool_call_id = ms[i].tool_call_id
               /\ \/ x[i].role = ms[i].role
                  \/ x[i].role = "user" /\ ms[i].role = "assistant"
    BY <1>1, <1>2, <1>3
  <2> QED BY <2>1
<1>7. DOMAIN x = 1..n
  BY <1>2
<1> QED BY <1>1, <1>5, <1>6, <1>7 DEF x, n

\* What Forward sends.
LEMMA ForwardSends ==
  ASSUME TypeOK, Forward
  PROVE  /\ protocol \in Protocols /\ history \in Seq(Histories(protocol))
         /\ asked' \in Requests
         /\ sent'.messages = ReRole(Unroled(protocol, asked'.system, history))
         /\ sent'.tools = IF asked'.tools = {} /\ ~asked'.web_search
                          THEN InferToolsFromHistory(sent'.messages) ELSE asked'.tools
         /\ sent'.choice = EncodeToolChoice(IF protocol = "anthropic"
                                            THEN DecodeAnthropicToolChoice(asked'.choice[protocol])
                                            ELSE DecodeOpenAIToolChoice(asked'.choice[protocol]))
         /\ sent'.web_search = asked'.web_search
         /\ protocol = "openai" => asked'.system = <<>>
<1>1. protocol \in Protocols /\ history \in Seq(Histories(protocol))
  BY DEF TypeOK, Protocols, Histories
<1>2. asked' \in Requests /\ (protocol = "openai" => asked'.system = <<>>)
  <2>1. PICK o \in Offers : asked' = IF protocol = "openai" THEN [o EXCEPT !.system = <<>>] ELSE o
    BY DEF Forward
  <2>2. o \in Requests
    BY ContentAssumption DEF Requests
  <2>3. <<>> \in Seq(Texts("text"))
    OBVIOUS
  <2>4. [o EXCEPT !.system = <<>>] \in Requests /\ [o EXCEPT !.system = <<>>].system = <<>>
    BY <2>2, <2>3 DEF Requests
  <2> QED BY <2>1, <2>2, <2>4
<1> DEFINE choice == asked'.choice[protocol]
           request == [system |-> asked'.system, messages |-> history, tools |-> asked'.tools,
                       web_search |-> asked'.web_search, choice |-> choice]
           decoded == [system |-> SystemTexts(protocol, asked'.system, history),
                       messages |-> FlatMap(Decode(protocol), history), tools |-> asked'.tools,
                       web_search |-> asked'.web_search,
                       choice |-> IF protocol = "anthropic" THEN DecodeAnthropicToolChoice(choice)
                                  ELSE DecodeOpenAIToolChoice(choice)]
<1>3. sent' = EncodeOpenAIRequest(IF protocol = "anthropic" THEN DecodeAnthropicRequest(request)
                                  ELSE DecodeOpenAIRequest(request))
  BY DEF Forward
<1>4. protocol = "anthropic" => DecodeAnthropicRequest(request) = decoded
  <2>1. SUFFICES ASSUME protocol = "anthropic" PROVE DecodeAnthropicRequest(request) = decoded
    OBVIOUS
  <2>2. OfType("text", asked'.system) = SystemTexts(protocol, asked'.system, history)
    BY <1>2, <2>1, TextsStay DEF SystemTexts, Requests
  <2>3. FlattenSeq([i \in DOMAIN history |->
                      Messages(history[i].role, FlattenSeq([j \in DOMAIN history[i].content |->
                                                  DecodeAnthropicBlock(history[i].content[j])]))])
          = FlatMap(Decode(protocol), history)
    <3>1. \A i \in DOMAIN history : history[i] \in AnthropicMessages
      BY <1>1, <2>1 DEF Histories
    <3>2. [i \in DOMAIN history |->
             Messages(history[i].role, FlattenSeq([j \in DOMAIN history[i].content |->
                                                  DecodeAnthropicBlock(history[i].content[j])]))]
            = [i \in DOMAIN history |-> DecodeAnthropic[history[i]]]
      BY <3>1 DEF DecodeAnthropic, Each
    <3> QED BY <2>1, <3>2 DEF FlatMap, Decode
  <2> DEFINE D(h) == FlattenSeq([i \in DOMAIN h |->
                       Messages(h[i].role, FlattenSeq([j \in DOMAIN h[i].content |->
                                                   DecodeAnthropicBlock(h[i].content[j])]))])
  <2>4. DecodeAnthropicRequest(request) =
          [request EXCEPT !.system = OfType("text", request.system), !.messages = D(request.messages),
                          !.choice = DecodeAnthropicToolChoice(request.choice)]
    BY DEF DecodeAnthropicRequest, Each
  <2>5. D(history) = FlatMap(Decode(protocol), history)
    BY <2>3
  <2> HIDE DEF D
  <2> QED BY <2>1, <2>2, <2>4, <2>5
<1>5. protocol = "openai" => DecodeOpenAIRequest(request) = decoded
  <2>1. SUFFICES ASSUME protocol = "openai" PROVE DecodeOpenAIRequest(request) = decoded
    OBVIOUS
  <2>2. \A i \in DOMAIN history : history[i] \in OpenAIMessages
    BY <1>1, <2>1 DEF Histories
  <2>3. FlattenSeq([i \in DOMAIN history |->
                      IF history[i].role = "system"
                      THEN FlattenSeq([j \in DOMAIN history[i].content |-> DecodePart(history[i].content[j])])
                      ELSE <<>>])
          = SystemTexts(protocol, asked'.system, history)
    BY <2>2, <2>1 DEF SystemOf, Each, FlatMap, SystemTexts
  <2>4. FlattenSeq([i \in DOMAIN history |->
                      IF history[i].role = "system" THEN <<>> ELSE DecodeOpenAIMessage(history[i])])
          = FlatMap(Decode(protocol), history)
    BY <2>2, <2>1 DEF DecodeOpenAI, FlatMap, Decode
  <2> DEFINE S(h) == FlattenSeq([i \in DOMAIN h |->
                       IF h[i].role = "system"
                       THEN FlattenSeq([j \in DOMAIN h[i].content |-> DecodePart(h[i].content[j])])
                       ELSE <<>>])
             O(h) == FlattenSeq([i \in DOMAIN h |->
                       IF h[i].role = "system" THEN <<>> ELSE DecodeOpenAIMessage(h[i])])
  <2>5. DecodeOpenAIRequest(request) =
          [request EXCEPT !.system = S(request.messages), !.messages = O(request.messages),
                          !.choice = DecodeOpenAIToolChoice(request.choice)]
    BY DEF DecodeOpenAIRequest, Each
  <2>6. /\ S(history) = SystemTexts(protocol, asked'.system, history)
        /\ O(history) = FlatMap(Decode(protocol), history)
    BY <2>3, <2>4
  <2> HIDE DEF S, O
  <2> QED BY <2>1, <2>5, <2>6
<1>6. sent' = EncodeOpenAIRequest(decoded)
  BY <1>1, <1>3, <1>4, <1>5 DEF Protocols
<1> DEFINE s == SystemTexts(protocol, asked'.system, history)
           c == FlatMap(Decode(protocol), history)
<1>7. s \in Seq(Texts("text")) /\ c \in Seq(Messages1)
  BY <1>2, <1>1, UnroledType, DecodeType DEF Requests
<1>8. FlattenSeq([i \in DOMAIN s |-> <<ChatMessage("system", <<s[i]>>, <<>>, Empty)>>])
        = FlatMap(SystemMessages, s)
  <2> HIDE DEF s
  <2>1. [i \in DOMAIN s |-> <<ChatMessage("system", <<s[i]>>, <<>>, Empty)>>]
          = [i \in DOMAIN s |-> SystemMessages[s[i]]]
    <3>1. \A i \in DOMAIN s : s[i] \in Texts("text")
      BY <1>7
    <3> QED BY <3>1 DEF SystemMessages
  <2> QED BY <2>1 DEF FlatMap
<1>9. FlattenSeq([i \in DOMAIN c |-> EncodeOpenAIMessage(c[i])]) = FlatMap(Encode, c)
  <2> HIDE DEF c
  <2>1. [i \in DOMAIN c |-> EncodeOpenAIMessage(c[i])] = [i \in DOMAIN c |-> Encode[c[i]]]
    BY <1>7 DEF Encode
  <2> QED BY <2>1 DEF FlatMap
<1>10. OfType("text", s) = s
  BY <1>7, TextsStay
<1>11. /\ decoded.system = s /\ decoded.messages = c /\ decoded.tools = asked'.tools
       /\ decoded.web_search = asked'.web_search
       /\ decoded.choice = IF protocol = "anthropic" THEN DecodeAnthropicToolChoice(choice)
                           ELSE DecodeOpenAIToolChoice(choice)
  OBVIOUS
<1>12. FlatMap(SystemMessages, s) \o FlatMap(Encode, c) = Unroled(protocol, asked'.system, history)
  BY DEF Unroled
<1> HIDE DEF decoded, s, c, choice
<1> DEFINE messages == ReRole(Unroled(protocol, asked'.system, history))
<1>13. EncodeOpenAIRequest(decoded) =
         [messages   |-> messages,
          tools      |-> IF decoded.tools = {} /\ ~decoded.web_search
                         THEN InferToolsFromHistory(messages) ELSE decoded.tools,
          choice     |-> EncodeToolChoice(decoded.choice),
          web_search |-> decoded.web_search]
  BY <1>8, <1>9, <1>10, <1>11, <1>12 DEF EncodeOpenAIRequest, Each
<1> HIDE DEF messages
<1>14. /\ sent'.messages = messages
       /\ sent'.tools = IF decoded.tools = {} /\ ~decoded.web_search
                        THEN InferToolsFromHistory(messages) ELSE decoded.tools
       /\ sent'.choice = EncodeToolChoice(decoded.choice)
       /\ sent'.web_search = decoded.web_search
  BY <1>6, <1>13
<1> QED BY <1>1, <1>2, <1>11, <1>14 DEF messages, choice

(* ------------------------------ histories ------------------------------- *)

LEMMA InPartsType ==
  ASSUME NEW s \in Seq(UserBlocks)
  PROVE  /\ InParts(s) \in Seq(PartBlocks)
         /\ s \in Seq(Texts("text")) => InParts(s) \in Seq(Texts("text"))
<1> DEFINE n == Len(s)
           Part(b) == IF b.type = "image"
                      THEN [b EXCEPT !.type = "image_url", !.id = CASE @ = "url" -> "https" [] @ = "other" -> "data" [] OTHER -> @]
                      ELSE b
           x == InParts(s)
<1>1. n \in Nat /\ DOMAIN s = 1..n /\ \A i \in 1..n : s[i] \in UserBlocks
  OBVIOUS
<1>2. x = [i \in 1..n |-> Part(s[i])]
  BY <1>1 DEF InParts
<1>3. ASSUME NEW b \in UserBlocks PROVE Part(b) \in PartBlocks
  BY DEF Texts, PartBlocks, Images, UserBlocks
<1>4. ASSUME NEW b \in Texts("text") PROVE Part(b) = b
  BY DEF Texts
<1> HIDE DEF n, x, Part
<1>5. x \in Seq(PartBlocks)
  BY <1>1, <1>2, <1>3
<1>6. ASSUME s \in Seq(Texts("text")) PROVE x \in Seq(Texts("text"))
  BY <1>1, <1>6, <1>2, <1>4
<1> QED BY <1>5, <1>6 DEF x

LEMMA SpeakType ==
  ASSUME protocol \in Protocols, NEW s \in Seq(UserBlocks)
  PROVE  /\ Speak("user", s) \in Histories(protocol) /\ Speak("assistant", s) \in Histories(protocol)
         /\ protocol = "openai" /\ s \in Seq(Texts("text")) => Speak("system", s) \in Histories(protocol)
<1>1. CASE protocol = "anthropic"
  BY <1>1 DEF Speak, Message, Histories, AnthropicMessages
<1>2. CASE protocol = "openai"
  BY <1>2, InPartsType DEF Speak, OpenAIMessage, Histories, OpenAIMessages
<1> QED BY <1>1, <1>2 DEF Protocols

OnlyUses == [b \in AnthropicBlocks |-> IF b.type = "tool_use" THEN <<b>> ELSE <<>>]
ToolUses == [type : {"tool_use"}, id : IDs, val : [name : Names, args : Arguments]]

LEMMA UsesOf ==
  ASSUME NEW s \in Seq(AnthropicBlocks)
  PROVE  OfType("tool_use", s) = FlatMap(OnlyUses, s) /\ FlatMap(OnlyUses, s) \in Seq(ToolUses)
<1>1. ASSUME NEW b \in AnthropicBlocks PROVE OnlyUses[b] \in Seq(ToolUses)
  <2>1. b.type = "tool_use" => b \in ToolUses
    BY DEF AnthropicBlocks, UserBlocks, Texts, Images, AnswerBlocks, ResultBlocks, ToolUses
  <2> HIDE DEF ToolUses
  <2>2. CASE b.type = "tool_use"
    BY <2>2, <2>1 DEF OnlyUses
  <2>3. CASE b.type # "tool_use"
    BY <2>3 DEF OnlyUses
  <2> QED BY <2>2, <2>3
<1>2. \A i \in DOMAIN s : s[i] \in AnthropicBlocks
  OBVIOUS
<1>3. FlatMap(OnlyUses, s) \in Seq(ToolUses)
  BY <1>1, <1>2, FlatMapInto
<1>4. [i \in DOMAIN s |-> IF s[i].type = "tool_use" THEN <<s[i]>> ELSE <<>>]
        = [i \in DOMAIN s |-> OnlyUses[s[i]]]
  BY <1>2 DEF OnlyUses
<1> QED BY <1>3, <1>4 DEF OfType, Each, FlatMap

LEMMA PendingType ==
  ASSUME TypeOK
  PROVE  Pending \in Seq(IDs)
<1>1. protocol \in Protocols /\ history \in Seq(Histories(protocol))
  BY DEF TypeOK, Protocols, Histories
<1>2. CASE history = <<>>
  BY <1>2 DEF Pending
<1>3. CASE history # <<>>
  <2> DEFINE m == history[Len(history)]
  <2>1. m \in Histories(protocol) /\ Pending = CallIDs(m)
    BY <1>1, <1>3 DEF Pending
  <2>2. CASE protocol = "anthropic"
    <3> DEFINE calls == OfType("tool_use", m.content)
               n == Len(calls)
               ids == [i \in 1..n |-> calls[i].id]
    <3>1. m.content \in Seq(AnthropicBlocks)
      BY <2>1, <2>2, DecodeAnthropicType DEF Histories
    <3>2. calls \in Seq(ToolUses)
      BY <3>1, UsesOf
    <3>3. CallIDs(m) = [i \in DOMAIN calls |-> calls[i].id]
      BY <2>2 DEF CallIDs
    <3> HIDE DEF calls
    <3>4. n \in Nat /\ DOMAIN calls = 1..n /\ \A i \in 1..n : calls[i] \in ToolUses
      BY <3>2
    <3> HIDE DEF n
    <3>5. ids \in [1..n -> IDs] /\ CallIDs(m) = ids
      BY <3>3, <3>4 DEF ToolUses
    <3> HIDE DEF ids, m
    <3> QED BY <2>1, <3>4, <3>5
  <2>3. CASE protocol = "openai"
    <3> DEFINE calls == m.tool_calls
               n == Len(calls)
               ids == [i \in 1..n |-> calls[i].id]
    <3>2. calls \in Seq(CallRecords)
      BY <2>1, <2>3, OpenAIKinds DEF Histories
    <3>3. CallIDs(m) = [i \in DOMAIN calls |-> calls[i].id]
      BY <2>3 DEF CallIDs
    <3> HIDE DEF calls
    <3>4. n \in Nat /\ DOMAIN calls = 1..n /\ \A i \in 1..n : calls[i] \in CallRecords
      BY <3>2
    <3> HIDE DEF n
    <3>5. ids \in [1..n -> IDs] /\ CallIDs(m) = ids
      BY <3>3, <3>4 DEF CallRecords
    <3> HIDE DEF ids, m
    <3> QED BY <2>1, <3>4, <3>5
  <2> QED BY <1>1, <2>2, <2>3 DEF Protocols
<1> QED BY <1>2, <1>3

LEMMA ResultsType ==
  ASSUME TypeOK, NEW outcome \in Outcomes, NEW before \in Seq(UserBlocks), NEW after \in Seq(UserBlocks)
  PROVE  Results(outcome, before, after) \in Seq(Histories(protocol))
<1>1. protocol \in Protocols
  BY DEF TypeOK, Protocols
<1> DEFINE n == Len(Pending)
           H == Histories(protocol)
<1>2. n \in Nat /\ DOMAIN Pending = 1..n /\ \A i \in 1..n : Pending[i] \in IDs
  BY PendingType
<1>3. outcome \in [content : Seq(UserBlocks), is_error : BOOLEAN]
  BY ContentAssumption
<1>4. CASE protocol = "anthropic"
  <2> DEFINE x == [i \in 1..n |-> Block("tool_result", Pending[i], outcome)]
             B == UserBlocks \cup ResultBlocks
             m == Message("user", before \o x \o after)
  <2>1. Results(outcome, before, after) = <<m>>
    BY <1>2, <1>4 DEF Results
  <2> HIDE DEF n
  <2>2. x \in [1..n -> ResultBlocks]
    BY <1>2 DEF ResultBlocks, Block
  <2> HIDE DEF x
  <2>3. x \in Seq(B) /\ before \in Seq(B) /\ after \in Seq(B)
    BY <1>2, <2>2
  <2> HIDE DEF B
  <2>4. before \o x \in Seq(B)
    BY <2>3
  <2>5. before \o x \o after \in Seq(B)
    BY <2>3, <2>4
  <2>6. m \in H
    BY <1>4, <2>5 DEF Message, Histories, AnthropicMessages, B
  <2> HIDE DEF m, H
  <2>7. <<m>> \in Seq(H)
    BY <2>6
  <2> QED BY <2>1, <2>7 DEF H
<1>5. CASE protocol = "openai"
  <2> DEFINE x == [i \in 1..n |-> OpenAIMessage("tool", outcome.content, Pending[i])]
             w == before \o after
             y == IF w = <<>> THEN <<>> ELSE <<OpenAIMessage("user", w, Empty)>>
  <2>1. Results(outcome, before, after) = x \o y
    BY <1>2, <1>5 DEF Results
  <2> HIDE DEF n
  <2>2. InParts(outcome.content) \in Seq(PartBlocks)
    BY <1>3, InPartsType
  <2>3. x \in [1..n -> H]
    BY <1>2, <1>5, <2>2 DEF OpenAIMessage, Histories, OpenAIMessages
  <2>4. w \in Seq(UserBlocks)
    OBVIOUS
  <2> HIDE DEF w, x
  <2>5. OpenAIMessage("user", w, Empty) \in H
    BY <1>1, <1>5, <2>4, SpeakType DEF Speak
  <2> HIDE DEF H
  <2>6. y \in Seq(H)
    BY <2>5
  <2>7. x \in Seq(H)
    BY <1>2, <2>3
  <2> HIDE DEF y
  <2>8. x \o y \in Seq(H)
    BY <2>6, <2>7
  <2> QED BY <2>1, <2>8 DEF H
<1> QED BY <1>1, <1>4, <1>5 DEF Protocols

(* ------------------------------- answers -------------------------------- *)

Upstream == UpstreamMessages(CallRecords)
Thoughts(m) ==
  IF m.thinking_blocks # <<>> THEN FlatMap([t \in Seq(Pieces) |-> Said("thinking", t)], m.thinking_blocks)
  ELSE Said("thinking", m.reasoning_content)
AnswerOf(m) == Thoughts(m) \o Said("text", m.content) \o FlatMap(DecodeCalls, m.tool_calls)

LEMMA SaidType ==
  ASSUME NEW type, NEW t \in Seq(Pieces)
  PROVE  Said(type, t) \in Seq(Texts(type))
<1> DEFINE b == Block(type, Empty, t)
<1>1. b \in Texts(type)
  BY DEF Block, Texts
<1> HIDE DEF b
<1>2. <<b>> \in Seq(Texts(type)) /\ <<>> \in Seq(Texts(type))
  BY <1>1
<1> QED BY <1>2 DEF Said, b

LEMMA AnswerParts ==
  ASSUME NEW m \in Upstream
  PROVE  /\ Thoughts(m) \in Seq(Texts("thinking"))
         /\ Said("text", m.content) \in Seq(Texts("text")) /\ m.content \in Seq(Pieces)
         /\ m.tool_calls \in Seq(CallRecords)
         /\ FlatMap(DecodeCalls, m.tool_calls) \in Seq(Calls1)
         /\ AnswerOf(m) \in Seq(Texts("text") \cup Texts("thinking") \cup Calls1)
<1>1. /\ m.thinking_blocks \in Seq(Seq(Pieces)) /\ m.reasoning_content \in Seq(Pieces)
      /\ m.content \in Seq(Pieces) /\ m.tool_calls \in Seq(CallRecords)
  BY DEF Upstream, UpstreamMessages
<1>2. Thoughts(m) \in Seq(Texts("thinking"))
  <2> DEFINE P == Seq(Pieces)
             f == [t \in P |-> Said("thinking", t)]
             s == m.thinking_blocks
  <2>1. f \in [P -> Seq(Texts("thinking"))] /\ s \in Seq(P)
    BY <1>1, SaidType
  <2> HIDE DEF P, f, s
  <2>2. FlatMap(f, s) \in Seq(Texts("thinking"))
    BY <2>1, FlatMapType
  <2> QED BY <1>1, <2>2, SaidType DEF Thoughts, f, P, s
<1> DEFINE t == Thoughts(m)
           u == Said("text", m.content)
           k == FlatMap(DecodeCalls, m.tool_calls)
           All == Texts("text") \cup Texts("thinking") \cup Calls1
<1>3. u \in Seq(Texts("text")) /\ k \in Seq(Calls1)
  BY <1>1, SaidType, DecodeCallsEach
<1> HIDE DEF t, u, k
<1>4. t \in Seq(All) /\ u \in Seq(All) /\ k \in Seq(All)
  BY <1>2, <1>3 DEF t
<1> HIDE DEF All
<1>5. t \o u \in Seq(All)
  BY <1>4
<1>6. t \o u \o k \in Seq(All)
  BY <1>4, <1>5
<1> QED BY <1>1, <1>2, <1>3, <1>6 DEF AnswerOf, t, u, k, All

LEMMA ResponseIs ==
  ASSUME NEW choices \in Seq(Upstream)
  PROVE  /\ choices = <<>> => DecodeOpenAIResponse(choices) = <<>>
         /\ choices # <<>> => /\ Head(choices) \in Upstream
                              /\ DecodeOpenAIResponse(choices) = AnswerOf(Head(choices))
<1>1. choices = <<>> => DecodeOpenAIResponse(choices) = <<>>
  BY DEF DecodeOpenAIResponse
<1>2. ASSUME choices # <<>>
      PROVE  /\ Head(choices) \in Upstream
             /\ DecodeOpenAIResponse(choices) = AnswerOf(Head(choices))
  <2> DEFINE m == Head(choices)
             s == m.thinking_blocks
             f == [t \in Seq(Pieces) |-> Said("thinking", t)]
  <2>1. m \in Upstream
    BY <1>2
  <2> HIDE DEF m
  <2>2. s \in Seq(Seq(Pieces))
    BY <2>1 DEF Upstream, UpstreamMessages
  <2>3. FlattenSeq([i \in DOMAIN s |-> Said("thinking", s[i])]) = FlatMap(f, s)
    <3> HIDE DEF s
    <3>1. \A i \in DOMAIN s : s[i] \in Seq(Pieces)
      BY <2>2
    <3>2. [i \in DOMAIN s |-> Said("thinking", s[i])] = [i \in DOMAIN s |-> f[s[i]]]
      BY <3>1
    <3> QED BY <3>2 DEF FlatMap
  <2>4. FlattenSeq([i \in DOMAIN m.tool_calls |-> DecodeCall(m.tool_calls[i])])
          = FlatMap(DecodeCalls, m.tool_calls)
    BY <2>1, AnswerParts, DecodeCallsEach DEF Each
  <2>5. DecodeOpenAIResponse(choices) =
          (IF s # <<>> THEN FlattenSeq([i \in DOMAIN s |-> Said("thinking", s[i])])
           ELSE Said("thinking", m.reasoning_content))
            \o Said("text", m.content)
            \o FlattenSeq([i \in DOMAIN m.tool_calls |-> DecodeCall(m.tool_calls[i])])
    BY <1>2 DEF DecodeOpenAIResponse, Each, m
  <2>6. DecodeOpenAIResponse(choices) = AnswerOf(m)
    BY <2>3, <2>4, <2>5 DEF Thoughts, AnswerOf
  <2> QED BY <2>1, <2>6 DEF m
<1> QED BY <1>1, <1>2

(* What a client of /v1/messages is given. *)

Searches == [type : {"web_search"}, id : {Empty}, val : SourceLists]
Outputs == Texts("text") \cup Texts("thinking") \cup Calls1 \cup Searches
EncodeBlocks == [b \in Outputs |-> EncodeBlock(b)]
SearchOf(hasWebSearch, results) ==
  IF hasWebSearch THEN <<Block("web_search", Empty, results)>> ELSE <<>>

LEMMA EncodeBlockType ==
  ASSUME NEW b \in Outputs
  PROVE  EncodeBlock(b) \in Seq(UserBlocks \cup AnswerBlocks)
<1> DEFINE All == UserBlocks \cup AnswerBlocks
<1>1. CASE b \in Texts("text") \cup Texts("thinking")
  <2>1. EncodeBlock(b) = <<b>> /\ b \in All
    BY <1>1 DEF Texts, EncodeBlock, UserBlocks, AnswerBlocks
  <2> HIDE DEF All
  <2>2. <<b>> \in Seq(All)
    BY <2>1
  <2> QED BY <2>1, <2>2 DEF All
<1>2. CASE b \in Calls1
  <2> DEFINE c == [b EXCEPT !.type = "tool_use"]
  <2>1. EncodeBlock(b) = <<c>>
    BY <1>2 DEF Calls1, EncodeBlock
  <2>2. c \in All
    BY <1>2 DEF Calls1, AnswerBlocks
  <2> HIDE DEF c, All
  <2>3. <<c>> \in Seq(All)
    BY <2>2
  <2> QED BY <2>1, <2>3 DEF All
<1>3. CASE b \in Searches
  <2> DEFINE c == Block("server_tool_use", Empty, Empty)
             d == Block("web_search_tool_result", Empty, b.val)
  <2>1. EncodeBlock(b) = <<c, d>>
    BY <1>3 DEF Searches, EncodeBlock
  <2>2. c \in All /\ d \in All
    BY <1>3 DEF Searches, AnswerBlocks, Block
  <2> HIDE DEF c, d, All
  <2>3. <<c, d>> \in Seq(All)
    BY <2>2
  <2> QED BY <2>1, <2>3 DEF All
<1> QED BY <1>1, <1>2, <1>3 DEF Outputs

LEMMA AnthropicAnswerType ==
  ASSUME NEW choices \in Seq(Upstream), NEW w \in BOOLEAN, NEW results \in SourceLists
  PROVE  /\ AnthropicAnswer(choices, w, results) \in AnthropicMessages
         /\ AnthropicAnswer(choices, w, results) =
              Message("assistant",
                      IF choices = <<>> THEN <<>>
                      ELSE FlatMap(EncodeBlocks, SearchOf(w, results) \o AnswerOf(Head(choices))))
         /\ choices # <<>> => SearchOf(w, results) \o AnswerOf(Head(choices)) \in Seq(Outputs)
         /\ SearchOf(w, results) \in Seq(Searches)
<1> DEFINE out == IF choices = <<>> THEN <<>> ELSE SearchOf(w, results) \o AnswerOf(Head(choices))
           x == FlatMap(EncodeBlocks, out)
<1>1. SearchOf(w, results) \in Seq(Searches)
  <2> DEFINE b == Block("web_search", Empty, results)
  <2>1. b \in Searches
    BY DEF Searches, Block
  <2> HIDE DEF b
  <2>2. <<b>> \in Seq(Searches)
    BY <2>1
  <2> QED BY <2>2 DEF SearchOf, b
<1>2. out \in Seq(Outputs)
  <2>1. CASE choices = <<>>
    BY <2>1
  <2>2. CASE choices # <<>>
    <3> DEFINE a == AnswerOf(Head(choices))
               s == SearchOf(w, results)
    <3>1. a \in Seq(Texts("text") \cup Texts("thinking") \cup Calls1)
      BY <2>2, ResponseIs, AnswerParts
    <3> HIDE DEF a, s
    <3>2. a \in Seq(Outputs) /\ s \in Seq(Outputs)
      BY <1>1, <3>1 DEF Outputs, s
    <3>3. s \o a \in Seq(Outputs)
      BY <3>2
    <3> QED BY <2>2, <3>3 DEF s, a
  <2> QED BY <2>1, <2>2
<1>3. out = IF choices = <<>> THEN <<>>
            ELSE InjectWebSearchBlocks(DecodeOpenAIResponse(choices), w, results)
  <2>1. choices # <<>> => AnswerOf(Head(choices)) = <<>> \o AnswerOf(Head(choices))
    OBVIOUS
  <2> QED BY <2>1, ResponseIs DEF InjectWebSearchBlocks, SearchOf
<1> HIDE DEF out
<1>4. FlattenSeq([i \in DOMAIN out |-> EncodeBlock(out[i])]) = x
  <2>1. \A i \in DOMAIN out : out[i] \in Outputs
    BY <1>2
  <2>2. [i \in DOMAIN out |-> EncodeBlock(out[i])] = [i \in DOMAIN out |-> EncodeBlocks[out[i]]]
    BY <2>1 DEF EncodeBlocks
  <2> QED BY <2>2 DEF FlatMap
<1>5. AnthropicAnswer(choices, w, results) = Message("assistant", x)
  BY <1>3, <1>4 DEF AnthropicAnswer, Each
<1>6. x \in Seq(UserBlocks \cup AnswerBlocks)
  <2>1. EncodeBlocks \in [Outputs -> Seq(UserBlocks \cup AnswerBlocks)]
    BY EncodeBlockType DEF EncodeBlocks
  <2> DEFINE All == UserBlocks \cup AnswerBlocks
  <2> HIDE DEF All
  <2>2. FlatMap(EncodeBlocks, out) \in Seq(All)
    BY <1>2, <2>1, FlatMapType DEF All
  <2> QED BY <2>2 DEF All
<1>7. Message("assistant", x) \in AnthropicMessages
  BY <1>6 DEF Message, AnthropicMessages
<1>8. x = IF choices = <<>> THEN <<>>
          ELSE FlatMap(EncodeBlocks, SearchOf(w, results) \o AnswerOf(Head(choices)))
  BY FlatMapNone DEF out
<1> QED BY <1>1, <1>2, <1>5, <1>7, <1>8 DEF out

(* What a client of /v1/chat/completions is given. *)

Three(x, y, z) == (x \o y) \o z

LEMMA FlatMapThree ==
  \A A, B : \A h \in Maps(A, B) : \A x, y, z \in Lists(A) :
    FlatMap(h, Three(x, y, z)) = Three(FlatMap(h, x), FlatMap(h, y), FlatMap(h, z))
<1> TAKE A, B
<1> TAKE h \in Maps(A, B)
<1> TAKE x, y, z \in Lists(A)
<1>1. x \o y \in Lists(A)
  BY DEF Lists
<1>2. FlatMap(h, x \o y) = FlatMap(h, x) \o FlatMap(h, y)
  BY FlatMapConcat
<1> DEFINE w == x \o y
<1> HIDE DEF w
<1>3. FlatMap(h, w \o z) = FlatMap(h, w) \o FlatMap(h, z)
  BY <1>1, FlatMapConcat DEF w
<1> QED BY <1>2, <1>3 DEF w, Three

LEMMA FlattenOne ==
  ASSUME NEW A, NEW x \in Seq(A)
  PROVE  FlattenSeq(<<x>>) = x
<1> DEFINE none == <<>>
<1>1. none \in Seq(Seq(A)) /\ Append(none, x) = <<x>> /\ FlattenSeq(none) = <<>>
  BY FlattenNone
<1> HIDE DEF none
<1>2. FlattenSeq(Append(none, x)) = FlattenSeq(none) \o x
  BY <1>1, FlattenAppend
<1>3. <<>> \o x = x
  OBVIOUS
<1> QED BY <1>1, <1>2, <1>3

Only(type) == [b \in Blocks1 |-> IF b.type = type THEN <<b>> ELSE <<>>]

LEMMA OnlyIs ==
  ASSUME NEW s \in Seq(Blocks1), NEW type
  PROVE  /\ OfType(type, s) = FlatMap(Only(type), s)
         /\ Only(type) \in [Blocks1 -> Seq(Blocks1)]
         /\ (\A i \in DOMAIN s : s[i].type = type) => FlatMap(Only(type), s) = s
         /\ (\A i \in DOMAIN s : s[i].type # type) => FlatMap(Only(type), s) = <<>>
<1>0. \A i \in DOMAIN s : s[i] \in Blocks1
  OBVIOUS
<1>1. [i \in DOMAIN s |-> IF s[i].type = type THEN <<s[i]>> ELSE <<>>]
        = [i \in DOMAIN s |-> Only(type)[s[i]]]
  BY <1>0 DEF Only
<1>2. Only(type) \in [Blocks1 -> Seq(Blocks1)]
  BY DEF Only
<1>3. ASSUME \A i \in DOMAIN s : s[i].type = type PROVE FlatMap(Only(type), s) = s
  <2> DEFINE f == [b \in Blocks1 |-> b]
  <2>1. \A i \in DOMAIN s : Only(type)[s[i]] = <<f[s[i]]>>
    BY <1>0, <1>3 DEF Only
  <2>2. [i \in DOMAIN s |-> f[s[i]]] = [i \in DOMAIN s |-> s[i]]
    BY <1>0
  <2> HIDE DEF f
  <2>3. FlatMap(Only(type), s) = [i \in DOMAIN s |-> f[s[i]]]
    BY <2>1, FlatMapEach
  <2>4. [i \in DOMAIN s |-> s[i]] = s
    OBVIOUS
  <2> QED BY <2>2, <2>3, <2>4
<1>4. ASSUME \A i \in DOMAIN s : s[i].type # type PROVE FlatMap(Only(type), s) = <<>>
  BY <1>4, FlatMapEmpty DEF Only
<1> QED BY <1>1, <1>2, <1>3, <1>4 DEF OfType, Each, FlatMap

LEMMA OnlyCallsHave ==
  ASSUME NEW s \in Seq(Blocks1), \A i \in DOMAIN s : s[i].type # "tool_call"
  PROVE  FlatMap(CallsOf, s) = <<>>
BY FlatMapEmpty DEF CallsOf

FooterOf(w, results) == IF w /\ results # <<>> THEN <<Footer>> ELSE <<>>

\* The footer is put to the text, or after everything.
LEMMA FooterIs ==
  ASSUME NEW m \in Upstream, NEW w \in BOOLEAN, NEW results
  PROVE  LET t == Thoughts(m)
             k == FlatMap(DecodeCalls, m.tool_calls)
             u == Said("text", m.content \o FooterOf(w, results))
             out == AppendWebSearchFooter(AnswerOf(m), w, results)
         IN  /\ u \in Seq(Texts("text")) /\ m.content \o FooterOf(w, results) \in Seq(Pieces)
             /\ out = (t \o u) \o k \/ out = (t \o k) \o u
<1> DEFINE t == Thoughts(m)
           c == m.content
           k == FlatMap(DecodeCalls, m.tool_calls)
           F == FooterOf(w, results)
           u == Said("text", c \o F)
           a == AnswerOf(m)
           out == AppendWebSearchFooter(a, w, results)
           texts == {i \in DOMAIN a : a[i].type = "text"}
<1>1. /\ t \in Seq(Texts("thinking")) /\ c \in Seq(Pieces) /\ k \in Seq(Calls1)
      /\ a = (t \o Said("text", c)) \o k
  BY AnswerParts DEF AnswerOf
<1>2. Footer \in Pieces
  BY ConversationAssumption
<1>3. c \o F \in Seq(Pieces)
  BY <1>2, <1>1 DEF FooterOf
<1>4. u \in Seq(Texts("text"))
  BY <1>3, SaidType
<1>5. /\ \A i \in DOMAIN t : t[i].type = "thinking"
      /\ \A i \in DOMAIN k : k[i].type = "tool_call"
  <2>1. \A i \in DOMAIN t : t[i] \in Texts("thinking")
    BY <1>1
  <2>2. \A i \in DOMAIN k : k[i] \in Calls1
    BY <1>1
  <2> HIDE DEF t, k
  <2> QED BY <2>1, <2>2 DEF Texts, Calls1
<1>6. CASE ~w \/ results = <<>>
  <2>1. out = a /\ F = <<>>
    BY <1>6 DEF AppendWebSearchFooter, FooterOf
  <2>2. c \o <<>> = c
    BY <1>1
  <2> HIDE DEF a, F, t, c, k, out
  <2>3. out = (t \o u) \o k
    BY <1>1, <2>1, <2>2
  <2> QED BY <1>3, <1>4, <2>3 DEF t, k, c, F, a, out
<1>7. CASE ~(~w \/ results = <<>>) /\ c = <<>>
  <2> DEFINE b == Block("text", Empty, <<Footer>>)
  <2>1. F = <<Footer>>
    BY <1>7 DEF FooterOf
  <2>2. c \o F = <<Footer>>
    BY <1>7, <2>1
  <2>3. u = <<b>>
    BY <2>2 DEF Said
  <2>4. Said("text", c) = <<>>
    BY <1>7 DEF Said
  <2>5. out = IF texts = {} THEN Append(a, b)
              ELSE [a EXCEPT ![CHOOSE i \in texts : \A j \in texts : i <= j].val = Append(@, Footer)]
    BY <1>7 DEF AppendWebSearchFooter
  <2> HIDE DEF a, t, k, c, F, b, u, out
  <2>6. a = t \o k
    <3>1. t \o <<>> = t
      BY <1>1
    <3>2. t \o Said("text", c) = t
      BY <2>4, <3>1
    <3> QED BY <1>1, <3>2
  <2>7. texts = {}
    <3>1. ASSUME NEW i \in DOMAIN a PROVE a[i].type # "text"
      <4>1. (i \in DOMAIN t /\ a[i] = t[i]) \/ (i - Len(t) \in DOMAIN k /\ a[i] = k[i - Len(t)])
        BY <1>1, <2>6
      <4> QED BY <1>5, <4>1
    <3> QED BY <3>1
  <2>8. out = Append(t \o k, b)
    BY <2>5, <2>6, <2>7
  <2> HIDE DEF texts
  <2>9. Append(t \o k, b) = (t \o k) \o <<b>>
    BY <1>1
  <2> QED BY <1>3, <1>4, <2>3, <2>8, <2>9 DEF t, k, c, F, u, a, out
<1>8. CASE ~(~w \/ results = <<>>) /\ c # <<>>
  <2> DEFINE b == Block("text", Empty, c)
             d == Block("text", Empty, c \o <<Footer>>)
             n == Len(t) + 1
             i0 == CHOOSE i \in texts : \A j \in texts : i <= j
  <2>1. F = <<Footer>> /\ c \o <<Footer>> # <<>>
    BY <1>1, <1>8 DEF FooterOf
  <2>3. u = <<d>>
    BY <2>1 DEF Said
  <2>4. Said("text", c) = <<b>>
    BY <1>8 DEF Said
  <2>5. out = IF texts = {} THEN Append(a, Block("text", Empty, <<Footer>>))
              ELSE [a EXCEPT ![i0].val = Append(@, Footer)]
    BY <1>8 DEF AppendWebSearchFooter
  <2>6. Append(c, Footer) = c \o <<Footer>>
    BY <1>1
  <2>7. b.type = "text" /\ [b EXCEPT !.val = Append(@, Footer)] = d
    <3> HIDE DEF c
    <3>1. b = [type |-> "text", id |-> Empty, val |-> c]
      BY DEF Block
    <3>2. d = [type |-> "text", id |-> Empty, val |-> c \o <<Footer>>]
      BY DEF Block
    <3> HIDE DEF b, d
    <3>3. [b EXCEPT !.val = Append(@, Footer)] = [type |-> "text", id |-> Empty, val |-> Append(c, Footer)]
      BY <3>1
    <3>4. b.type = "text"
      BY <3>1
    <3> QED BY <2>6, <3>2, <3>3, <3>4
  <2> HIDE DEF a, t, k, c, F, b, d, u, out
  <2>8. a = (t \o <<b>>) \o k
    BY <1>1, <2>4
  <2>9. /\ n \in DOMAIN a /\ a[n] = b
        /\ \A i \in DOMAIN a : i # n =>
             (i \in DOMAIN t /\ a[i] = t[i]) \/ (i - n \in DOMAIN k /\ a[i] = k[i - n])
    <3> DEFINE x == t \o <<b>>
    <3>1. /\ Len(x) = n /\ DOMAIN x = 1..n /\ x[n] = b /\ n \in Nat /\ n # 0
          /\ \A i \in 1..n : i # n => i \in DOMAIN t /\ x[i] = t[i]
      BY <1>1
    <3>2. x \in Seq(Texts("thinking") \cup {b})
      BY <1>1
    <3>3. a = x \o k
      BY <2>8
    <3> HIDE DEF x, n
    <3>4. /\ DOMAIN a = 1..(n + Len(k)) /\ \A i \in 1..n : a[i] = x[i]
          /\ \A i \in (n + 1)..(n + Len(k)) : i - n \in DOMAIN k /\ a[i] = k[i - n]
      BY <1>1, <3>1, <3>2, <3>3
    <3>5. Len(k) \in Nat
      BY <1>1
    <3> QED BY <3>1, <3>4, <3>5
  <2>10. texts = {n}
    BY <1>5, <2>7, <2>9
  <2>11. i0 = n
    <3>1. n \in Nat
      BY <1>1
    <3> HIDE DEF texts, n
    <3>2. \A i \in texts : (\A j \in texts : i <= j) <=> i = n
      BY <2>10, <3>1
    <3>3. \E i \in texts : \A j \in texts : i <= j
      BY <2>10, <3>2
    <3> DEFINE P(i) == \A j \in texts : i <= j
    <3>4. i0 = CHOOSE i \in texts : P(i)
      OBVIOUS
    <3>5. (\E i \in texts : P(i)) /\ \A i \in texts : P(i) => i = n
      BY <3>2, <3>3
    <3> HIDE DEF P, i0
    <3> QED BY <3>4, <3>5
  <2>12. out = [a EXCEPT ![n].val = Append(@, Footer)]
    BY <2>10, <2>5, <2>11
  <2>13. out = [a EXCEPT ![n] = d]
    BY <2>7, <2>9, <2>12
  <2> HIDE DEF texts, i0
  <2>14. [((t \o <<b>>) \o k) EXCEPT ![n] = d] = (t \o <<d>>) \o k
    <3> DEFINE x == (t \o <<b>>) \o k
               y == (t \o <<d>>) \o k
    <3>1. /\ DOMAIN x = 1..(n + Len(k)) /\ DOMAIN y = 1..(n + Len(k)) /\ y[n] = d
          /\ \A i \in 1..(n + Len(k)) : i # n => x[i] = y[i]
          /\ x = [i \in DOMAIN x |-> x[i]] /\ y = [i \in DOMAIN y |-> y[i]]
      BY <1>1
    <3>2. [x EXCEPT ![n] = d] = [i \in DOMAIN x |-> IF i = n THEN d ELSE x[i]]
      BY <3>1
    <3> HIDE DEF x, y
    <3> QED BY <3>1, <3>2 DEF x, y
  <2> QED BY <1>3, <1>4, <2>3, <2>8, <2>13, <2>14 DEF t, k, c, F, u, a, out
<1> QED BY <1>6, <1>7, <1>8

\* What the three parts of an answer are filtered to, in either order.
LEMMA FilterParts ==
  ASSUME NEW t \in Seq(Texts("thinking")), NEW u \in Seq(Texts("text")), NEW k \in Seq(Calls1),
         NEW out, out = Three(t, u, k) \/ out = Three(t, k, u)
  PROVE  /\ out \in Seq(Blocks1)
         /\ FlatMap(Only("text"), out) = u /\ FlatMap(Only("thinking"), out) = t
         /\ FlatMap(CallsOf, out) = FlatMap(CallsOf, k)
<1>1. t \in Seq(Blocks1) /\ u \in Seq(Blocks1) /\ k \in Seq(Blocks1)
  BY DEF Blocks1, Parts1
<1>2. /\ \A i \in DOMAIN t : t[i].type = "thinking"
      /\ \A i \in DOMAIN u : u[i].type = "text"
      /\ \A i \in DOMAIN k : k[i].type = "tool_call"
  <2>1. \A i \in DOMAIN t : t[i] \in Texts("thinking")
    OBVIOUS
  <2>2. \A i \in DOMAIN u : u[i] \in Texts("text")
    OBVIOUS
  <2>3. \A i \in DOMAIN k : k[i] \in Calls1
    OBVIOUS
  <2> QED BY <2>1, <2>2, <2>3 DEF Texts, Calls1
<1>3. /\ FlatMap(Only("text"), t) = <<>> /\ FlatMap(Only("text"), u) = u /\ FlatMap(Only("text"), k) = <<>>
      /\ FlatMap(Only("thinking"), t) = t /\ FlatMap(Only("thinking"), u) = <<>>
      /\ FlatMap(Only("thinking"), k) = <<>>
  BY <1>1, <1>2, OnlyIs
<1>4. FlatMap(CallsOf, t) = <<>> /\ FlatMap(CallsOf, u) = <<>>
  BY <1>1, <1>2, OnlyCallsHave
<1>5. /\ Only("text") \in Maps(Blocks1, Blocks1) /\ Only("thinking") \in Maps(Blocks1, Blocks1)
      /\ CallsOf \in Maps(Blocks1, CallRecords)
      /\ t \in Lists(Blocks1) /\ u \in Lists(Blocks1) /\ k \in Lists(Blocks1)
  BY <1>1, OnlyIs, EncodeCallsEach DEF Maps, Lists
<1>6. /\ FlatMap(CallsOf, k) \in Seq(CallRecords) /\ out \in Seq(Blocks1)
  <2>1. FlatMap(CallsOf, k) \in Seq(CallRecords)
    BY <1>1, EncodeCallsEach
  <2>2. t \o u \in Seq(Blocks1) /\ t \o k \in Seq(Blocks1)
    BY <1>1
  <2>3. (t \o u) \o k \in Seq(Blocks1) /\ (t \o k) \o u \in Seq(Blocks1)
    BY <1>1, <2>2
  <2> QED BY <2>1, <2>3 DEF Three
<1> DEFINE calls == FlatMap(CallsOf, k)
<1> HIDE DEF calls
<1>7. /\ (<<>> \o u) \o <<>> = u /\ (<<>> \o <<>>) \o u = u
      /\ (t \o <<>>) \o <<>> = t
      /\ (<<>> \o <<>>) \o calls = calls /\ (<<>> \o calls) \o <<>> = calls
  BY <1>6 DEF calls
<1>8. ASSUME out = (t \o u) \o k
      PROVE  /\ FlatMap(Only("text"), out) = u /\ FlatMap(Only("thinking"), out) = t
             /\ FlatMap(CallsOf, out) = calls
  <2>1. out = Three(t, u, k)
    BY <1>8 DEF Three
  <2>2. /\ FlatMap(Only("text"), out) =
             Three(FlatMap(Only("text"), t), FlatMap(Only("text"), u), FlatMap(Only("text"), k))
        /\ FlatMap(Only("thinking"), out) =
             Three(FlatMap(Only("thinking"), t), FlatMap(Only("thinking"), u), FlatMap(Only("thinking"), k))
        /\ FlatMap(CallsOf, out) =
             Three(FlatMap(CallsOf, t), FlatMap(CallsOf, u), FlatMap(CallsOf, k))
    BY <1>5, <2>1, FlatMapThree
  <2> QED BY <1>3, <1>4, <1>7, <2>2 DEF calls, Three
<1>9. ASSUME out = (t \o k) \o u
      PROVE  /\ FlatMap(Only("text"), out) = u /\ FlatMap(Only("thinking"), out) = t
             /\ FlatMap(CallsOf, out) = calls
  <2>1. out = Three(t, k, u)
    BY <1>9 DEF Three
  <2>2. /\ FlatMap(Only("text"), out) =
             Three(FlatMap(Only("text"), t), FlatMap(Only("text"), k), FlatMap(Only("text"), u))
        /\ FlatMap(Only("thinking"), out) =
             Three(FlatMap(Only("thinking"), t), FlatMap(Only("thinking"), k), FlatMap(Only("thinking"), u))
        /\ FlatMap(CallsOf, out) =
             Three(FlatMap(CallsOf, t), FlatMap(CallsOf, k), FlatMap(CallsOf, u))
    BY <1>5, <2>1, FlatMapThree
  <2> QED BY <1>3, <1>4, <1>7, <2>2 DEF calls, Three
<1> QED BY <1>6, <1>8, <1>9 DEF calls, Three

\* The texts of blocks as one.
Joined(s) == FlattenSeq([i \in DOMAIN s |-> s[i].val])

LEMMA JoinedIs ==
  /\ \A s \in Seq(Texts("thinking")) : Joined(s) \in Seq(Pieces)
  /\ \A text \in Seq(Pieces) : Joined(Said("text", text)) = text
  /\ Joined(<<>>) = <<>>
<1>1. ASSUME NEW s \in Seq(Texts("thinking")) PROVE Joined(s) \in Seq(Pieces)
  <2> DEFINE n == Len(s)
             x == [i \in 1..n |-> s[i].val]
  <2>1. n \in Nat /\ DOMAIN s = 1..n /\ \A i \in 1..n : s[i] \in Texts("thinking")
    OBVIOUS
  <2> HIDE DEF n
  <2>2. x \in [1..n -> Seq(Pieces)]
    BY <2>1 DEF Texts
  <2>3. Joined(s) = FlattenSeq(x)
    BY <2>1 DEF Joined
  <2> HIDE DEF x
  <2>4. x \in Seq(Seq(Pieces))
    BY <2>1, <2>2
  <2> QED BY <2>3, <2>4, FlattenSeqType
<1>2. Joined(<<>>) = <<>>
  BY FlattenNone DEF Joined
<1>3. ASSUME NEW text \in Seq(Pieces) PROVE Joined(Said("text", text)) = text
  <2>1. CASE text = <<>>
    BY <1>2, <2>1 DEF Said
  <2>2. CASE text # <<>>
    <3> DEFINE b == Block("text", Empty, text)
    <3>1. Said("text", text) = <<b>> /\ b.val = text
      BY <2>2 DEF Said, Block
    <3> HIDE DEF b
    <3>2. [i \in DOMAIN <<b>> |-> <<b>>[i].val] = <<b.val>>
      OBVIOUS
    <3>3. FlattenSeq(<<text>>) = text
      BY FlattenOne
    <3>4. Joined(<<b>>) = FlattenSeq(<<b.val>>)
      BY <3>2 DEF Joined
    <3> QED BY <3>1, <3>3, <3>4
  <2> QED BY <2>1, <2>2
<1> QED BY <1>1, <1>2, <1>3

LEMMA OpenAIAnswerIs ==
  ASSUME NEW choices \in Seq(Upstream), NEW w \in BOOLEAN, NEW results
  PROVE  LET m == Head(choices)
         IN  /\ OpenAIAnswer(choices, w, results) \in OpenAIMessages
             /\ choices = <<>> =>
                  OpenAIAnswer(choices, w, results) =
                    [role |-> "assistant", content |-> <<>>, thinking |-> <<>>, tool_calls |-> <<>>,
                     tool_call_id |-> Empty]
             /\ choices # <<>> =>
                  OpenAIAnswer(choices, w, results) =
                    [role         |-> "assistant",
                     content      |-> Said("text", m.content \o FooterOf(w, results)),
                     thinking     |-> Said("thinking", Joined(Thoughts(m))),
                     tool_calls   |-> FlatMap(CallsOf, FlatMap(DecodeCalls, m.tool_calls)),
                     tool_call_id |-> Empty]
<1> DEFINE m == Head(choices)
           out == IF choices = <<>> THEN <<>>
                  ELSE AppendWebSearchFooter(DecodeOpenAIResponse(choices), w, results)
           x == OfType("text", out)
           y == OfType("thinking", out)
           z == OfType("tool_call", out)
           calls == FlattenSeq([i \in DOMAIN z |-> EncodeCall(z[i])])
           answer == OpenAIAnswer(choices, w, results)
<1>1. answer = [role |-> "assistant", content |-> Said("text", Joined(x)),
                thinking |-> Said("thinking", Joined(y)), tool_calls |-> calls, tool_call_id |-> Empty]
  BY DEF OpenAIAnswer, Each, Joined
<1>2. out \in Seq(Blocks1) => /\ x = FlatMap(Only("text"), out) /\ y = FlatMap(Only("thinking"), out)
                              /\ calls = FlatMap(CallsOf, out)
  BY OnlyIs, EncodeCallsEach DEF Each
<1>3. CASE choices = <<>>
  <2>1. out = <<>> /\ out \in Seq(Blocks1)
    BY <1>3
  <2> HIDE DEF out
  <2>2. x = <<>> /\ y = <<>> /\ calls = <<>>
    BY <1>2, <2>1, FlatMapNone
  <2>3. Joined(x) = <<>> /\ Joined(y) = <<>>
    BY <2>2, JoinedIs
  <2> HIDE DEF x, y, calls, answer
  <2>4. answer = [role |-> "assistant", content |-> <<>>, thinking |-> <<>>, tool_calls |-> <<>>,
                  tool_call_id |-> Empty]
    BY <1>1, <2>2, <2>3 DEF Said
  <2>5. <<>> \in Seq(Texts("thinking")) /\ <<>> \in Seq(CallRecords) /\ <<>> \in Seq(PartBlocks)
    OBVIOUS
  <2>6. answer \in OpenAIMessages
    BY <2>4, <2>5 DEF OpenAIMessages
  <2> QED BY <1>3, <2>4, <2>6 DEF answer
<1>4. CASE choices # <<>>
  <2> DEFINE t == Thoughts(m)
             k == FlatMap(DecodeCalls, m.tool_calls)
             text == m.content \o FooterOf(w, results)
             u == Said("text", text)
  <2>1. m \in Upstream /\ out = AppendWebSearchFooter(AnswerOf(m), w, results)
    BY <1>4, ResponseIs
  <2>2. /\ t \in Seq(Texts("thinking")) /\ k \in Seq(Calls1)
        /\ u \in Seq(Texts("text")) /\ text \in Seq(Pieces)
        /\ out = (t \o u) \o k \/ out = (t \o k) \o u
    BY <2>1, AnswerParts, FooterIs
  <2> HIDE DEF out, t, k, text
  <2>3. /\ out \in Seq(Blocks1) /\ x = u /\ y = t /\ calls = FlatMap(CallsOf, k)
    <3> HIDE DEF x, y, calls, u
    <3>1. /\ out \in Seq(Blocks1)
          /\ FlatMap(Only("text"), out) = u /\ FlatMap(Only("thinking"), out) = t
          /\ FlatMap(CallsOf, out) = FlatMap(CallsOf, k)
      <4>1. out = Three(t, u, k) \/ out = Three(t, k, u)
        BY <2>2 DEF Three, u
      <4> QED BY <2>2, <4>1, FilterParts DEF u
    <3> QED BY <1>2, <3>1
  <2>4. Joined(x) = text /\ Joined(y) = Joined(t) /\ Joined(t) \in Seq(Pieces)
    BY <2>2, <2>3, JoinedIs
  <2> HIDE DEF u, x, y, calls, answer
  <2>5. answer = [role |-> "assistant", content |-> u, thinking |-> Said("thinking", Joined(t)),
                  tool_calls |-> FlatMap(CallsOf, k), tool_call_id |-> Empty]
    BY <1>1, <2>3, <2>4 DEF u
  <2>6. Said("thinking", Joined(t)) \in Seq(Texts("thinking")) /\ u \in Seq(PartBlocks)
    BY <2>2, <2>4, SaidType DEF PartBlocks
  <2>7. FlatMap(CallsOf, k) \in Seq(CallRecords)
    BY <2>2, EncodeCallsEach DEF Blocks1
  <2>8. answer \in OpenAIMessages
    BY <2>5, <2>6, <2>7 DEF OpenAIMessages
  <2> QED BY <1>4, <2>5, <2>8 DEF answer, u, t, k, text
<1> QED BY <1>3, <1>4

(* ------------------------------- the types ------------------------------ *)

CallsIn == [m \in SentMessages |-> m.tool_calls]

LEMMA SentKinds ==
  ASSUME NEW m \in SentMessages
  PROVE  /\ m.role \in Roles /\ m.tool_calls \in Seq(CallRecords)
         /\ \A j \in DOMAIN m.content : m.content[j].type \in {"text", "image_url"}
         /\ m.role # "tool" => m.content # <<>> \/ m.tool_calls # <<>>
         /\ m.role # "tool" => m.content \in Seq(SentParts)
         /\ m.tool_calls # <<>> => m.role = "assistant"
         /\ m.role = "tool" <=> m.tool_call_id # Empty
<1>1. \A b \in SentParts \cup Errors : b.type \in {"text", "image_url"}
  BY DEF SentParts, Errors, Texts, Images
<1>2. Empty \notin IDs
  BY ConversationAssumption DEF IDs
<1>3. CASE m \in ToolMessages
  <2>1. /\ m.role = "tool" /\ m.content \in Seq(SentParts \cup Errors) /\ m.tool_calls = <<>>
        /\ m.tool_call_id \in IDs
    BY <1>3 DEF ToolMessages
  <2>2. \A j \in DOMAIN m.content : m.content[j] \in SentParts \cup Errors
    BY <2>1
  <2>3. <<>> \in Seq(CallRecords)
    OBVIOUS
  <2> QED BY <1>1, <1>2, <2>1, <2>2, <2>3 DEF Roles
<1>4. CASE m \in OwnMessages
  BY <1>4, <1>1 DEF OwnMessages, Roles
<1> QED BY <1>3, <1>4 DEF SentMessages

LEMMA InferIs ==
  ASSUME NEW ms \in Seq(SentMessages)
  PROVE  LET calls == FlatMap(CallsIn, ms)
         IN  /\ Each(LAMBDA m : m.tool_calls, ms) = calls /\ calls \in Seq(CallRecords)
             /\ CallsIn \in [SentMessages -> Seq(CallRecords)]
             /\ InferToolsFromHistory(ms) = {calls[i].name : i \in DOMAIN calls} \ {Empty}
             /\ InferToolsFromHistory(ms) \subseteq Names
<1> DEFINE calls == FlatMap(CallsIn, ms)
<1>1. FlattenSeq([i \in DOMAIN ms |-> ms[i].tool_calls]) = calls
  <2>1. \A i \in DOMAIN ms : ms[i] \in SentMessages
    OBVIOUS
  <2>2. [i \in DOMAIN ms |-> ms[i].tool_calls] = [i \in DOMAIN ms |-> CallsIn[ms[i]]]
    BY <2>1 DEF CallsIn
  <2> QED BY <2>2 DEF FlatMap
<1>2. CallsIn \in [SentMessages -> Seq(CallRecords)]
  BY SentKinds DEF CallsIn
<1>3. calls \in Seq(CallRecords)
  BY <1>2, FlatMapType
<1>4. InferToolsFromHistory(ms) = {calls[i].name : i \in DOMAIN calls} \ {Empty}
  BY <1>1 DEF InferToolsFromHistory, Each
<1>5. \A i \in DOMAIN calls : calls[i].name \in Names
  <2> HIDE DEF calls
  <2>1. \A i \in DOMAIN calls : calls[i] \in CallRecords
    BY <1>3
  <2> QED BY <2>1 DEF CallRecords
<1> HIDE DEF calls
<1>6. InferToolsFromHistory(ms) \subseteq Names
  BY <1>4, <1>5
<1> QED BY <1>1, <1>2, <1>3, <1>4, <1>6 DEF Each, calls

\* The calls of an answer are given their ids.
LEMMA AnswerType ==
  ASSUME NEW choices \in Responses, NEW n \in Nat
  PROVE  LET Numbered(calls) == [k \in DOMAIN calls |->
                                   [id |-> <<n, k>>, name |-> calls[k].name, args |-> calls[k].args]]
         IN  [i \in DOMAIN choices |-> [choices[i] EXCEPT !.tool_calls = Numbered(@)]] \in Seq(Upstream)
<1> DEFINE Numbered(calls) == [k \in DOMAIN calls |->
                                 [id |-> <<n, k>>, name |-> calls[k].name, args |-> calls[k].args]]
           C == [name : Names, args : Arguments]
           U == UpstreamMessages(C)
           F(m) == [m EXCEPT !.tool_calls = Numbered(@)]
           l == Len(choices)
           x == [i \in 1..l |-> F(choices[i])]
<1>1. choices \in Seq(U)
  BY ContentAssumption
<1>2. ASSUME NEW calls \in Seq(C) PROVE Numbered(calls) \in Seq(CallRecords)
  <2> DEFINE p == Len(calls)
             y == [k \in 1..p |-> [id |-> <<n, k>>, name |-> calls[k].name, args |-> calls[k].args]]
  <2>1. p \in Nat /\ DOMAIN calls = 1..p /\ \A k \in 1..p : calls[k] \in C
    <3> HIDE DEF C
    <3> QED OBVIOUS
  <2> HIDE DEF p
  <2>2. \A k \in 1..p : <<n, k>> \in IDs
    BY <2>1 DEF IDs
  <2>3. y \in [1..p -> CallRecords]
    BY <2>1, <2>2 DEF CallRecords
  <2>4. Numbered(calls) = y
    BY <2>1
  <2> HIDE DEF y, Numbered
  <2>5. y \in Seq(CallRecords)
    BY <2>1, <2>3
  <2> QED BY <2>4, <2>5
<1> HIDE DEF Numbered
<1>3. ASSUME NEW m \in U PROVE F(m) \in Upstream
  BY <1>2 DEF UpstreamMessages, Upstream
<1>4. l \in Nat /\ DOMAIN choices = 1..l /\ \A i \in 1..l : choices[i] \in U
  BY <1>1
<1> HIDE DEF l, U, F
<1>5. x \in [1..l -> Upstream]
  BY <1>3, <1>4
<1>6. [i \in DOMAIN choices |-> F(choices[i])] = x
  BY <1>4
<1> HIDE DEF x
<1>7. x \in Seq(Upstream)
  BY <1>4, <1>5
<1> QED BY <1>6, <1>7 DEF F, Numbered

LEMMA ChoiceType ==
  ASSUME NEW p \in Protocols, NEW choice \in ToolChoices(IF p = "anthropic" THEN "tool" ELSE "function")
  PROVE  LET c == EncodeToolChoice(IF p = "anthropic" THEN DecodeAnthropicToolChoice(choice)
                                   ELSE DecodeOpenAIToolChoice(choice))
         IN  /\ c \in {Empty, "auto", "required"} \cup Names
             /\ choice.name \in Names => c = choice.name
<1>1. Empty \notin Names \cup {"auto", "required", "tool"}
  BY ConversationAssumption
<1> DEFINE d == IF p = "anthropic" THEN DecodeAnthropicToolChoice(choice) ELSE DecodeOpenAIToolChoice(choice)
<1>2. CASE choice \in [type : {"auto", "any", "required", "none"}, name : {Empty}]
  BY <1>2, <1>1 DEF DecodeAnthropicToolChoice, DecodeOpenAIToolChoice, EncodeToolChoice
<1>3. CASE choice \in [type : {IF p = "anthropic" THEN "tool" ELSE "function"}, name : Names]
  BY <1>3 DEF DecodeAnthropicToolChoice, DecodeOpenAIToolChoice, EncodeToolChoice
<1> QED BY <1>2, <1>3 DEF ToolChoices

Turns == [choices : Seq(Upstream), searched : BOOLEAN]

\* The messages of a request, as TypeOK states them.
MessagesOK(messages) ==
  \A i \in DOMAIN messages :
    LET m == messages[i]
    IN  /\ m.role \in Roles
        /\ \A j \in DOMAIN m.content : m.content[j].type \in {"text", "image_url"}
        /\ m.role # "tool" => m.content # <<>> \/ m.tool_calls # <<>>
        /\ m.tool_calls # <<>> => m.role = "assistant"
        /\ m.role = "tool" <=> m.tool_call_id # Empty

SentOK(s) ==
  /\ s.tools \subseteq Names /\ s.web_search \in BOOLEAN
  /\ s.choice \in {Empty, "auto", "required"} \cup Names \cup {"web_search"}
  /\ MessagesOK(s.messages)

LEMMA TypeOKIs ==
  TypeOK <=> /\ protocol \in Protocols
             /\ phase \in {"client", "gateway", "upstream"}
             /\ history \in Seq(Histories(protocol))
             /\ said \in Seq(Turns)
             /\ Len(said) \in 0..MaxTurns
             /\ SentOK(sent)
BY DEF TypeOK, Protocols, Histories, Turns, Upstream, SentOK, MessagesOK

LEMMA InitTypeOK ==
  ASSUME Init
  PROVE  TypeOK
BY ConversationAssumption, TypeOKIs DEF Init, Protocols, NoRequest, SentOK, MessagesOK

LEMMA ForwardTypeOK ==
  ASSUME TypeOK, Forward
  PROVE  SentOK(sent')
<1> DEFINE u == Unroled(protocol, asked'.system, history)
           ms == ReRole(u)
<1>1. /\ protocol \in Protocols /\ asked' \in Requests /\ sent'.messages = ms
      /\ asked'.system \in Seq(Texts("text"))
  BY ForwardSends DEF Requests
<1>2. u \in Seq(SentMessages)
  BY <1>1, ForwardSends, UnroledType
<1> HIDE DEF u
<1>3. ms \in Seq(SentMessages)
  BY <1>2, ReRoleType
<1> HIDE DEF ms
<1>4. MessagesOK(ms)
  BY <1>3, SentKinds DEF MessagesOK
<1>5. sent'.tools \subseteq Names
  BY <1>1, <1>3, ForwardSends, InferIs DEF Requests
<1>6. sent'.choice \in {Empty, "auto", "required"} \cup Names
  BY ForwardSends, ChoiceType DEF Requests, Protocols
<1>7. sent'.web_search \in BOOLEAN
  BY <1>1, ForwardSends DEF Requests
<1> QED BY <1>1, <1>4, <1>5, <1>6, <1>7 DEF SentOK

\* Contents, or none.
LEMMA ContentsType ==
  /\ Contents \cup Prefills \cup {<<>>} \subseteq Seq(UserBlocks)
  /\ Instructions \cup {<<>>} \subseteq Seq(Texts("text"))
  /\ Outcomes \subseteq [content : Seq(UserBlocks), is_error : BOOLEAN]
<1>1. \A S : <<>> \in Seq(S)
  OBVIOUS
<1> DEFINE U == Seq(UserBlocks)
           T == Seq(Texts("text"))
<1>2. <<>> \in U /\ <<>> \in T
  BY <1>1
<1>3. Contents \cup Prefills \subseteq U /\ Instructions \subseteq T
  BY ContentAssumption
<1> HIDE DEF U, T
<1>4. Contents \cup Prefills \cup {<<>>} \subseteq U /\ Instructions \cup {<<>>} \subseteq T
  BY <1>2, <1>3
<1> QED BY <1>4, ContentAssumption DEF U, T

LEMMA UserSpeaksType ==
  ASSUME TypeOK, UserSpeaks
  PROVE  history' \in Seq(Histories(protocol))
<1>1. protocol \in Protocols /\ history \in Seq(Histories(protocol))
  BY TypeOKIs
<1>2. PICK content \in Contents, prefill \in Prefills \cup {<<>>}, instruction \in Instructions \cup {<<>>} :
         /\ protocol = "anthropic" => instruction = <<>>
         /\ history' = history
              \o (IF instruction = <<>> THEN <<>> ELSE <<Speak("system", instruction)>>)
              \o <<Speak("user", content)>>
              \o (IF prefill = <<>> THEN <<>> ELSE <<Speak("assistant", prefill)>>)
  BY DEF UserSpeaks
<1>3. content \in Seq(UserBlocks) /\ prefill \in Seq(UserBlocks)
  BY ContentsType
<1>4. instruction \in Seq(Texts("text")) /\ instruction \in Seq(UserBlocks)
  BY ContentsType DEF UserBlocks
<1>5. protocol # "anthropic" => protocol = "openai"
  BY <1>1 DEF Protocols
<1> DEFINE H == Histories(protocol)
           x == IF instruction = <<>> THEN <<>> ELSE <<Speak("system", instruction)>>
           y == <<Speak("user", content)>>
           z == IF prefill = <<>> THEN <<>> ELSE <<Speak("assistant", prefill)>>
<1> HIDE DEF H
<1>6. x \in Seq(H)
  BY <1>1, <1>2, <1>4, <1>5, SpeakType DEF H
<1>7. y \in Seq(H)
  BY <1>1, <1>3, SpeakType DEF H
<1>8. z \in Seq(H)
  BY <1>1, <1>3, SpeakType DEF H
<1>9. history' = history \o x \o y \o z
  BY <1>2
<1> HIDE DEF x, y, z
<1>10. history \o x \in Seq(H)
  BY <1>1, <1>6 DEF H
<1>11. history \o x \o y \in Seq(H)
  BY <1>7, <1>10
<1>12. history \o x \o y \o z \in Seq(H)
  BY <1>8, <1>11
<1> QED BY <1>9, <1>12 DEF H

LEMMA CallsReturnType ==
  ASSUME TypeOK, CallsReturn
  PROVE  history' \in Seq(Histories(protocol))
<1>1. protocol \in Protocols /\ history \in Seq(Histories(protocol))
  BY TypeOKIs
<1>2. PICK outcome \in Outcomes, before \in Contents \cup {<<>>}, after \in Contents \cup {<<>>} :
         history' = history \o Results(outcome, before, after)
  BY DEF CallsReturn
<1>3. before \in Seq(UserBlocks) /\ after \in Seq(UserBlocks)
  BY ContentsType
<1> DEFINE H == Histories(protocol)
           x == Results(outcome, before, after)
<1>4. x \in Seq(H)
  BY <1>3, ResultsType
<1> HIDE DEF H, x
<1>5. history \o x \in Seq(H)
  BY <1>1, <1>4 DEF H
<1> QED BY <1>2, <1>5 DEF H, x

\* Texts of the upstream, as SpeakersAssumption has them.
FromUpstream(choices) ==
  \A i \in DOMAIN choices : choices[i].content # <<>> => choices[i].content[1] \in Answers

\* What Answer says, and what the client keeps of it; its texts begin as the
\* upstream's do.
LEMMA AnswerSays ==
  ASSUME TypeOK, Answer
  PROVE  \E answer \in Seq(Upstream), results \in SourceLists :
           /\ FromUpstream(answer)
           /\ said' = Append(said, [choices |-> answer, searched |-> sent.web_search /\ results # <<>>])
           /\ history' = Append(history,
                IF protocol = "anthropic" THEN AnthropicAnswer(answer, sent.web_search, results)
                ELSE OpenAIAnswer(answer, sent.web_search, results))
<1> DEFINE n == Len(said) + 1
           Numbered(calls) == [k \in DOMAIN calls |->
                                 [id |-> <<n, k>>, name |-> calls[k].name, args |-> calls[k].args]]
           Named(choices) == [i \in DOMAIN choices |-> [choices[i] EXCEPT !.tool_calls = Numbered(@)]]
<1>1. PICK choices \in Responses, results \in SourceLists :
        LET answer == Named(choices)
        IN  /\ said' = Append(said, [choices |-> answer, searched |-> sent.web_search /\ results # <<>>])
            /\ history' = Append(history,
                 IF protocol = "anthropic" THEN AnthropicAnswer(answer, sent.web_search, results)
                 ELSE OpenAIAnswer(answer, sent.web_search, results))
  BY DEF Answer
<1>2. n \in Nat
  BY TypeOKIs
<1>3. Named(choices) \in Seq(Upstream)
  BY <1>2, AnswerType
<1>4. FromUpstream(Named(choices))
  <2> DEFINE U == UpstreamMessages([name : Names, args : Arguments])
  <2>1. choices \in Seq(U)
    BY ContentAssumption
  <2>2. \A i \in DOMAIN choices : choices[i] \in U
    BY <2>1
  <2>3. \A i \in DOMAIN choices : choices[i].content # <<>> => choices[i].content[1] \in Answers
    BY SpeakersAssumption
  <2> HIDE DEF Numbered
  <2>4. DOMAIN Named(choices) = DOMAIN choices
    OBVIOUS
  <2>5. \A i \in DOMAIN choices : Named(choices)[i].content = choices[i].content
    BY <2>2 DEF UpstreamMessages
  <2> HIDE DEF Named
  <2> QED BY <2>3, <2>4, <2>5 DEF FromUpstream
<1> HIDE DEF Named
<1> QED BY <1>1, <1>3, <1>4

LEMMA AnswerTypeOK ==
  ASSUME TypeOK, Answer
  PROVE  history' \in Seq(Histories(protocol)) /\ said' \in Seq(Turns) /\ Len(said') \in 0..MaxTurns
<1>1. /\ protocol \in Protocols /\ history \in Seq(Histories(protocol))
      /\ said \in Seq(Turns) /\ sent.web_search \in BOOLEAN
  BY TypeOKIs DEF SentOK
<1>2. PICK answer \in Seq(Upstream), results \in SourceLists :
        /\ said' = Append(said, [choices |-> answer, searched |-> sent.web_search /\ results # <<>>])
        /\ history' = Append(history,
             IF protocol = "anthropic" THEN AnthropicAnswer(answer, sent.web_search, results)
             ELSE OpenAIAnswer(answer, sent.web_search, results))
  BY AnswerSays
<1> DEFINE m == IF protocol = "anthropic" THEN AnthropicAnswer(answer, sent.web_search, results)
                ELSE OpenAIAnswer(answer, sent.web_search, results)
           H == Histories(protocol)
           turn == [choices |-> answer, searched |-> sent.web_search /\ results # <<>>]
<1>3. m \in H
  BY <1>1, AnthropicAnswerType, OpenAIAnswerIs DEF Histories
<1>4. turn \in Turns
  BY <1>1 DEF Turns
<1> HIDE DEF m, H, turn
<1>5. Append(history, m) \in Seq(H) /\ Append(said, turn) \in Seq(Turns)
  BY <1>1, <1>3, <1>4 DEF H
<1>6. Len(said) < MaxTurns /\ MaxTurns \in Nat /\ Len(Append(said, turn)) = Len(said) + 1 /\ Len(said) \in Nat
  BY <1>1, ConversationAssumption DEF Answer
<1> QED BY <1>2, <1>5, <1>6 DEF m, H, turn

LEMMA NextTypeOK ==
  ASSUME TypeOK, [Next]_vars
  PROVE  TypeOK'
<1>0. /\ protocol \in Protocols /\ phase \in {"client", "gateway", "upstream"}
      /\ history \in Seq(Histories(protocol)) /\ said \in Seq(Turns) /\ Len(said) \in 0..MaxTurns
      /\ SentOK(sent)
  BY TypeOKIs
<1> SUFFICES /\ protocol' \in Protocols /\ phase' \in {"client", "gateway", "upstream"}
             /\ history' \in Seq(Histories(protocol')) /\ said' \in Seq(Turns)
             /\ Len(said') \in 0..MaxTurns /\ SentOK(sent')
  BY DEF TypeOK, Protocols, Histories, Turns, Upstream, SentOK, MessagesOK
<1>1. CASE UserSpeaks
  BY <1>0, <1>1, UserSpeaksType DEF UserSpeaks
<1>2. CASE CallsReturn
  BY <1>0, <1>2, CallsReturnType DEF CallsReturn
<1>3. CASE Forward
  BY <1>0, <1>3, ForwardTypeOK DEF Forward
<1>4. CASE Answer
  BY <1>0, <1>4, AnswerTypeOK DEF Answer
<1>5. CASE Done \/ UNCHANGED vars
  BY <1>0, <1>5 DEF Done, vars
<1> QED BY <1>1, <1>2, <1>3, <1>4, <1>5 DEF Next

\* The types (TypeOK of Conversation.tla): whatever a client asks and an upstream
\* answers, EncodeOpenAIRequest (upstream.go) sends messages of the chat protocol
\* only: none without content unless it calls, calls of the assistant alone.
THEOREM ConversationTypes == Spec => []TypeOK
BY InitTypeOK, NextTypeOK, PTL DEF Spec

(* --------------------------- tools for the calls ------------------------- *)

LEMMA ForwardHasTools ==
  ASSUME TypeOK, Forward
  PROVE  /\ ~sent'.web_search /\ (\E i \in DOMAIN sent'.messages : sent'.messages[i].tool_calls # <<>>)
              => sent'.tools # {}
         /\ asked'.choice[protocol'].name \in asked'.tools
              => sent'.choice = asked'.choice[protocol'].name /\ sent'.choice \in sent'.tools
<1> DEFINE u == Unroled(protocol, asked'.system, history)
           ms == sent'.messages
           calls == FlatMap(CallsIn, ms)
           choice == asked'.choice[protocol]
<1>1. /\ protocol \in Protocols /\ asked' \in Requests /\ history \in Seq(Histories(protocol))
      /\ protocol' = protocol /\ ms = ReRole(u)
      /\ sent'.tools = IF asked'.tools = {} /\ ~asked'.web_search
                       THEN InferToolsFromHistory(ms) ELSE asked'.tools
      /\ sent'.web_search = asked'.web_search
      /\ sent'.choice = EncodeToolChoice(IF protocol = "anthropic" THEN DecodeAnthropicToolChoice(choice)
                                         ELSE DecodeOpenAIToolChoice(choice))
  BY ForwardSends DEF Forward
<1>2. asked'.tools \subseteq Names /\ asked'.system \in Seq(Texts("text"))
  BY <1>1 DEF Requests
<1>3. choice \in ToolChoices(IF protocol = "anthropic" THEN "tool" ELSE "function")
  BY <1>1 DEF Requests, Protocols
<1>4. ms \in Seq(SentMessages)
  BY <1>1, <1>2, UnroledType, ReRoleType
<1> HIDE DEF choice, ms
<1>5. ASSUME choice.name \in asked'.tools PROVE sent'.choice = choice.name /\ sent'.choice \in sent'.tools
  BY <1>1, <1>2, <1>3, <1>5, ChoiceType
<1>6. ASSUME ~sent'.web_search, NEW i \in DOMAIN ms, ms[i].tool_calls # <<>>
      PROVE  sent'.tools # {}
  <2>1. ms[i] \in SentMessages
    BY <1>4
  <2> DEFINE c == ms[i].tool_calls
  <2>2. c \in Seq(CallRecords) /\ CallsIn[ms[i]] = c
    BY <2>1, SentKinds DEF CallsIn
  <2>3. 1 \in DOMAIN c
    BY <1>6, <2>2
  <2>4. CallsIn \in [SentMessages -> Seq(CallRecords)] /\ calls \in Seq(CallRecords)
        /\ InferToolsFromHistory(ms) = {calls[j].name : j \in DOMAIN calls} \ {Empty}
    BY <1>4, InferIs
  <2>5. PICK k \in DOMAIN calls : calls[k] = c[1]
    BY <1>4, <2>2, <2>3, <2>4, FlatMapHas
  <2> HIDE DEF calls
  <2>6. calls[k] \in CallRecords
    BY <2>4
  <2>7. calls[k].name # Empty
    BY <2>6, ConversationAssumption DEF CallRecords
  <2>8. calls[k].name \in InferToolsFromHistory(ms)
    BY <2>4, <2>7
  <2> QED BY <1>1, <1>6, <2>8
<1> QED BY <1>1, <1>5, <1>6 DEF ms, choice

\* A request that holds calls names tools, and forces the function that it is
\* asked to force (CallsHaveTools of Conversation.tla): inferToolsFromHistory
\* (upstream.go) finds in the translated history whatever call stands there, so
\* that no upstream is sent calls of tools it is not told of.
THEOREM RequestsHaveTools == Spec => []CallsHaveTools
<1>1. Init => CallsHaveTools
  BY DEF Init, CallsHaveTools, IsSent
<1>2. ASSUME TypeOK, CallsHaveTools, [Next]_vars PROVE CallsHaveTools'
  BY <1>2, ForwardHasTools DEF UserSpeaks, CallsHaveTools, IsSent, CallsReturn, Answer, Done, vars, Next
<1> QED BY <1>1, <1>2, ConversationTypes, PTL DEF Spec

(* ------------------------ what is sent of what is said -------------------- *)

\* What is the same place by place is the same.
LEMMA FlatMapPointwise ==
  ASSUME NEW g, NEW h, NEW s, NEW t, DOMAIN s = DOMAIN t, \A i \in DOMAIN s : g[s[i]] = h[t[i]]
  PROVE  FlatMap(g, s) = FlatMap(h, t)
BY DEF FlatMap

(* ------------------------------ what is said ----------------------------- *)

AllBlocks == AnthropicBlocks \cup PartBlocks \cup Blocks1 \cup SentParts \cup Errors
Words == Pictures \cup Seq(Pieces \cup {ErrorMark})

\* What Sendable makes of a block.
Send == [b \in AllBlocks |->
           IF b.type = "text" \/ (b.type \in {"image", "image_url"} /\ b.id = "base64" /\ b.val # Empty)
           THEN <<b.val>> ELSE <<>>]

LEMMA SendType ==
  ASSUME NEW b \in AllBlocks
  PROVE  Send[b] \in Seq(Words)
<1>1. b.type = "text" => b.val \in Words
  <2>1. b.type = "text" => b \in Texts("text") \cup Errors
    BY DEF AllBlocks, AnthropicBlocks, UserBlocks, AnswerBlocks, ResultBlocks, PartBlocks, Blocks1,
           Parts1, Calls1, Results1, SentParts, Texts, Images
  <2>2. \A v \in Seq(Pieces) : v \in Seq(Pieces \cup {ErrorMark})
    OBVIOUS
  <2>3. b \in Texts("text") \cup Errors => b.val \in Seq(Pieces \cup {ErrorMark})
    BY <2>2 DEF Texts, Errors
  <2> QED BY <2>1, <2>3 DEF Words
<1>2. b.type \in {"image", "image_url"} => b.val \in Pictures
  BY DEF AllBlocks, AnthropicBlocks, UserBlocks, AnswerBlocks, ResultBlocks, PartBlocks, Blocks1,
         Parts1, Calls1, Results1, SentParts, Errors, Texts, Images
<1>3. b.type \in {"image", "image_url"} => b.val \in Words
  BY <1>2 DEF Words
<1> DEFINE v == b.val
<1>4. v \in Words => <<v>> \in Seq(Words)
  OBVIOUS
<1>5. <<>> \in Seq(Words)
  OBVIOUS
<1> QED BY <1>1, <1>3, <1>4, <1>5 DEF Send

LEMMA SendableIs ==
  ASSUME NEW s \in Seq(AllBlocks)
  PROVE  /\ Sendable(s) = FlatMap(Send, s)
         /\ Send \in [AllBlocks -> Seq(Words)]
         /\ FlatMap(Send, s) \in Seq(Words)
<1>1. \A i \in DOMAIN s : s[i] \in AllBlocks
  OBVIOUS
<1>2. [i \in DOMAIN s |->
         IF s[i].type = "text" \/ (s[i].type \in {"image", "image_url"} /\ s[i].id = "base64" /\ s[i].val # Empty)
         THEN <<s[i].val>> ELSE <<>>]
        = [i \in DOMAIN s |-> Send[s[i]]]
  BY <1>1 DEF Send
<1>3. Send \in [AllBlocks -> Seq(Words)]
  BY SendType DEF Send
<1>4. FlatMap(Send, s) \in Seq(Words)
  BY <1>3, FlatMapType
<1> QED BY <1>2, <1>3, <1>4 DEF Sendable, Each, FlatMap

\* A translation that keeps what each block says keeps what all say.
LEMMA SendThrough ==
  ASSUME NEW A, NEW B, A \subseteq AllBlocks, B \subseteq AllBlocks, NEW g \in [A -> Seq(B)],
         \A a \in A : FlatMap(Send, g[a]) = Send[a], NEW s \in Seq(A)
  PROVE  FlatMap(Send, FlatMap(g, s)) = FlatMap(Send, s)
<1> DEFINE k == [a \in A |-> Send[a]]
<1>1. Send \in Maps(AllBlocks, Words) /\ k \in Maps(A, Words)
  BY SendType DEF Maps, Send
<1>2. g \in Maps(A, AllBlocks)
  BY DEF Maps
<1>3. \A a \in A : k[a] = FlatMap(Send, g[a])
  OBVIOUS
<1>4. s \in Lists(A)
  BY DEF Lists
<1>5. FlatMap(Send, FlatMap(g, s)) = FlatMap(k, s)
  BY <1>1, <1>2, <1>4, FlatMapTwice
<1>6. FlatMap(k, s) = FlatMap(Send, s)
  <2>1. \A i \in DOMAIN s : k[s[i]] = Send[s[i]]
    OBVIOUS
  <2> HIDE DEF k
  <2> QED BY <2>1, FlatMapSame
<1> QED BY <1>5, <1>6

\* One block's word, or none.
LEMMA SendOne ==
  ASSUME NEW b \in AllBlocks
  PROVE  FlatMap(Send, <<b>>) = Send[b] /\ FlatMap(Send, <<>>) = <<>>
<1>1. Send \in [AllBlocks -> Seq(Words)]
  BY SendType DEF Send
<1> QED BY <1>1, FlatMapOne, FlatMapNone

LEMMA PartsSend ==
  ASSUME NEW s \in Seq(Blocks1)
  PROVE  FlatMap(Send, FlatMap(EncodeParts, s)) = FlatMap(Send, s)
<1>1. EncodeParts \in [Blocks1 -> Seq(SentParts)]
  BY EncodePartType DEF EncodeParts
<1>2. ASSUME NEW b \in Blocks1 PROVE FlatMap(Send, EncodeParts[b]) = Send[b]
  <2>1. EncodeParts[b] = EncodePart(b) /\ b \in AllBlocks
    BY DEF EncodeParts, AllBlocks
  <2>2. CASE b.type = "text"
    BY <2>1, <2>2, EncodePartType, SendOne
  <2>3. CASE b.type = "image" /\ b.val # Empty
    <3> DEFINE c == [type |-> "image_url", id |-> "base64", val |-> b.val]
    <3>1. EncodePart(b) = <<c>>
      BY <2>3, EncodePartType
    <3>2. b \in Images("image", {"base64"})
      BY <2>3, Block1Kinds
    <3>3. c \in AllBlocks /\ b.id = "base64"
      BY <2>3, <3>2 DEF Images, SentParts, AllBlocks
    <3>4. Send[c] = <<b.val>> /\ Send[b] = <<b.val>>
      BY <2>1, <2>3, <3>3 DEF Send
    <3> HIDE DEF c
    <3> QED BY <2>1, <3>1, <3>3, <3>4, SendOne
  <2>4. CASE b.type \notin {"text", "image"}
    BY <2>4, <2>1, EncodePartType, Block1Kinds, SendOne DEF Send
  <2>5. CASE b.type = "image" /\ b.val = Empty
    BY <2>5, <2>1, EncodePartType, SendOne DEF Send
  <2> QED BY <2>2, <2>3, <2>4, <2>5
<1>3. Blocks1 \subseteq AllBlocks /\ SentParts \subseteq AllBlocks
  BY DEF AllBlocks
<1> QED BY <1>1, <1>2, <1>3, SendThrough

LEMMA PlainSends ==
  ASSUME NEW b \in AnthropicBlocks
  PROVE  FlatMap(Send, DecodePlainBlock(b)) = Send[b]
<1>1. b \in AllBlocks
  BY DEF AllBlocks
<1>2. CASE b.type \in {"text", "thinking"} \/ (b.type = "image" /\ b.id = "base64")
  BY <1>2, <1>1, SendOne DEF DecodePlainBlock
<1>3. CASE b.type = "tool_use"
  <2> DEFINE c == Block("tool_call", b.id, [b.val EXCEPT !.args = Reparsed[@]])
  <2>1. DecodePlainBlock(b) = <<c>>
    BY <1>3 DEF DecodePlainBlock
  <2>2. b \in ToolUses
    BY <1>3 DEF AnthropicBlocks, UserBlocks, Texts, Images, AnswerBlocks, ResultBlocks, ToolUses
  <2>3. c \in Calls1
    BY <2>2, Arguments1 DEF ToolUses, Calls1, Block
  <2>4. c \in AllBlocks
    BY <2>3 DEF AllBlocks, Blocks1
  <2>5. Send[c] = <<>> /\ Send[b] = <<>>
    BY <1>1, <1>3, <2>4 DEF Send, Block
  <2> HIDE DEF c
  <2> QED BY <2>1, <2>4, <2>5, SendOne
<1>4. CASE ~(b.type \in {"text", "thinking"} \/ (b.type = "image" /\ b.id = "base64")) /\ b.type # "tool_use"
  BY <1>4, <1>1, SendOne DEF DecodePlainBlock, AnthropicBlocks, UserBlocks, Texts, Images, AnswerBlocks,
     ResultBlocks, Send
<1> QED BY <1>2, <1>3, <1>4

LEMMA DecodedSends ==
  ASSUME NEW s \in Seq(AnthropicBlocks)
  PROVE  /\ FlatMap(Send, FlatMap(DecodeBlock, s)) = FlatMap(Send, s)
         /\ DecodeBlock \in [AnthropicBlocks -> Seq(Blocks1)]
<1>1. ASSUME NEW b \in AnthropicBlocks
      PROVE  DecodeBlock[b] \in Seq(Blocks1) /\ FlatMap(Send, DecodeBlock[b]) = Send[b]
  <2>1. DecodeBlock[b] = DecodeAnthropicBlock(b)
    BY DEF DecodeBlock
  <2>2. CASE b \in UserBlocks \cup AnswerBlocks
    <3>1. DecodeAnthropicBlock(b) \in Seq(Parts1 \cup Texts("thinking") \cup Calls1)
      BY <2>2, DecodeBlockType
    <3>2. DecodeAnthropicBlock(b) \in Seq(Blocks1)
      BY <3>1 DEF Blocks1
    <3> QED BY <2>1, <2>2, <3>2, DecodeBlockType, PlainSends
  <2>3. CASE b \in ResultBlocks
    <3> DEFINE r == [type |-> "tool_result", id |-> b.id,
                     val |-> [content |-> FlatMap(DecodePlain, b.val.content),
                              is_error |-> b.val.is_error]]
    <3>1. r \in Results1 /\ DecodeAnthropicBlock(b) = <<r>>
      BY <2>3, DecodeBlockType
    <3>2. r \in Blocks1 /\ r.type = "tool_result"
      BY <3>1 DEF Blocks1
    <3> HIDE DEF r
    <3>3. r \in AllBlocks /\ b \in AllBlocks /\ b.type = "tool_result"
      BY <2>3, <3>2, BlockKinds DEF AllBlocks
    <3>4. Send[r] = <<>> /\ Send[b] = <<>>
      BY <3>2, <3>3 DEF Send
    <3>5. <<r>> \in Seq(Blocks1)
      BY <3>2
    <3> QED BY <2>1, <3>1, <3>3, <3>4, <3>5, SendOne
  <2> QED BY <2>2, <2>3 DEF AnthropicBlocks
<1>2. DecodeBlock \in [AnthropicBlocks -> Seq(Blocks1)]
  BY <1>1 DEF DecodeBlock
<1>3. AnthropicBlocks \subseteq AllBlocks /\ Blocks1 \subseteq AllBlocks
  BY DEF AllBlocks
<1> QED BY <1>1, <1>2, <1>3, SendThrough

LEMMA PlainsSend ==
  ASSUME NEW s \in Seq(UserBlocks)
  PROVE  FlatMap(Send, FlatMap(DecodePlain, s)) = FlatMap(Send, s)
<1> DEFINE g == [b \in UserBlocks |-> DecodePlain[b]]
<1>1. ASSUME NEW b \in UserBlocks PROVE g[b] \in Seq(Blocks1) /\ FlatMap(Send, g[b]) = Send[b]
  BY DecodePlainType, PlainSends DEF AnthropicBlocks, DecodePlain, Blocks1
<1>2. g \in [UserBlocks -> Seq(Blocks1)]
  BY <1>1
<1>3. UserBlocks \subseteq AllBlocks /\ Blocks1 \subseteq AllBlocks
  BY DEF AllBlocks, AnthropicBlocks
<1>4. \A i \in DOMAIN s : g[s[i]] = DecodePlain[s[i]]
  OBVIOUS
<1> HIDE DEF g
<1>5. FlatMap(Send, FlatMap(g, s)) = FlatMap(Send, s)
  BY <1>1, <1>2, <1>3, SendThrough
<1>6. FlatMap(g, s) = FlatMap(DecodePlain, s)
  BY <1>4, FlatMapSame
<1> QED BY <1>5, <1>6

LEMMA DecodedPartsSend ==
  ASSUME NEW s \in Seq(PartBlocks)
  PROVE  FlatMap(Send, FlatMap(DecodeParts, s)) = FlatMap(Send, s)
<1>1. ASSUME NEW b \in PartBlocks
      PROVE  DecodeParts[b] \in Seq(Blocks1) /\ FlatMap(Send, DecodeParts[b]) = Send[b]
  <2>1. DecodeParts[b] = DecodePart(b) /\ b \in AllBlocks
    BY DEF DecodeParts, AllBlocks
  <2>2. DecodePart(b) \in Seq(Parts1)
    BY DecodePartType
  <2>3. DecodePart(b) \in Seq(Blocks1)
    BY <2>2 DEF Blocks1
  <2>4. CASE b \in Texts("text")
    BY <2>4, <2>1, <2>3, SendOne DEF Texts, DecodePart
  <2>5. CASE b \in Images("image_url", {"base64", "https", "data"}) /\ b.id = "base64"
    <3> DEFINE c == Block("image", "base64", b.val)
    <3>1. b.type = "image_url"
      BY <2>5 DEF Images
    <3>2. DecodePart(b) = <<c>>
      BY <2>5, <3>1 DEF DecodePart
    <3>3. c \in AllBlocks
      BY <2>5 DEF Images, Block, AllBlocks, Blocks1, Parts1
    <3>4. c.type = "image" /\ c.id = "base64" /\ c.val = b.val
      BY DEF Block
    <3> HIDE DEF c
    <3>5. Send[c] = Send[b]
      BY <2>1, <2>5, <3>1, <3>3, <3>4 DEF Send
    <3> QED BY <2>1, <2>3, <3>2, <3>3, <3>5, SendOne
  <2>6. CASE b \in Images("image_url", {"base64", "https", "data"}) /\ b.id # "base64"
    BY <2>6, <2>1, <2>3, SendOne DEF Images, DecodePart, Send
  <2> QED BY <2>4, <2>5, <2>6 DEF PartBlocks
<1>2. DecodeParts \in [PartBlocks -> Seq(Blocks1)]
  BY <1>1 DEF DecodeParts
<1>3. PartBlocks \subseteq AllBlocks /\ Blocks1 \subseteq AllBlocks
  BY DEF AllBlocks
<1> QED BY <1>1, <1>2, <1>3, SendThrough

Tolds == [role : Roles, val : Words]
Tagged(role, s) == FlatMap([v \in Words |-> <<[role |-> role, val |-> v]>>], s)

\* What Told makes of a message of M.
Tell(M, roles) ==
  [m \in M |-> IF m.role \in roles THEN Tagged(m.role, FlatMap(Send, m.content)) ELSE <<>>]

\* Messages whose contents can be read.
Readable(M) == \A m \in M : m.role \in Roles /\ m.content \in Seq(AllBlocks)

LEMMA TaggedType ==
  ASSUME NEW role \in Roles, NEW s \in Seq(Words)
  PROVE  /\ Tagged(role, s) \in Seq(Tolds)
         /\ Tagged(role, s) = [i \in DOMAIN s |-> [role |-> role, val |-> s[i]]]
<1> DEFINE h == [v \in Words |-> <<[role |-> role, val |-> v]>>]
           f == [v \in Words |-> [role |-> role, val |-> v]]
<1>1. ASSUME NEW v \in Words PROVE f[v] \in Tolds /\ h[v] = <<f[v]>> /\ h[v] \in Seq(Tolds)
  BY DEF Tolds
<1>2. h \in [Words -> Seq(Tolds)]
  BY <1>1
<1>3. \A i \in DOMAIN s : s[i] \in Words
  OBVIOUS
<1>4. [i \in DOMAIN s |-> f[s[i]]] = [i \in DOMAIN s |-> [role |-> role, val |-> s[i]]]
  BY <1>3
<1> HIDE DEF f, h
<1>5. FlatMap(h, s) \in Seq(Tolds)
  BY <1>2, FlatMapType
<1>6. FlatMap(h, s) = [i \in DOMAIN s |-> f[s[i]]]
  BY <1>1, <1>3, FlatMapEach
<1> QED BY <1>4, <1>5, <1>6 DEF Tagged, h

LEMMA ToldIs ==
  ASSUME NEW M, Readable(M), NEW ms \in Seq(M), NEW roles
  PROVE  /\ Told(ms, roles) = FlatMap(Tell(M, roles), ms)
         /\ Tell(M, roles) \in [M -> Seq(Tolds)]
         /\ FlatMap(Tell(M, roles), ms) \in Seq(Tolds)
<1> DEFINE T == Tell(M, roles)
<1>1. ASSUME NEW m \in M
      PROVE  /\ T[m] = IF m.role \in roles
                       THEN FlattenSeq([i \in DOMAIN Sendable(m.content) |->
                                          <<[role |-> m.role, val |-> Sendable(m.content)[i]]>>])
                       ELSE <<>>
             /\ T[m] \in Seq(Tolds)
  <2> DEFINE s == FlatMap(Send, m.content)
             r == m.role
             h == [v \in Words |-> <<[role |-> r, val |-> v]>>]
  <2>1. m.role \in Roles /\ m.content \in Seq(AllBlocks)
    BY DEF Readable
  <2>2. Sendable(m.content) = s /\ s \in Seq(Words)
    BY <2>1, SendableIs
  <2>3. Tagged(r, s) \in Seq(Tolds)
    BY <2>1, <2>2, TaggedType
  <2>4. T[m] = IF m.role \in roles THEN Tagged(r, s) ELSE <<>>
    BY DEF Tell
  <2>5. <<>> \in Seq(Tolds)
    OBVIOUS
  <2>6. Tagged(r, s) = FlattenSeq([i \in DOMAIN s |-> <<[role |-> r, val |-> s[i]]>>])
    <3> HIDE DEF s, r
    <3>1. \A i \in DOMAIN s : s[i] \in Words
      BY <2>2
    <3>2. [i \in DOMAIN s |-> h[s[i]]] = [i \in DOMAIN s |-> <<[role |-> r, val |-> s[i]]>>]
      BY <3>1
    <3> QED BY <3>2 DEF Tagged, FlatMap
  <2> HIDE DEF T, s
  <2> QED BY <2>2, <2>3, <2>4, <2>5, <2>6
<1>2. T \in [M -> Seq(Tolds)]
  BY <1>1 DEF Tell
<1>3. \A i \in DOMAIN ms : ms[i] \in M
  OBVIOUS
<1> HIDE DEF T
<1>4. [i \in DOMAIN ms |->
         IF ms[i].role \in roles
         THEN FlattenSeq([j \in DOMAIN Sendable(ms[i].content) |->
                            <<[role |-> ms[i].role, val |-> Sendable(ms[i].content)[j]]>>])
         ELSE <<>>]
        = [i \in DOMAIN ms |-> T[ms[i]]]
  BY <1>1, <1>3
<1>5. FlatMap(T, ms) \in Seq(Tolds)
  BY <1>2, FlatMapType
<1> QED BY <1>2, <1>4, <1>5 DEF Told, Each, FlatMap, T

\* The words of what is told.
ValOf == [t \in Tolds |-> <<t.val>>]

LEMMA ValsIs ==
  ASSUME NEW s \in Seq(Tolds)
  PROVE  Vals(s) = FlatMap(ValOf, s) /\ ValOf \in [Tolds -> Seq(Words)]
<1> DEFINE f == [t \in Tolds |-> t.val]
<1>1. \A i \in DOMAIN s : s[i] \in Tolds
  OBVIOUS
<1>2. [i \in DOMAIN s |-> f[s[i]]] = [i \in DOMAIN s |-> s[i].val]
  BY <1>1
<1>3. \A t \in Tolds : ValOf[t] = <<f[t]>>
  BY DEF ValOf
<1>4. ValOf \in [Tolds -> Seq(Words)]
  <2>1. ASSUME NEW t \in Tolds PROVE <<t.val>> \in Seq(Words)
    <3> DEFINE v == t.val
    <3>1. v \in Words
      BY DEF Tolds
    <3> HIDE DEF v
    <3>2. <<v>> \in Seq(Words)
      BY <3>1
    <3> QED BY <3>2 DEF v
  <2> QED BY <2>1 DEF ValOf
<1> HIDE DEF f
<1>5. FlatMap(ValOf, s) = [i \in DOMAIN s |-> f[s[i]]]
  BY <1>1, <1>3, FlatMapEach
<1> QED BY <1>2, <1>4, <1>5 DEF Vals

\* The words of what is told, message by message.
Say(M, roles) == [m \in M |-> IF m.role \in roles THEN FlatMap(Send, m.content) ELSE <<>>]

LEMMA SaidIs ==
  ASSUME NEW M, Readable(M), NEW ms \in Seq(M), NEW roles
  PROVE  /\ Vals(Told(ms, roles)) = FlatMap(Say(M, roles), ms)
         /\ Say(M, roles) \in [M -> Seq(Words)]
<1> DEFINE T == Tell(M, roles)
           S == Say(M, roles)
<1>1. /\ Told(ms, roles) = FlatMap(T, ms) /\ T \in [M -> Seq(Tolds)]
      /\ FlatMap(T, ms) \in Seq(Tolds)
  BY ToldIs
<1>2. ASSUME NEW m \in M PROVE S[m] \in Seq(Words) /\ S[m] = FlatMap(ValOf, T[m])
  <2> DEFINE s == FlatMap(Send, m.content)
             r == m.role
             x == Tagged(r, s)
  <2>1. r \in Roles /\ s \in Seq(Words)
    BY SendableIs DEF Readable
  <2>2. /\ S[m] = IF r \in roles THEN s ELSE <<>>
        /\ T[m] = IF r \in roles THEN x ELSE <<>>
    BY DEF Say, Tell
  <2> HIDE DEF s, r, S, T
  <2>3. x \in Seq(Tolds) /\ x = [i \in DOMAIN s |-> [role |-> r, val |-> s[i]]]
    BY <2>1, TaggedType
  <2>4. Vals(x) = s
    BY <2>3, <2>1 DEF Vals
  <2> HIDE DEF x
  <2>5. FlatMap(ValOf, x) = s /\ FlatMap(ValOf, <<>>) = <<>>
    BY <2>3, <2>4, ValsIs, FlatMapNone
  <2>6. <<>> \in Seq(Words)
    OBVIOUS
  <2> QED BY <2>1, <2>2, <2>5, <2>6
<1>3. S = [m \in M |-> S[m]]
  BY DEF Say
<1> HIDE DEF S, T
<1>4. S \in [M -> Seq(Words)]
  BY <1>2, <1>3
<1>5. ValOf \in [Tolds -> Seq(Words)]
  <2>1. <<>> \in Seq(Tolds)
    OBVIOUS
  <2> QED BY <2>1, ValsIs
<1>6. S \in Maps(M, Words) /\ T \in Maps(M, Tolds) /\ ValOf \in Maps(Tolds, Words) /\ ms \in Lists(M)
  BY <1>1, <1>4, <1>5 DEF Maps, Lists
<1>7. FlatMap(ValOf, FlatMap(T, ms)) = FlatMap(S, ms)
  BY <1>2, <1>6, FlatMapTwice
<1>8. Vals(FlatMap(T, ms)) = FlatMap(ValOf, FlatMap(T, ms))
  BY <1>1, ValsIs
<1> QED BY <1>1, <1>4, <1>7, <1>8 DEF S

LEMMA AllReadable ==
  /\ Readable(SentMessages) /\ Readable(Messages1)
  /\ \A p \in Protocols : Readable(Histories(p))
<1>1. ASSUME NEW m \in SentMessages PROVE m.role \in Roles /\ m.content \in Seq(AllBlocks)
  <2>1. m.content \in Seq(SentParts \cup Errors)
    BY DEF ToolMessages, OwnMessages, SentMessages
  <2>2. m.content \in Seq(AllBlocks)
    BY <2>1 DEF AllBlocks
  <2> QED BY <2>2, SentKinds
<1>2. ASSUME NEW m \in Messages1 PROVE m.role \in Roles /\ m.content \in Seq(AllBlocks)
  BY Message1Kinds DEF Roles, AllBlocks
<1>3. ASSUME NEW m \in AnthropicMessages PROVE m.role \in Roles /\ m.content \in Seq(AllBlocks)
  BY DecodeAnthropicType DEF Roles, AllBlocks
<1>4. ASSUME NEW m \in OpenAIMessages PROVE m.role \in Roles /\ m.content \in Seq(AllBlocks)
  BY OpenAIKinds DEF AllBlocks
<1> QED BY <1>1, <1>2, <1>3, <1>4 DEF Readable, Protocols, Histories

LEMMA TellOf ==
  ASSUME NEW M, NEW m \in M, NEW roles
  PROVE  /\ m.role \in roles => Tell(M, roles)[m] = Tagged(m.role, FlatMap(Send, m.content))
         /\ m.role \notin roles => Tell(M, roles)[m] = <<>>
BY DEF Tell

LEMMA TaggedNone ==
  ASSUME NEW role
  PROVE  Tagged(role, <<>>) = <<>>
BY FlatMapNone DEF Tagged

\* The messages of a message tell what it tells, but for results.
LEMMA EncodedTells ==
  ASSUME NEW m \in Messages1, NEW roles, "tool" \notin roles
  PROVE  FlatMap(Tell(SentMessages, roles), Encode[m]) = Tell(Messages1, roles)[m]
<1> DEFINE parts == FlatMap(EncodeParts, m.content)
           calls == FlatMap(CallsOf, m.content)
           results == FlatMap(ResultsOf, m.content)
           own == ChatMessage(m.role, parts, calls, Empty)
           T == Tell(SentMessages, roles)
           x == FlatMap(Send, m.content)
<1>1. /\ results \in Seq(ToolMessages)
      /\ m.role = "tool" => Encode[m] = results
      /\ m.role = "user" =>
           /\ parts = <<>> => Encode[m] = results
           /\ parts # <<>> => Encode[m] = results \o <<own>> /\ own \in OwnMessages
      /\ m.role = "assistant" =>
           /\ parts = <<>> /\ calls = <<>> => Encode[m] = <<>>
           /\ ~(parts = <<>> /\ calls = <<>>) => Encode[m] = <<own>> /\ own \in OwnMessages
  BY EncodeType
<1>2. m.role \in {"user", "tool", "assistant"} /\ m.content \in Seq(Blocks1)
  BY Message1Kinds
<1>3. FlatMap(Send, parts) = x
  BY <1>2, PartsSend
<1>4. parts = <<>> => x = <<>>
  BY <1>3, FlatMapNone
<1>5. own.role = m.role /\ own.content = parts
  BY DEF ChatMessage
<1>6. Tell(Messages1, roles)[m] = IF m.role \in roles THEN Tagged(m.role, x) ELSE <<>>
  BY TellOf
<1> HIDE DEF parts, calls, results, own, x
<1>7. own \in OwnMessages => own \in SentMessages /\ T[own] = IF m.role \in roles THEN Tagged(m.role, x) ELSE <<>>
  BY <1>3, <1>5, TellOf DEF SentMessages
<1>8. T \in [SentMessages -> Seq(Tolds)] /\ results \in Seq(SentMessages)
  <2>1. results \in Seq(SentMessages)
    BY <1>1 DEF SentMessages
  <2> QED BY <2>1, ToldIs, AllReadable
<1>9. FlatMap(T, results) = <<>>
  <2>1. ASSUME NEW i \in DOMAIN results PROVE T[results[i]] = <<>>
    <3>1. results[i] \in ToolMessages
      BY <1>1
    <3>2. results[i].role = "tool" /\ results[i] \in SentMessages
      BY <3>1 DEF ToolMessages, SentMessages
    <3> QED BY <3>2, TellOf
  <2> HIDE DEF T
  <2> QED BY <1>8, <2>1, FlatMapEmpty
<1>10. own \in SentMessages => FlatMap(T, <<own>>) = T[own] /\ FlatMap(T, results \o <<own>>) = T[own]
  <2> SUFFICES ASSUME own \in SentMessages
               PROVE  FlatMap(T, <<own>>) = T[own] /\ FlatMap(T, results \o <<own>>) = T[own]
    OBVIOUS
  <2> HIDE DEF T
  <2>1. FlatMap(T, <<own>>) = T[own]
    BY <1>8, FlatMapOne
  <2> DEFINE y == <<own>>
  <2>2. y \in Lists(SentMessages) /\ results \in Lists(SentMessages) /\ T \in Maps(SentMessages, Tolds)
    BY <1>8 DEF Lists, Maps
  <2> HIDE DEF y
  <2>3. FlatMap(T, results \o y) = FlatMap(T, results) \o FlatMap(T, y)
    BY <2>2, FlatMapConcat
  <2>4. T[own] \in Seq(Tolds)
    BY <1>8
  <2> DEFINE z == T[own]
  <2> HIDE DEF z
  <2>5. <<>> \o z = z
    BY <2>4 DEF z
  <2> QED BY <1>9, <2>1, <2>3, <2>5 DEF y, z
<1>11. FlatMap(T, <<>>) = <<>> /\ Tagged(m.role, <<>>) = <<>>
  BY FlatMapNone, TaggedNone
<1> HIDE DEF T
<1>12. CASE m.role = "tool"
  BY <1>1, <1>6, <1>9, <1>12 DEF T
<1>13. CASE m.role = "user"
  BY <1>1, <1>4, <1>6, <1>7, <1>9, <1>10, <1>11, <1>13 DEF T
<1>14. CASE m.role = "assistant"
  BY <1>1, <1>4, <1>6, <1>7, <1>9, <1>10, <1>11, <1>14 DEF T
<1> QED BY <1>2, <1>12, <1>13, <1>14

\* The canonical message of a message says what it says.
LEMMA WholeSays ==
  ASSUME NEW x \in Seq(AllBlocks), NEW y \in Seq(AllBlocks), NEW z \in Seq(AllBlocks),
         \A i \in DOMAIN x : x[i].type = "thinking", \A i \in DOMAIN z : z[i].type \in {"tool_call", "tool_result"}
  PROVE  FlatMap(Send, x \o y \o z) = FlatMap(Send, y)
<1>1. Send \in Maps(AllBlocks, Words) /\ x \in Lists(AllBlocks) /\ y \in Lists(AllBlocks) /\ z \in Lists(AllBlocks)
  BY SendType DEF Send, Maps, Lists
<1>2. FlatMap(Send, Three(x, y, z)) = Three(FlatMap(Send, x), FlatMap(Send, y), FlatMap(Send, z))
  BY <1>1, FlatMapThree
<1>3. FlatMap(Send, x) = <<>> /\ FlatMap(Send, z) = <<>>
  <2>1. \A i \in DOMAIN x : x[i] \in AllBlocks
    OBVIOUS
  <2>2. \A i \in DOMAIN z : z[i] \in AllBlocks
    OBVIOUS
  <2>3. \A i \in DOMAIN x : Send[x[i]] = <<>>
    BY <2>1 DEF Send
  <2>4. \A i \in DOMAIN z : Send[z[i]] = <<>>
    BY <2>2 DEF Send
  <2> QED BY <2>3, <2>4, FlatMapEmpty
<1>4. FlatMap(Send, y) \in Seq(Words)
  BY SendableIs
<1> DEFINE w == FlatMap(Send, y)
<1> HIDE DEF w
<1>5. Three(<<>>, w, <<>>) = w
  BY <1>4 DEF Three, w
<1> QED BY <1>2, <1>3, <1>5 DEF Three, w

\* What a canonical message tells, when there is one.
LEMMA MessagesTell ==
  ASSUME NEW role, NEW content, Messages(role, content) \in Seq(Messages1), NEW roles,
         NEW x, FlatMap(Send, content) = x
  PROVE  FlatMap(Tell(Messages1, roles), Messages(role, content))
           = IF role \in roles THEN Tagged(role, x) ELSE <<>>
<1> DEFINE T == Tell(Messages1, roles)
           m == Message(role, content)
<1>1. CASE content = <<>>
  BY <1>1, FlatMapNone, TaggedNone DEF Messages
<1>2. CASE content # <<>>
  <2>1. Messages(role, content) = <<m>>
    BY <1>2 DEF Messages
  <2>2. m.role = role /\ m.content = content
    BY DEF Message
  <2> HIDE DEF m
  <2>3. m \in Messages1
    BY <2>1
  <2>4. T \in [Messages1 -> Seq(Tolds)]
    BY AllReadable, ToldIs
  <2>5. FlatMap(T, <<m>>) = T[m]
    BY <2>3, <2>4, FlatMapOne
  <2> QED BY <2>1, <2>2, <2>3, <2>5, TellOf
<1> QED BY <1>1, <1>2

LEMMA DecodedTells ==
  ASSUME NEW p \in Protocols, NEW m \in Histories(p), NEW roles, "tool" \notin roles
  PROVE  /\ m.role # "system" => FlatMap(Tell(Messages1, roles), Decode(p)[m]) = Tell(Histories(p), roles)[m]
         /\ m.role = "system" => FlatMap(Tell(Messages1, roles), Decode(p)[m]) = <<>>
<1> DEFINE x == FlatMap(Send, m.content)
<1>0. Decode(p)[m] \in Seq(Messages1)
  BY DecodeType
<1>1. CASE p = "anthropic"
  <2> DEFINE d == FlatMap(DecodeBlock, m.content)
  <2>1. /\ Decode(p)[m] = Messages(m.role, d) /\ m.role \in {"user", "assistant"}
        /\ m.content \in Seq(AnthropicBlocks)
    BY <1>1, DecodeAnthropicType DEF Decode, Histories
  <2>2. FlatMap(Send, d) = x
    BY <2>1, DecodedSends
  <2> HIDE DEF d, x
  <2>3. FlatMap(Tell(Messages1, roles), Decode(p)[m]) = IF m.role \in roles THEN Tagged(m.role, x) ELSE <<>>
    BY <1>0, <2>1, <2>2, MessagesTell
  <2> QED BY <2>1, <2>3, TellOf DEF x
<1>2. CASE p = "openai" /\ m.role = "system"
  BY <1>2, FlatMapNone DEF Histories, Decode, DecodeOpenAI
<1>3. CASE p = "openai" /\ m.role # "system"
  <2> DEFINE parts == FlatMap(DecodeParts, m.content)
             calls == FlatMap(DecodeCalls, m.tool_calls)
             result == Block("tool_result", m.tool_call_id, [content |-> parts, is_error |-> FALSE])
             t == m.thinking
             D == Decode(p)[m]
  <2>1. /\ parts \in Seq(Parts1) /\ calls \in Seq(Calls1)
        /\ m.role = "user" => D = Messages("user", parts)
        /\ m.role = "tool" => D = Messages("tool", parts \o <<result>>)
        /\ m.role = "assistant" => D = Messages("assistant", t \o parts \o calls)
    BY <1>3, DecodeOpenAIType DEF Decode, Histories
  <2>2. m.content \in Seq(PartBlocks) /\ t \in Seq(Texts("thinking")) /\ m.role \in {"user", "tool", "assistant"}
    BY <1>3, OpenAIKinds DEF Histories, Roles
  <2>3. FlatMap(Send, parts) = x
    BY <2>2, DecodedPartsSend
  <2> HIDE DEF parts, calls, result, t, D
  <2>4. CASE m.role = "user"
    <3>1. FlatMap(Tell(Messages1, roles), D) = IF m.role \in roles THEN Tagged(m.role, x) ELSE <<>>
      BY <1>0, <2>1, <2>3, <2>4, MessagesTell DEF D
    <3> QED BY <1>3, <3>1, TellOf DEF D
  <2>5. CASE m.role = "tool"
    <3> DEFINE c == parts \o <<result>>
               y == FlatMap(Send, c)
    <3>1. D = Messages("tool", c)
      BY <2>1, <2>5
    <3> HIDE DEF c
    <3>2. FlatMap(Send, c) = y
      OBVIOUS
    <3> HIDE DEF y
    <3>3. FlatMap(Tell(Messages1, roles), D) = <<>>
      BY <1>0, <3>1, <3>2, MessagesTell DEF D
    <3> QED BY <1>3, <2>5, <3>3, TellOf DEF D
  <2>6. CASE m.role = "assistant"
    <3> DEFINE c == t \o parts \o calls
    <3>1. t \in Seq(AllBlocks) /\ parts \in Seq(AllBlocks) /\ calls \in Seq(AllBlocks)
      BY <2>1, <2>2 DEF AllBlocks, Blocks1
    <3>2. \A i \in DOMAIN t : t[i].type = "thinking"
      <4>1. \A i \in DOMAIN t : t[i] \in Texts("thinking")
        BY <2>2
      <4> QED BY <4>1 DEF Texts
    <3>3. \A i \in DOMAIN calls : calls[i].type \in {"tool_call", "tool_result"}
      <4>1. \A i \in DOMAIN calls : calls[i] \in Calls1
        BY <2>1
      <4> QED BY <4>1 DEF Calls1
    <3>4. FlatMap(Send, c) = x
      BY <2>3, <3>1, <3>2, <3>3, WholeSays
    <3>5. D = Messages("assistant", c)
      BY <2>1, <2>6
    <3>6. FlatMap(Tell(Messages1, roles), D) = IF m.role \in roles THEN Tagged(m.role, x) ELSE <<>>
      BY <1>0, <2>6, <3>4, <3>5, MessagesTell DEF D
    <3> QED BY <1>3, <3>6, TellOf DEF D
  <2> QED BY <2>2, <2>4, <2>5, <2>6
<1> QED BY <1>1, <1>2, <1>3 DEF Protocols

\* The messages of a whole history tell what it tells.
LEMMA HistoryTells ==
  ASSUME NEW p \in Protocols, NEW h \in Seq(Histories(p)), NEW roles, "tool" \notin roles, "system" \notin roles
  PROVE  FlatMap(Tell(SentMessages, roles), FlatMap(Encode, FlatMap(Decode(p), h)))
           = FlatMap(Tell(Histories(p), roles), h)
<1> DEFINE S == Tell(SentMessages, roles)
           C == Tell(Messages1, roles)
           T == Tell(Histories(p), roles)
           D == Decode(p)
           H == Histories(p)
           c == FlatMap(D, h)
<1>1. D \in [H -> Seq(Messages1)] /\ c \in Seq(Messages1)
  BY DecodeType
<1>2. Encode \in [Messages1 -> Seq(SentMessages)]
  BY EncodeType DEF Encode
<1>3. S \in [SentMessages -> Seq(Tolds)] /\ C \in [Messages1 -> Seq(Tolds)] /\ T \in [H -> Seq(Tolds)]
  <2>1. <<>> \in Seq(SentMessages) /\ <<>> \in Seq(Messages1) /\ <<>> \in Seq(H)
    OBVIOUS
  <2>2. S \in [SentMessages -> Seq(Tolds)]
    BY <2>1, AllReadable, ToldIs
  <2>3. C \in [Messages1 -> Seq(Tolds)]
    BY <2>1, AllReadable, ToldIs
  <2>4. T \in [H -> Seq(Tolds)]
    BY <2>1, AllReadable, ToldIs
  <2> QED BY <2>2, <2>3, <2>4
<1>4. \A m \in Messages1 : C[m] = FlatMap(S, Encode[m])
  BY EncodedTells
<1>5. \A m \in H : T[m] = FlatMap(C, D[m])
  <2>1. ASSUME NEW m \in H PROVE T[m] = FlatMap(C, D[m])
    BY DecodedTells, TellOf
  <2> QED BY <2>1
<1> HIDE DEF S, C, T, D, H
<1>6. S \in Maps(SentMessages, Tolds) /\ C \in Maps(Messages1, Tolds) /\ T \in Maps(H, Tolds)
  BY <1>3 DEF Maps
<1>7. D \in Maps(H, Messages1) /\ Encode \in Maps(Messages1, SentMessages)
  BY <1>1, <1>2 DEF Maps
<1>8. h \in Lists(H) /\ c \in Lists(Messages1)
  BY <1>1 DEF Lists, H
<1> HIDE DEF c
<1>9. FlatMap(S, FlatMap(Encode, c)) = FlatMap(C, c)
  BY <1>4, <1>6, <1>7, <1>8, FlatMapTwice
<1>10. FlatMap(C, FlatMap(D, h)) = FlatMap(T, h)
  BY <1>5, <1>6, <1>7, <1>8, FlatMapTwice
<1> QED BY <1>9, <1>10 DEF c, S, T, D, H

LEMMA TagType ==
  ASSUME NEW role \in Roles
  PROVE  [v \in Words |-> <<[role |-> role, val |-> v]>>] \in [Words -> Seq(Tolds)]
<1>1. ASSUME NEW v \in Words PROVE <<[role |-> role, val |-> v]>> \in Seq(Tolds)
  <2> DEFINE x == [role |-> role, val |-> v]
  <2>1. x \in Tolds
    BY DEF Tolds
  <2> HIDE DEF x
  <2>2. <<x>> \in Seq(Tolds)
    BY <2>1
  <2> QED BY <2>2 DEF x
<1> QED BY <1>1

\* The system's messages tell what its texts say, as the system's.
LEMMA SystemTells ==
  ASSUME NEW s \in Seq(Texts("text")), NEW roles
  PROVE  FlatMap(Tell(SentMessages, roles), FlatMap(SystemMessages, s))
           = IF "system" \in roles THEN Tagged("system", FlatMap(Send, s)) ELSE <<>>
<1> DEFINE T == Tell(SentMessages, roles)
           X == Texts("text")
           SM == SystemMessages
           k == [b \in X |-> FlatMap(T, SM[b])]
           tag == [v \in Words |-> <<[role |-> "system", val |-> v]>>]
           send == [b \in X |-> Send[b]]
<1>1. T \in [SentMessages -> Seq(Tolds)]
  <2>1. <<>> \in Seq(SentMessages)
    OBVIOUS
  <2> QED BY <2>1, AllReadable, ToldIs
<1>2. SM \in [X -> Seq(SentMessages)]
  <2>1. "anthropic" \in Protocols /\ <<>> \in Seq(Histories("anthropic"))
    BY DEF Protocols
  <2> QED BY <2>1, UnroledType
<1>3. tag \in [Words -> Seq(Tolds)]
  BY TagType DEF Roles
<1>4. ASSUME NEW b \in X
      PROVE  /\ k[b] \in Seq(Tolds) /\ k[b] = FlatMap(T, SM[b])
             /\ send[b] \in Seq(Words) /\ send[b] = Send[b]
             /\ "system" \in roles => k[b] = FlatMap(tag, send[b])
             /\ "system" \notin roles => k[b] = <<>>
  <2> DEFINE m == ChatMessage("system", <<b>>, <<>>, Empty)
  <2>1. SM[b] = <<m>> /\ SM[b] \in Seq(SentMessages)
    BY <1>2 DEF SystemMessages
  <2>2. m.role = "system" /\ m.content = <<b>>
    BY DEF ChatMessage
  <2> HIDE DEF m
  <2>3. m \in SentMessages
    BY <2>1
  <2>4. k[b] = T[m]
    <3>1. FlatMap(T, <<m>>) = T[m]
      BY <1>1, <2>3, FlatMapOne
    <3> QED BY <2>1, <3>1
  <2>5. b \in AllBlocks
    BY DEF AllBlocks, PartBlocks
  <2>6. FlatMap(Send, m.content) = Send[b] /\ Send[b] \in Seq(Words)
    BY <2>2, <2>5, SendOne, SendType
  <2>7. T[m] = IF "system" \in roles THEN Tagged("system", Send[b]) ELSE <<>>
    BY <2>2, <2>3, <2>6, TellOf
  <2>8. T[m] \in Seq(Tolds)
    BY <1>1, <2>3
  <2>9. Tagged("system", Send[b]) = FlatMap(tag, Send[b])
    BY DEF Tagged
  <2> HIDE DEF T, tag
  <2> QED BY <2>4, <2>6, <2>7, <2>8, <2>9
<1> HIDE DEF T, tag, SM
<1>5. /\ T \in Maps(SentMessages, Tolds) /\ SM \in Maps(X, SentMessages) /\ k \in Maps(X, Tolds)
      /\ tag \in Maps(Words, Tolds) /\ send \in Maps(X, Words) /\ s \in Lists(X)
  <2>1. k \in [X -> Seq(Tolds)]
    BY <1>4
  <2>2. send \in [X -> Seq(Words)]
    BY <1>4
  <2> HIDE DEF k, send
  <2> QED BY <1>1, <1>2, <1>3, <2>1, <2>2 DEF Maps, Lists
<1>6. \A i \in DOMAIN s : s[i] \in X
  OBVIOUS
<1> HIDE DEF X, k, send
<1>7. FlatMap(T, FlatMap(SM, s)) = FlatMap(k, s)
  BY <1>4, <1>5, FlatMapTwice
<1>8. FlatMap(send, s) = FlatMap(Send, s)
  BY <1>4, <1>6, FlatMapSame
<1>9. CASE "system" \in roles
  BY <1>4, <1>5, <1>9, <1>7, <1>8, FlatMapTwice DEF T, SM, tag, Tagged
<1>10. CASE "system" \notin roles
  BY <1>4, <1>10, <1>5, <1>7, FlatMapEmpty DEF Lists, T, SM
<1> QED BY <1>9, <1>10

LEMMA UnroledTells ==
  ASSUME NEW p \in Protocols, NEW system \in Seq(Texts("text")), NEW h \in Seq(Histories(p))
  PROVE  /\ Told(Unroled(p, system, h), Spoken) = Told(h, Spoken)
         /\ Vals(Told(Unroled(p, system, h), {"system"})) = Sendable(SystemTexts(p, system, h))
<1> DEFINE s == SystemTexts(p, system, h)
           x == FlatMap(SystemMessages, s)
           y == FlatMap(Encode, FlatMap(Decode(p), h))
           u == Unroled(p, system, h)
           w == FlatMap(Send, s)
<1>1. /\ s \in Seq(Texts("text")) /\ x \in Seq(SentMessages) /\ y \in Seq(SentMessages)
      /\ u \in Seq(SentMessages) /\ u = x \o y
  BY UnroledType DEF Unroled
<1>2. s \in Seq(AllBlocks) /\ Sendable(s) = w /\ w \in Seq(Words)
  <2>1. s \in Seq(AllBlocks)
    BY <1>1 DEF AllBlocks, PartBlocks
  <2> HIDE DEF s
  <2> QED BY <2>1, SendableIs
<1>3. ASSUME NEW roles
      PROVE  /\ Told(u, roles) = FlatMap(Tell(SentMessages, roles), x) \o FlatMap(Tell(SentMessages, roles), y)
             /\ FlatMap(Tell(SentMessages, roles), x) = IF "system" \in roles THEN Tagged("system", w) ELSE <<>>
             /\ FlatMap(Tell(SentMessages, roles), y) \in Seq(Tolds)
  <2> DEFINE T == Tell(SentMessages, roles)
  <2>1. /\ T \in [SentMessages -> Seq(Tolds)] /\ FlatMap(T, y) \in Seq(Tolds)
        /\ Told(u, roles) = FlatMap(T, u)
    BY <1>1, AllReadable, ToldIs
  <2>2. FlatMap(T, x) = IF "system" \in roles THEN Tagged("system", w) ELSE <<>>
    BY <1>1, SystemTells
  <2> HIDE DEF T, x, y, u
  <2>3. T \in Maps(SentMessages, Tolds) /\ x \in Lists(SentMessages) /\ y \in Lists(SentMessages)
    BY <1>1, <2>1 DEF Maps, Lists
  <2>4. FlatMap(T, x \o y) = FlatMap(T, x) \o FlatMap(T, y)
    BY <2>3, FlatMapConcat
  <2> QED BY <1>1, <2>1, <2>2, <2>4 DEF T
<1>4. Told(u, Spoken) = Told(h, Spoken)
  <2> DEFINE a == FlatMap(Tell(SentMessages, Spoken), y)
  <2>1. "system" \notin Spoken /\ "tool" \notin Spoken
    BY DEF Spoken
  <2>2. Told(u, Spoken) = <<>> \o a /\ a \in Seq(Tolds)
    BY <1>3, <2>1
  <2>3. a = FlatMap(Tell(Histories(p), Spoken), h)
    BY <2>1, HistoryTells
  <2>4. Told(h, Spoken) = FlatMap(Tell(Histories(p), Spoken), h)
    BY AllReadable, ToldIs
  <2> HIDE DEF a
  <2>5. <<>> \o a = a
    BY <2>2
  <2> QED BY <2>2, <2>3, <2>4, <2>5
<1>5. FlatMap(Tell(SentMessages, {"system"}), y) = <<>>
  <2> DEFINE c == FlatMap(Decode(p), h)
             S == Tell(SentMessages, {"system"})
             C == Tell(Messages1, {"system"})
  <2>1. c \in Seq(Messages1) /\ Encode \in [Messages1 -> Seq(SentMessages)]
    BY DecodeType, UnroledType
  <2>2. S \in [SentMessages -> Seq(Tolds)] /\ C \in [Messages1 -> Seq(Tolds)]
    <3>1. <<>> \in Seq(SentMessages) /\ <<>> \in Seq(Messages1)
      OBVIOUS
    <3>2. S \in [SentMessages -> Seq(Tolds)]
      BY <3>1, AllReadable, ToldIs
    <3>3. C \in [Messages1 -> Seq(Tolds)]
      BY <3>1, AllReadable, ToldIs
    <3> QED BY <3>2, <3>3
  <2>3. \A m \in Messages1 : C[m] = FlatMap(S, Encode[m])
    BY EncodedTells
  <2>4. \A m \in Messages1 : C[m] = <<>>
    <3>1. ASSUME NEW m \in Messages1 PROVE C[m] = <<>>
      BY Message1Kinds, TellOf
    <3> QED BY <3>1
  <2> HIDE DEF S, C, c
  <2>5. S \in Maps(SentMessages, Tolds) /\ C \in Maps(Messages1, Tolds)
        /\ Encode \in Maps(Messages1, SentMessages) /\ c \in Lists(Messages1)
    BY <2>1, <2>2 DEF Maps, Lists
  <2>6. FlatMap(S, FlatMap(Encode, c)) = FlatMap(C, c)
    BY <2>3, <2>5, FlatMapTwice
  <2>7. FlatMap(C, c) = <<>>
    BY <2>1, <2>4, FlatMapEmpty
  <2> QED BY <2>6, <2>7 DEF S, c
<1>6. Vals(Told(u, {"system"})) = w
  <2> DEFINE t == Tagged("system", w)
  <2>1. t \in Seq(Tolds) /\ t = [i \in DOMAIN w |-> [role |-> "system", val |-> w[i]]]
    BY <1>2, TaggedType DEF Roles
  <2>2. Told(u, {"system"}) = t \o <<>>
    BY <1>3, <1>5
  <2> HIDE DEF t
  <2>3. t \o <<>> = t
    BY <2>1
  <2> HIDE DEF w
  <2>4. DOMAIN t = DOMAIN w /\ \A i \in DOMAIN w : t[i].val = w[i]
    BY <2>1
  <2>5. [i \in DOMAIN t |-> t[i].val] = [i \in DOMAIN w |-> w[i]]
    BY <2>4
  <2>6. [i \in DOMAIN w |-> w[i]] = w
    BY <1>2
  <2> QED BY <2>2, <2>3, <2>5, <2>6 DEF Vals
<1> QED BY <1>2, <1>4, <1>6

LEMMA ReRoleSays ==
  ASSUME NEW ms \in Seq(SentMessages), NEW roles, "user" \in roles <=> "assistant" \in roles
  PROVE  Vals(Told(ReRole(ms), roles)) = Vals(Told(ms, roles))
<1> DEFINE S == Say(SentMessages, roles)
           x == ReRole(ms)
<1>1. /\ x \in Seq(SentMessages) /\ DOMAIN x = DOMAIN ms
      /\ \A i \in DOMAIN ms : /\ x[i].content = ms[i].content
                              /\ \/ x[i].role = ms[i].role
                                 \/ x[i].role = "user" /\ ms[i].role = "assistant"
  BY ReRoleType
<1> HIDE DEF x
<1>2. ASSUME NEW i \in DOMAIN ms PROVE S[x[i]] = S[ms[i]]
  BY <1>1 DEF Say
<1>3. FlatMap(S, x) = FlatMap(S, ms)
  BY <1>1, <1>2, FlatMapPointwise
<1>4. Vals(Told(x, roles)) = FlatMap(S, x) /\ Vals(Told(ms, roles)) = FlatMap(S, ms)
  BY <1>1, AllReadable, SaidIs
<1> QED BY <1>3, <1>4 DEF x

\* The system's texts say what the request, or the history, has the system say.
LEMMA SystemSays ==
  ASSUME NEW p \in Protocols, NEW system \in Seq(Texts("text")), p = "openai" => system = <<>>,
         NEW h \in Seq(Histories(p))
  PROVE  Sendable(SystemTexts(p, system, h)) = Sendable(system) \o Vals(Told(h, {"system"}))
<1> DEFINE H == Histories(p)
           S == Say(H, {"system"})
           w == Sendable(system)
           v == Vals(Told(h, {"system"}))
<1>0. Texts("text") \subseteq AllBlocks
  BY DEF AllBlocks, PartBlocks
<1>1. w \in Seq(Words)
  BY <1>0, SendableIs
<1>2. v = FlatMap(S, h) /\ S \in [H -> Seq(Words)]
  BY AllReadable, SaidIs
<1>3. CASE p = "anthropic"
  <2>1. \A i \in DOMAIN h : S[h[i]] = <<>>
    <3>1. ASSUME NEW i \in DOMAIN h PROVE S[h[i]] = <<>>
      <4>1. h[i] \in AnthropicMessages /\ h[i] \in H
        BY <1>3 DEF Histories
      <4>2. h[i].role \notin {"system"}
        BY <4>1, DecodeAnthropicType
      <4> QED BY <4>1, <4>2 DEF Say
    <3> QED BY <3>1
  <2> HIDE DEF w, v, S
  <2>2. v = <<>>
    BY <1>2, <2>1, FlatMapEmpty
  <2>3. w \o <<>> = w
    BY <1>1
  <2> QED BY <1>3, <2>2, <2>3 DEF SystemTexts, w, v
<1>4. CASE p = "openai"
  <2>1. ASSUME NEW m \in OpenAIMessages
        PROVE  /\ SystemOf[m] \in Seq(Texts("text")) /\ S[m] = FlatMap(Send, SystemOf[m])
    BY <1>4, SystemOfType, FlatMapNone DEF Histories, Say, SystemOf
  <2>2. SystemOf \in [OpenAIMessages -> Seq(Texts("text"))]
    BY <2>1 DEF SystemOf
  <2>3. SystemOf \in [OpenAIMessages -> Seq(AllBlocks)]
    BY <1>0, <2>2
  <2>4. S \in [OpenAIMessages -> Seq(Words)] /\ h \in Seq(OpenAIMessages)
    BY <1>2, <1>4 DEF Histories
  <2> HIDE DEF w, v, S
  <2>5. SystemOf \in Maps(OpenAIMessages, AllBlocks) /\ S \in Maps(OpenAIMessages, Words)
        /\ Send \in Maps(AllBlocks, Words) /\ h \in Lists(OpenAIMessages)
    BY <2>3, <2>4, SendType DEF Maps, Lists, Send
  <2>6. FlatMap(Send, FlatMap(SystemOf, h)) = FlatMap(S, h)
    BY <2>1, <2>5, FlatMapTwice
  <2>7. Sendable(FlatMap(SystemOf, h)) = FlatMap(Send, FlatMap(SystemOf, h))
    BY <2>3, <2>4, FlatMapType, SendableIs
  <2>8. w = <<>>
    <3>1. <<>> \in Seq(AllBlocks)
      OBVIOUS
    <3> QED BY <1>4, <3>1, SendableIs, FlatMapNone DEF w
  <2>9. v \in Seq(Words)
    BY <1>2, <2>4, FlatMapType
  <2>10. <<>> \o v = v
    BY <2>9
  <2> QED BY <1>2, <1>4, <2>6, <2>7, <2>8, <2>10 DEF SystemTexts, w, v
<1> QED BY <1>3, <1>4 DEF Protocols

(* -------------------------------- results -------------------------------- *)

GivenResults == [id : IDs, words : Seq(Words), is_error : BOOLEAN]

GivenBlock(b) == [id |-> b.id, words |-> Sendable(b.val.content), is_error |-> b.val.is_error]
GivenBy(m) ==
  IF m.role = "tool"
  THEN <<[id |-> m.tool_call_id, words |-> Sendable(m.content), is_error |-> FALSE]>>
  ELSE FlattenSeq([j \in DOMAIN OfType("tool_result", m.content) |->
                     <<GivenBlock(OfType("tool_result", m.content)[j])>>])

\* What ResultsIn makes of a message of M.
Give(M) == [m \in M |-> GivenBy(m)]

LEMMA ResultsInIs ==
  ASSUME NEW M, NEW ms \in Seq(M)
  PROVE  ResultsIn(ms) = FlatMap(Give(M), ms)
<1>1. ResultsIn(ms) = FlattenSeq([i \in DOMAIN ms |-> GivenBy(ms[i])])
  BY DEF ResultsIn, Each, GivenBy, GivenBlock
<1>2. \A i \in DOMAIN ms : ms[i] \in M
  OBVIOUS
<1>3. [i \in DOMAIN ms |-> GivenBy(ms[i])] = [i \in DOMAIN ms |-> Give(M)[ms[i]]]
  BY <1>2 DEF Give
<1> QED BY <1>1, <1>3 DEF FlatMap

LEMMA NoResults ==
  ASSUME NEW m, NEW S, m.role # "tool", m.content \in Seq(S),
         \A i \in DOMAIN m.content : m.content[i].type # "tool_result"
  PROVE  GivenBy(m) = <<>>
<1> DEFINE s == m.content
           h == [b \in S |-> IF b.type = "tool_result" THEN <<b>> ELSE <<>>]
<1>1. \A i \in DOMAIN s : s[i] \in S /\ s[i].type # "tool_result"
  OBVIOUS
<1>2. [i \in DOMAIN s |-> IF s[i].type = "tool_result" THEN <<s[i]>> ELSE <<>>]
        = [i \in DOMAIN s |-> h[s[i]]]
  BY <1>1
<1>3. \A i \in DOMAIN s : h[s[i]] = <<>>
  BY <1>1
<1>4. s \in Seq(S)
  OBVIOUS
<1> HIDE DEF s, h
<1>5. FlatMap(h, s) = <<>>
  BY <1>3, <1>4, FlatMapEmpty
<1>6. OfType("tool_result", s) = <<>>
  BY <1>2, <1>5 DEF OfType, Each, FlatMap
<1> DEFINE r == OfType("tool_result", s)
           x == [j \in DOMAIN r |-> <<GivenBlock(r[j])>>]
<1>7. GivenBy(m) = FlattenSeq(x)
  BY DEF GivenBy, s
<1>8. x = <<>>
  BY <1>6
<1> QED BY <1>7, <1>8, FlattenNone

\* A canonical result, as it was given and as it is sent.
AsGiven == [r \in Results1 |-> <<[id |-> r.id, words |-> FlatMap(Send, r.val.content), is_error |-> r.val.is_error]>>]
AsSent ==
  [r \in Results1 |->
     <<[id |-> r.id, words |-> FlatMap(Send, EncodeToolResultContent(r.val)), is_error |-> FALSE]>>]
ResultsIn1 == [m \in Messages1 |-> FlatMap(OnlyResults, m.content)]

LEMMA ResultSequences ==
  /\ AsGiven \in [Results1 -> Seq(GivenResults)] /\ AsSent \in [Results1 -> Seq(GivenResults)]
  /\ OnlyResults \in [Blocks1 -> Seq(Results1)]
  /\ ResultsIn1 \in [Messages1 -> Seq(Results1)]
<1>1. ASSUME NEW x \in GivenResults PROVE <<x>> \in Seq(GivenResults)
  OBVIOUS
<1>2. Parts1 \subseteq AllBlocks /\ SentParts \cup Errors \subseteq AllBlocks
  BY DEF AllBlocks, Blocks1
<1>3. ASSUME NEW r \in Results1
      PROVE AsGiven[r] \in Seq(GivenResults) /\ AsSent[r] \in Seq(GivenResults)
  <2> DEFINE a == FlatMap(Send, r.val.content)
             s == FlatMap(Send, EncodeToolResultContent(r.val))
             x == [id |-> r.id, words |-> a, is_error |-> r.val.is_error]
             y == [id |-> r.id, words |-> s, is_error |-> FALSE]
  <2>1. r.id \in IDs /\ r.val.is_error \in BOOLEAN /\ r.val.content \in Seq(Parts1)
    BY DEF Results1
  <2>2. r.val.content \in Seq(AllBlocks)
    BY <1>2, <2>1
  <2>3. EncodeToolResultContent(r.val) \in Seq(SentParts \cup Errors)
    BY ResultContent
  <2>4. EncodeToolResultContent(r.val) \in Seq(AllBlocks)
    BY <1>2, <2>3
  <2>5. a \in Seq(Words) /\ s \in Seq(Words)
    BY <2>2, <2>4, SendableIs
  <2>6. AsGiven[r] = <<x>> /\ AsSent[r] = <<y>>
    BY DEF AsGiven, AsSent
  <2> HIDE DEF a, s
  <2>7. x \in GivenResults /\ y \in GivenResults
    BY <2>1, <2>5 DEF GivenResults
  <2> HIDE DEF x, y
  <2> QED BY <1>1, <2>6, <2>7
<1>4. AsGiven \in [Results1 -> Seq(GivenResults)] /\ AsSent \in [Results1 -> Seq(GivenResults)]
  BY <1>3 DEF AsGiven, AsSent
<1>5. OnlyResults \in [Blocks1 -> Seq(Results1)]
  BY Block1Kinds DEF OnlyResults
<1>6. ResultsIn1 \in [Messages1 -> Seq(Results1)]
  <2>1. ASSUME NEW m \in Messages1 PROVE FlatMap(OnlyResults, m.content) \in Seq(Results1)
    <3> DEFINE s == m.content
    <3>1. s \in Seq(Blocks1)
      BY Message1Kinds
    <3> HIDE DEF s
    <3>2. FlatMap(OnlyResults, s) \in Seq(Results1)
      BY <1>5, <3>1, FlatMapType
    <3> QED BY <3>2 DEF s
  <2> QED BY <2>1 DEF ResultsIn1
<1> QED BY <1>4, <1>5, <1>6

\* What the results of a content give, or become, block by block.
OfResults(f) == [b \in Blocks1 |-> IF b.type = "tool_result" THEN f[b] ELSE <<>>]

LEMMA OfResultsIs ==
  ASSUME NEW f \in [Results1 -> Seq(GivenResults)], NEW s \in Seq(Blocks1)
  PROVE  /\ OfResults(f) \in [Blocks1 -> Seq(GivenResults)]
         /\ FlatMap(f, FlatMap(OnlyResults, s)) = FlatMap(OfResults(f), s)
<1> DEFINE k == OfResults(f)
<1>1. ASSUME NEW b \in Blocks1
      PROVE  k[b] \in Seq(GivenResults) /\ k[b] = FlatMap(f, OnlyResults[b])
  <2>1. CASE b.type = "tool_result"
    BY <2>1, Block1Kinds, FlatMapOne DEF OfResults, OnlyResults
  <2>2. CASE b.type # "tool_result"
    BY <2>2, FlatMapNone DEF OfResults, OnlyResults
  <2> QED BY <2>1, <2>2
<1>2. k \in [Blocks1 -> Seq(GivenResults)]
  BY <1>1 DEF OfResults
<1> HIDE DEF k
<1>3. k \in Maps(Blocks1, GivenResults) /\ f \in Maps(Results1, GivenResults)
      /\ OnlyResults \in Maps(Blocks1, Results1) /\ s \in Lists(Blocks1)
  BY <1>2, ResultSequences DEF Maps, Lists
<1>4. FlatMap(f, FlatMap(OnlyResults, s)) = FlatMap(k, s)
  BY <1>1, <1>3, FlatMapTwice
<1> QED BY <1>2, <1>4 DEF k

LEMMA GiveSent ==
  /\ \A m \in OwnMessages : GivenBy(m) = <<>>
  /\ Give(SentMessages) \in [SentMessages -> Seq(GivenResults)]
<1>1. ASSUME NEW m \in OwnMessages PROVE GivenBy(m) = <<>>
  BY SentKinds, NoResults DEF SentMessages, OwnMessages
<1>2. ASSUME NEW m \in ToolMessages PROVE GivenBy(m) \in Seq(GivenResults)
  <2> DEFINE w == Sendable(m.content)
             x == [id |-> m.tool_call_id, words |-> w, is_error |-> FALSE]
  <2>1. m.role = "tool" /\ m.tool_call_id \in IDs /\ m.content \in Seq(SentParts \cup Errors)
    BY DEF ToolMessages
  <2>2. m.content \in Seq(AllBlocks)
    BY <2>1 DEF AllBlocks
  <2>3. w \in Seq(Words)
    BY <2>2, SendableIs
  <2>4. GivenBy(m) = <<x>>
    BY <2>1 DEF GivenBy
  <2> HIDE DEF w
  <2>5. x \in GivenResults
    BY <2>1, <2>3 DEF GivenResults
  <2> HIDE DEF x
  <2>6. <<x>> \in Seq(GivenResults)
    BY <2>5
  <2> QED BY <2>4, <2>6
<1>3. <<>> \in Seq(GivenResults)
  OBVIOUS
<1>4. \A m \in SentMessages : GivenBy(m) \in Seq(GivenResults)
  BY <1>1, <1>2, <1>3 DEF SentMessages
<1> QED BY <1>1, <1>4 DEF Give

\* The messages of a message hold its results, and no other.
LEMMA EncodedResults ==
  ASSUME NEW m \in Messages1
  PROVE  FlatMap(Give(SentMessages), Encode[m]) = FlatMap(AsSent, ResultsIn1[m])
<1> DEFINE parts == FlatMap(EncodeParts, m.content)
           calls == FlatMap(CallsOf, m.content)
           results == FlatMap(ResultsOf, m.content)
           own == ChatMessage(m.role, parts, calls, Empty)
           T == Give(SentMessages)
           s == m.content
           k == OfResults(AsSent)
<1>1. /\ results \in Seq(ToolMessages)
      /\ m.role = "tool" => Encode[m] = results
      /\ m.role = "user" =>
           /\ parts = <<>> => Encode[m] = results
           /\ parts # <<>> => Encode[m] = results \o <<own>> /\ own \in OwnMessages
      /\ m.role = "assistant" =>
           /\ parts = <<>> /\ calls = <<>> => Encode[m] = <<>>
           /\ ~(parts = <<>> /\ calls = <<>>) => Encode[m] = <<own>> /\ own \in OwnMessages
  BY EncodeType
<1>2. m.role \in {"user", "tool", "assistant"} /\ s \in Seq(Blocks1)
  BY Message1Kinds
<1>3. m.role = "assistant" => results = <<>>
  BY RolesOfBlocks
<1>4. T \in [SentMessages -> Seq(GivenResults)]
  BY GiveSent
<1>5. ResultsOf \in [Blocks1 -> Seq(SentMessages)]
  BY <1>2, EncodeResultsEach DEF SentMessages
<1>6. AsSent \in [Results1 -> Seq(GivenResults)]
  BY ResultSequences
<1>7. ASSUME NEW b \in Blocks1 PROVE k[b] = FlatMap(T, ResultsOf[b])
  <2>1. CASE b.type = "tool_result"
    <3> DEFINE x == EncodeToolResultContent(b.val)
               c == ChatMessage("tool", x, <<>>, b.id)
    <3>1. b \in Results1 /\ ResultsOf[b] = <<c>> /\ k[b] = AsSent[b]
      BY <2>1, Block1Kinds DEF ResultsOf, EncodeToolResult, OfResults
    <3>2. c.role = "tool" /\ c.content = x /\ c.tool_call_id = b.id
      BY DEF ChatMessage
    <3>3. x \in Seq(SentParts \cup Errors)
      BY <3>1, ResultContent
    <3>4. x \in Seq(AllBlocks)
      BY <3>3 DEF AllBlocks
    <3>5. Sendable(x) = FlatMap(Send, x)
      BY <3>4, SendableIs
    <3>6. GivenBy(c) = <<[id |-> b.id, words |-> FlatMap(Send, x), is_error |-> FALSE]>>
      BY <3>2, <3>5 DEF GivenBy
    <3>7. k[b] = GivenBy(c)
      BY <3>1, <3>6 DEF AsSent
    <3>8. <<c>> \in Seq(SentMessages)
      BY <1>5, <3>1
    <3> HIDE DEF c, k
    <3>9. c \in SentMessages
      BY <3>8
    <3>10. FlatMap(T, <<c>>) = T[c] /\ T[c] = GivenBy(c)
      BY <3>9, <1>4, FlatMapOne DEF Give
    <3> QED BY <3>1, <3>7, <3>10
  <2>2. CASE b.type # "tool_result"
    BY <2>2, FlatMapNone DEF ResultsOf, OfResults
  <2> QED BY <2>1, <2>2
<1>8. k \in [Blocks1 -> Seq(GivenResults)] /\ FlatMap(AsSent, FlatMap(OnlyResults, s)) = FlatMap(k, s)
  BY <1>2, <1>6, OfResultsIs
<1>9. ResultsIn1[m] = FlatMap(OnlyResults, s)
  BY DEF ResultsIn1
<1>10. FlatMap(T, results) = FlatMap(k, s)
  <2> HIDE DEF T, k, s
  <2>1. T \in Maps(SentMessages, GivenResults) /\ ResultsOf \in Maps(Blocks1, SentMessages)
        /\ k \in Maps(Blocks1, GivenResults) /\ s \in Lists(Blocks1)
    BY <1>2, <1>4, <1>5, <1>8 DEF Maps, Lists
  <2>2. FlatMap(T, FlatMap(ResultsOf, s)) = FlatMap(k, s)
    BY <1>7, <2>1, FlatMapTwice
  <2> QED BY <2>2 DEF s
<1>11. own \in OwnMessages => own \in SentMessages /\ T[own] = <<>>
  BY GiveSent DEF SentMessages, Give
<1>12. results \in Seq(SentMessages)
  BY <1>1 DEF SentMessages
<1> HIDE DEF parts, calls, results, own, T, k, s
<1>13. own \in OwnMessages => FlatMap(T, <<own>>) = <<>> /\ FlatMap(T, results \o <<own>>) = FlatMap(T, results)
  <2> SUFFICES ASSUME own \in OwnMessages
               PROVE  FlatMap(T, <<own>>) = <<>> /\ FlatMap(T, results \o <<own>>) = FlatMap(T, results)
    OBVIOUS
  <2>1. FlatMap(T, <<own>>) = <<>>
    BY <1>4, <1>11, FlatMapOne
  <2> DEFINE y == <<own>>
             z == FlatMap(T, results)
  <2>2. y \in Lists(SentMessages) /\ results \in Lists(SentMessages) /\ T \in Maps(SentMessages, GivenResults)
    BY <1>11, <1>4, <1>12 DEF Lists, Maps
  <2>3. z \in Seq(GivenResults)
    BY <1>4, <1>12, FlatMapType
  <2> HIDE DEF y
  <2>4. FlatMap(T, results \o y) = z \o FlatMap(T, y)
    BY <2>2, FlatMapConcat
  <2> HIDE DEF z
  <2>5. z \o <<>> = z
    BY <2>3
  <2> QED BY <2>1, <2>4, <2>5 DEF y, z
<1>14. FlatMap(T, <<>>) = <<>>
  BY FlatMapNone
<1>15. FlatMap(T, Encode[m]) = FlatMap(T, results)
  BY <1>1, <1>2, <1>3, <1>13, <1>14
<1> QED BY <1>8, <1>9, <1>10, <1>15 DEF T

LEMMA OnlyResultsNone ==
  ASSUME NEW s \in Seq(Blocks1), \A i \in DOMAIN s : s[i].type # "tool_result"
  PROVE  FlatMap(OnlyResults, s) = <<>>
BY FlatMapEmpty DEF OnlyResults

\* The results of a canonical message, when there is one.
LEMMA MessagesResults ==
  ASSUME NEW role, NEW content \in Seq(Blocks1), Messages(role, content) \in Seq(Messages1)
  PROVE  FlatMap(ResultsIn1, Messages(role, content)) = FlatMap(OnlyResults, content)
<1> DEFINE m == Message(role, content)
<1>1. CASE content = <<>>
  BY <1>1, FlatMapNone DEF Messages
<1>2. CASE content # <<>>
  <2>1. Messages(role, content) = <<m>> /\ m.content = content
    BY <1>2 DEF Messages, Message
  <2> HIDE DEF m
  <2>2. m \in Messages1
    BY <2>1
  <2>3. FlatMap(ResultsIn1, <<m>>) = ResultsIn1[m]
    BY <2>2, ResultSequences, FlatMapOne
  <2> QED BY <2>1, <2>2, <2>3 DEF ResultsIn1
<1> QED BY <1>1, <1>2

\* Results as a client of /v1/messages gives them.
GiveBlock == [b \in AnthropicBlocks |-> IF b.type = "tool_result" THEN <<GivenBlock(b)>> ELSE <<>>]

LEMMA GiveBlocks ==
  ASSUME NEW s \in Seq(AnthropicBlocks)
  PROVE  /\ GiveBlock \in [AnthropicBlocks -> Seq(GivenResults)]
         /\ FlattenSeq([j \in DOMAIN OfType("tool_result", s) |->
                          <<GivenBlock(OfType("tool_result", s)[j])>>]) = FlatMap(GiveBlock, s)
<1> DEFINE only == [b \in AnthropicBlocks |-> IF b.type = "tool_result" THEN <<b>> ELSE <<>>]
           g == [b \in ResultBlocks |-> <<GivenBlock(b)>>]
           r == FlatMap(only, s)
<1>1. \A b \in AnthropicBlocks : b.type = "tool_result" <=> b \in ResultBlocks
  BY BlockKinds DEF AnthropicBlocks
<1>2. ASSUME NEW b \in AnthropicBlocks PROVE only[b] \in Seq(ResultBlocks)
  BY <1>1
<1>3. ASSUME NEW b \in ResultBlocks PROVE <<GivenBlock(b)>> \in Seq(GivenResults)
  <2> DEFINE w == Sendable(b.val.content)
             x == [id |-> b.id, words |-> w, is_error |-> b.val.is_error]
  <2>1. b.id \in IDs /\ b.val \in [content : Seq(UserBlocks), is_error : BOOLEAN]
    BY ContentAssumption DEF ResultBlocks
  <2>2. b.val.content \in Seq(UserBlocks)
    BY <2>1
  <2>3. b.val.content \in Seq(AllBlocks)
    BY <2>2 DEF AllBlocks, AnthropicBlocks
  <2>4. w \in Seq(Words)
    BY <2>3, SendableIs
  <2>5. GivenBlock(b) = x
    BY DEF GivenBlock
  <2> HIDE DEF w
  <2>6. x \in GivenResults
    BY <2>1, <2>4 DEF GivenResults
  <2> HIDE DEF x
  <2>7. <<x>> \in Seq(GivenResults)
    BY <2>6
  <2> QED BY <2>5, <2>7
<1>4. only \in [AnthropicBlocks -> Seq(ResultBlocks)] /\ g \in [ResultBlocks -> Seq(GivenResults)]
  <2>1. only \in [AnthropicBlocks -> Seq(ResultBlocks)]
    BY <1>2
  <2> QED BY <1>3, <2>1
<1>5. ASSUME NEW b \in AnthropicBlocks
      PROVE  GiveBlock[b] \in Seq(GivenResults) /\ GiveBlock[b] = FlatMap(g, only[b])
  <2>1. CASE b.type = "tool_result"
    <3>1. only[b] = <<b>> /\ b \in ResultBlocks
      BY <1>1, <2>1
    <3>2. GiveBlock[b] = g[b]
      BY <2>1, <3>1 DEF GiveBlock
    <3> HIDE DEF only, g
    <3> QED BY <1>4, <3>1, <3>2, FlatMapOne
  <2>2. CASE b.type # "tool_result"
    BY <2>2, FlatMapNone DEF GiveBlock
  <2> QED BY <2>1, <2>2
<1>6. GiveBlock \in [AnthropicBlocks -> Seq(GivenResults)]
  BY <1>5 DEF GiveBlock
<1>7. r \in Seq(ResultBlocks) /\ OfType("tool_result", s) = r
  <2>1. \A i \in DOMAIN s : s[i] \in AnthropicBlocks
    OBVIOUS
  <2>2. [i \in DOMAIN s |-> IF s[i].type = "tool_result" THEN <<s[i]>> ELSE <<>>]
          = [i \in DOMAIN s |-> only[s[i]]]
    BY <2>1
  <2> HIDE DEF only
  <2>3. r \in Seq(ResultBlocks)
    BY <1>4, FlatMapType
  <2> QED BY <2>2, <2>3 DEF OfType, Each, FlatMap
<1> HIDE DEF only
<1>8. FlatMap(g, r) = FlatMap(GiveBlock, s)
  <2> HIDE DEF g
  <2>1. only \in Maps(AnthropicBlocks, ResultBlocks) /\ g \in Maps(ResultBlocks, GivenResults)
        /\ GiveBlock \in Maps(AnthropicBlocks, GivenResults) /\ s \in Lists(AnthropicBlocks)
    BY <1>4, <1>6 DEF Maps, Lists
  <2> QED BY <1>5, <2>1, FlatMapTwice
<1> HIDE DEF r
<1>9. FlattenSeq([j \in DOMAIN r |-> <<GivenBlock(r[j])>>]) = FlatMap(g, r)
  <2>1. \A j \in DOMAIN r : r[j] \in ResultBlocks
    BY <1>7
  <2>2. [j \in DOMAIN r |-> <<GivenBlock(r[j])>>] = [j \in DOMAIN r |-> g[r[j]]]
    BY <2>1
  <2> QED BY <2>2 DEF FlatMap
<1> QED BY <1>6, <1>7, <1>8, <1>9

\* The canonical results of a message are those it gives: of /v1/messages ...
LEMMA AnthropicResults ==
  ASSUME NEW m \in AnthropicMessages
  PROVE  GivenBy(m) = FlatMap(AsGiven, FlatMap(ResultsIn1, DecodeAnthropic[m]))
<1> DEFINE s == m.content
           d == FlatMap(DecodeBlock, s)
           k == OfResults(AsGiven)
<1>1. /\ DecodeAnthropic[m] = Messages(m.role, d) /\ DecodeAnthropic[m] \in Seq(Messages1)
      /\ s \in Seq(AnthropicBlocks) /\ m.role \in {"user", "assistant"} /\ d \in Seq(Blocks1)
  BY DecodeAnthropicType
<1>2. GivenBy(m) = FlatMap(GiveBlock, s)
  BY <1>1, GiveBlocks DEF GivenBy
<1>3. FlatMap(ResultsIn1, DecodeAnthropic[m]) = FlatMap(OnlyResults, d)
  BY <1>1, MessagesResults
<1>4. k \in [Blocks1 -> Seq(GivenResults)] /\ FlatMap(AsGiven, FlatMap(OnlyResults, d)) = FlatMap(k, d)
  BY <1>1, ResultSequences, OfResultsIs
<1>5. ASSUME NEW b \in AnthropicBlocks PROVE GiveBlock[b] = FlatMap(k, DecodeBlock[b])
  <2>1. DecodeBlock[b] = DecodeAnthropicBlock(b)
    BY DEF DecodeBlock
  <2>2. CASE b \in ResultBlocks
    <3> DEFINE c == FlatMap(DecodePlain, b.val.content)
               x == [type |-> "tool_result", id |-> b.id,
                     val |-> [content |-> c, is_error |-> b.val.is_error]]
    <3>1. x \in Results1 /\ DecodeAnthropicBlock(b) = <<x>> /\ b.type = "tool_result"
      BY <2>2, DecodeBlockType, BlockKinds
    <3>2. b.val.content \in Seq(UserBlocks)
      BY <2>2, ContentAssumption DEF ResultBlocks
    <3>3. FlatMap(Send, c) = Sendable(b.val.content)
      <4> DEFINE y == b.val.content
      <4>1. y \in Seq(UserBlocks)
        BY <3>2
      <4> HIDE DEF y
      <4>2. y \in Seq(AllBlocks)
        BY <4>1 DEF AllBlocks, AnthropicBlocks
      <4>3. FlatMap(Send, FlatMap(DecodePlain, y)) = FlatMap(Send, y)
        BY <4>1, PlainsSend
      <4>4. Sendable(y) = FlatMap(Send, y)
        BY <4>2, SendableIs
      <4> QED BY <4>3, <4>4 DEF y
    <3>4. x.type = "tool_result" /\ x.id = b.id /\ x.val.content = c /\ x.val.is_error = b.val.is_error
      OBVIOUS
    <3> HIDE DEF c, x
    <3>5. x \in Blocks1 /\ k[x] = <<GivenBlock(b)>>
      BY <3>1, <3>3, <3>4 DEF OfResults, AsGiven, GivenBlock, Blocks1
    <3> HIDE DEF k
    <3>6. FlatMap(k, <<x>>) = k[x]
      BY <1>4, <3>5, FlatMapOne
    <3> QED BY <2>1, <3>1, <3>5, <3>6 DEF GiveBlock
  <2>3. CASE b \in UserBlocks \cup AnswerBlocks
    <3> DEFINE y == DecodeAnthropicBlock(b)
    <3>1. y \in Seq(Parts1 \cup Texts("thinking") \cup Calls1)
      BY <2>3, DecodeBlockType
    <3> HIDE DEF y
    <3>2. y \in Seq(Blocks1) /\ \A i \in DOMAIN y : y[i].type # "tool_result"
      BY <3>1 DEF Blocks1, Parts1, Texts, Images, Calls1
    <3>3. \A i \in DOMAIN y : k[y[i]] = <<>>
      BY <3>2 DEF OfResults
    <3> HIDE DEF k
    <3>4. FlatMap(k, y) = <<>>
      BY <3>2, <3>3, FlatMapEmpty
    <3>5. b.type # "tool_result"
      BY <2>3, BlockKinds
    <3> QED BY <2>1, <3>4, <3>5 DEF GiveBlock, y
  <2> QED BY <2>2, <2>3 DEF AnthropicBlocks
<1>6. DecodeBlock \in [AnthropicBlocks -> Seq(Blocks1)] /\ GiveBlock \in [AnthropicBlocks -> Seq(GivenResults)]
  BY <1>1, DecodedSends, GiveBlocks
<1> HIDE DEF k, s
<1>7. /\ DecodeBlock \in Maps(AnthropicBlocks, Blocks1) /\ GiveBlock \in Maps(AnthropicBlocks, GivenResults)
      /\ k \in Maps(Blocks1, GivenResults) /\ s \in Lists(AnthropicBlocks)
  BY <1>1, <1>4, <1>6 DEF Maps, Lists
<1>8. FlatMap(k, FlatMap(DecodeBlock, s)) = FlatMap(GiveBlock, s)
  BY <1>5, <1>7, FlatMapTwice
<1> QED BY <1>2, <1>3, <1>4, <1>8

\* ... and of /v1/chat/completions.
LEMMA OpenAIResults ==
  ASSUME NEW m \in OpenAIMessages
  PROVE  GivenBy(m) = FlatMap(AsGiven, FlatMap(ResultsIn1, DecodeOpenAI[m]))
<1> DEFINE parts == FlatMap(DecodeParts, m.content)
           calls == FlatMap(DecodeCalls, m.tool_calls)
           result == Block("tool_result", m.tool_call_id, [content |-> parts, is_error |-> FALSE])
           t == m.thinking
           D == DecodeOpenAI[m]
<1>1. /\ m.role \in Roles /\ m.content \in Seq(PartBlocks) /\ t \in Seq(Texts("thinking"))
  BY OpenAIKinds
<1>2. FlatMap(ResultsIn1, <<>>) = <<>> /\ FlatMap(AsGiven, <<>>) = <<>>
  BY FlatMapNone
<1>3. m.role # "tool" => GivenBy(m) = <<>>
  <2> SUFFICES ASSUME m.role # "tool" PROVE GivenBy(m) = <<>>
    OBVIOUS
  <2>1. ASSUME NEW i \in DOMAIN m.content PROVE m.content[i].type # "tool_result"
    <3>1. m.content[i] \in PartBlocks
      BY <1>1
    <3> DEFINE b == m.content[i]
    <3> HIDE DEF b
    <3>2. b \in PartBlocks => b.type # "tool_result"
      BY DEF PartBlocks, Texts, Images
    <3> QED BY <3>1, <3>2 DEF b
  <2> QED BY <1>1, <2>1, NoResults
<1>4. CASE m.role = "system"
  BY <1>4, <1>2, <1>3 DEF DecodeOpenAI
<1>5. CASE m.role # "system"
  <2>1. /\ parts \in Seq(Parts1) /\ calls \in Seq(Calls1) /\ D \in Seq(Messages1)
        /\ m.role = "user" => D = Messages("user", parts)
        /\ m.role = "tool" => D = Messages("tool", parts \o <<result>>) /\ result \in Results1
        /\ m.role = "assistant" => D = Messages("assistant", t \o parts \o calls)
    BY <1>5, DecodeOpenAIType
  <2>2. FlatMap(Send, parts) = Sendable(m.content)
    <3> DEFINE y == m.content
    <3>1. y \in Seq(PartBlocks)
      BY <1>1
    <3> HIDE DEF y
    <3>2. y \in Seq(AllBlocks)
      BY <3>1 DEF AllBlocks
    <3>3. FlatMap(Send, FlatMap(DecodeParts, y)) = FlatMap(Send, y)
      BY <3>1, DecodedPartsSend
    <3>4. Sendable(y) = FlatMap(Send, y)
      BY <3>2, SendableIs
    <3> QED BY <3>3, <3>4 DEF y
  <2>3. result.id = m.tool_call_id /\ result.val.content = parts /\ result.val.is_error = FALSE
    BY DEF Block
  <2> HIDE DEF parts, calls, result, t, D
  <2>4. parts \in Seq(Blocks1) /\ \A i \in DOMAIN parts : parts[i].type # "tool_result"
    BY <2>1 DEF Blocks1, Parts1, Texts, Images
  <2>5. FlatMap(OnlyResults, parts) = <<>>
    BY <2>4, OnlyResultsNone
  <2>6. CASE m.role = "user"
    BY <2>1, <2>4, <2>5, <2>6, <1>2, <1>3, MessagesResults DEF D
  <2>7. CASE m.role = "assistant"
    <3> DEFINE c == t \o parts \o calls
    <3>1. \A b \in Parts1 \cup Texts("thinking") \cup Calls1 : b \in Blocks1
      BY DEF Blocks1
    <3>2. \A b \in Parts1 \cup Texts("thinking") \cup Calls1 : b.type # "tool_result"
      BY DEF Parts1, Texts, Images, Calls1
    <3> DEFINE All == Parts1 \cup Texts("thinking") \cup Calls1
    <3>3. t \in Seq(All) /\ parts \in Seq(All) /\ calls \in Seq(All)
      BY <1>1, <2>1 DEF t
    <3> HIDE DEF All
    <3>4. t \o parts \in Seq(All)
      BY <3>3
    <3>5. c \in Seq(All)
      BY <3>3, <3>4
    <3> HIDE DEF c
    <3>6. \A i \in DOMAIN c : c[i] \in All
      BY <3>5
    <3>7. c \in Seq(Blocks1) /\ \A i \in DOMAIN c : c[i].type # "tool_result"
      BY <3>1, <3>5, <3>2 DEF All
    <3>8. FlatMap(OnlyResults, c) = <<>>
      BY <3>7, OnlyResultsNone
    <3>9. FlatMap(ResultsIn1, D) = <<>>
      BY <2>1, <2>7, <3>7, <3>8, MessagesResults DEF c
    <3> QED BY <1>2, <1>3, <2>7, <3>9 DEF D
  <2>8. CASE m.role = "tool"
    <3> DEFINE c == parts \o <<result>>
    <3>1. result \in Results1 /\ result \in Blocks1 /\ D = Messages("tool", c)
      BY <2>1, <2>8 DEF Blocks1
    <3>2. <<result>> \in Seq(Blocks1)
      BY <3>1
    <3> DEFINE one == <<result>>
    <3> HIDE DEF one
    <3>3. parts \in Lists(Blocks1) /\ one \in Lists(Blocks1) /\ OnlyResults \in Maps(Blocks1, Results1)
      BY <2>4, <3>2, ResultSequences DEF Lists, Maps, one
    <3>4. FlatMap(OnlyResults, parts \o one) = FlatMap(OnlyResults, parts) \o FlatMap(OnlyResults, one)
      BY <3>3, FlatMapConcat
    <3>5. FlatMap(OnlyResults, one) = <<result>>
      <4>1. OnlyResults[result] = <<result>>
        BY <3>1, Block1Kinds DEF OnlyResults
      <4>2. FlatMap(OnlyResults, <<result>>) = OnlyResults[result]
        BY <3>1, ResultSequences, FlatMapOne
      <4> QED BY <4>1, <4>2 DEF one
    <3>6. <<>> \o <<result>> = <<result>>
      OBVIOUS
    <3>7. c \in Seq(Blocks1)
      BY <2>4, <3>1
    <3>8. FlatMap(OnlyResults, c) = <<result>>
      BY <2>5, <3>4, <3>5, <3>6 DEF one
    <3> HIDE DEF c
    <3>9. FlatMap(ResultsIn1, D) = <<result>>
      BY <2>1, <3>1, <3>7, <3>8, MessagesResults
    <3>10. FlatMap(AsGiven, <<result>>) = AsGiven[result]
      BY <3>1, ResultSequences, FlatMapOne
    <3>11. GivenBy(m) = AsGiven[result]
      BY <2>2, <2>3, <2>8, <3>1 DEF GivenBy, AsGiven
    <3> QED BY <3>9, <3>10, <3>11 DEF D
  <2> QED BY <1>1, <1>5, <2>6, <2>7, <2>8 DEF Roles
<1> QED BY <1>4, <1>5

\* The results of a request are those of the history, each as it is sent.
LEMMA ResultsCross ==
  ASSUME NEW p \in Protocols, NEW system \in Seq(Texts("text")), NEW h \in Seq(Histories(p))
  PROVE  LET rs == FlatMap(ResultsIn1, FlatMap(Decode(p), h))
         IN  /\ rs \in Seq(Results1)
             /\ ResultsIn(h) = FlatMap(AsGiven, rs)
             /\ ResultsIn(Unroled(p, system, h)) = FlatMap(AsSent, rs)
<1> DEFINE D == Decode(p)
           H == Histories(p)
           c == FlatMap(D, h)
           rs == FlatMap(ResultsIn1, c)
           s == SystemTexts(p, system, h)
           x == FlatMap(SystemMessages, s)
           y == FlatMap(Encode, c)
           u == Unroled(p, system, h)
           T == Give(SentMessages)
           G == [m \in H |-> GivenBy(m)]
           R1 == [m \in H |-> FlatMap(ResultsIn1, D[m])]
           K == [m \in Messages1 |-> FlatMap(AsSent, ResultsIn1[m])]
<1>1. D \in [H -> Seq(Messages1)] /\ c \in Seq(Messages1)
  BY DecodeType
<1>2. /\ s \in Seq(Texts("text")) /\ x \in Seq(SentMessages) /\ y \in Seq(SentMessages)
      /\ u \in Seq(SentMessages) /\ u = x \o y
      /\ SystemMessages \in [Texts("text") -> Seq(SentMessages)]
      /\ Encode \in [Messages1 -> Seq(SentMessages)]
  BY UnroledType DEF Unroled
<1>3. T \in [SentMessages -> Seq(GivenResults)]
  BY GiveSent
<1>4. rs \in Seq(Results1)
  BY <1>1, ResultSequences, FlatMapType
<1>5. ASSUME NEW m \in H PROVE G[m] = FlatMap(AsGiven, FlatMap(ResultsIn1, D[m]))
  BY AnthropicResults, OpenAIResults DEF Histories, Decode
<1> HIDE DEF D, H, s, T, G
<1>6. ASSUME NEW m \in H PROVE R1[m] \in Seq(Results1) /\ G[m] = FlatMap(AsGiven, R1[m])
  BY <1>1, <1>5, ResultSequences, FlatMapType
<1>7. ASSUME NEW m \in H PROVE G[m] \in Seq(GivenResults)
  <2>1. R1[m] \in Seq(Results1)
    BY <1>6
  <2> DEFINE r == R1[m]
  <2>2. r \in Seq(Results1) /\ G[m] = FlatMap(AsGiven, r)
    BY <1>6, <2>1
  <2> HIDE DEF r
  <2>3. FlatMap(AsGiven, r) \in Seq(GivenResults)
    BY <2>2, ResultSequences, FlatMapType
  <2> QED BY <2>2, <2>3
<1>8. G = [m \in H |-> G[m]] /\ R1 = [m \in H |-> R1[m]]
  BY DEF G
<1>9. ASSUME NEW m \in Messages1
      PROVE  K[m] \in Seq(GivenResults) /\ K[m] = FlatMap(T, Encode[m]) /\ K[m] = FlatMap(AsSent, ResultsIn1[m])
  <2>1. ResultsIn1[m] \in Seq(Results1)
    BY ResultSequences
  <2>2. FlatMap(AsSent, ResultsIn1[m]) \in Seq(GivenResults)
    <3> DEFINE r == ResultsIn1[m]
    <3> HIDE DEF r
    <3>1. r \in Seq(Results1)
      BY <2>1 DEF r
    <3>2. FlatMap(AsSent, r) \in Seq(GivenResults)
      BY <3>1, ResultSequences, FlatMapType
    <3> QED BY <3>2 DEF r
  <2> QED BY <2>2, EncodedResults DEF T
<1> HIDE DEF R1, K
<1>10. G \in Maps(H, GivenResults) /\ R1 \in Maps(H, Results1) /\ D \in Maps(H, Messages1) /\ h \in Lists(H)
  BY <1>1, <1>6, <1>7, <1>8 DEF Maps, Lists, H
<1>11. /\ AsGiven \in Maps(Results1, GivenResults) /\ AsSent \in Maps(Results1, GivenResults)
       /\ ResultsIn1 \in Maps(Messages1, Results1) /\ Encode \in Maps(Messages1, SentMessages)
       /\ T \in Maps(SentMessages, GivenResults)
  BY <1>2, <1>3, ResultSequences DEF Maps
<1>12. K \in Maps(Messages1, GivenResults)
  BY <1>9 DEF K, Maps
<1>13. ResultsIn(h) = FlatMap(AsGiven, rs)
  BY <1>10, <1>11, <1>6, FlatMapTwice, ResultsInIs DEF R1, H, Give, G
<1>14. FlatMap(T, y) = FlatMap(AsSent, rs)
  BY <1>1, <1>9, <1>11, <1>12, FlatMapTwice DEF Lists
<1>15. FlatMap(T, x) = <<>>
  <2> DEFINE X == Texts("text")
             k == [b \in X |-> FlatMap(T, SystemMessages[b])]
  <2>1. ASSUME NEW b \in X PROVE FlatMap(T, SystemMessages[b]) = <<>>
    <3> DEFINE m == ChatMessage("system", <<b>>, <<>>, Empty)
    <3>1. SystemMessages[b] = <<m>> /\ SystemMessages[b] \in Seq(SentMessages) /\ m.role = "system"
      BY <1>2 DEF SystemMessages, ChatMessage
    <3> HIDE DEF m
    <3>2. m \in SentMessages
      BY <3>1
    <3>3. m \in OwnMessages
      BY <3>1, <3>2 DEF SentMessages, ToolMessages
    <3>4. T[m] = <<>>
      BY <3>2, <3>3, GiveSent DEF T, Give
    <3>5. FlatMap(T, <<m>>) = T[m]
      BY <1>3, <3>2, FlatMapOne
    <3> QED BY <3>1, <3>4, <3>5
  <2>2. <<>> \in Seq(GivenResults)
    OBVIOUS
  <2>3. k \in [X -> Seq(GivenResults)] /\ \A b \in X : k[b] = <<>>
    BY <2>1, <2>2
  <2>4. \A b \in X : k[b] = FlatMap(T, SystemMessages[b])
    OBVIOUS
  <2>5. s \in Seq(X) /\ SystemMessages \in [X -> Seq(SentMessages)]
    BY <1>2
  <2> HIDE DEF k, X
  <2>6. k \in Maps(X, GivenResults) /\ SystemMessages \in Maps(X, SentMessages) /\ s \in Lists(X)
    BY <2>3, <2>5 DEF Maps, Lists
  <2>7. FlatMap(T, FlatMap(SystemMessages, s)) = FlatMap(k, s)
    BY <1>11, <2>4, <2>6, FlatMapTwice
  <2>8. FlatMap(k, s) = <<>>
    BY <2>5, <2>3, FlatMapEmpty
  <2> QED BY <2>7, <2>8
<1>16. ResultsIn(u) = FlatMap(AsSent, rs)
  <2> HIDE DEF x, y, u, rs
  <2>1. ResultsIn(u) = FlatMap(T, u)
    BY <1>2, ResultsInIs DEF T
  <2>2. x \in Lists(SentMessages) /\ y \in Lists(SentMessages)
    BY <1>2 DEF Lists
  <2>3. FlatMap(T, x \o y) = FlatMap(T, x) \o FlatMap(T, y)
    BY <1>11, <2>2, FlatMapConcat
  <2>4. FlatMap(T, y) \in Seq(GivenResults)
    BY <1>2, <1>3, FlatMapType
  <2> DEFINE v == FlatMap(T, y)
  <2> HIDE DEF v
  <2>5. <<>> \o v = v
    BY <2>4 DEF v
  <2> QED BY <1>2, <1>14, <1>15, <2>1, <2>3, <2>5 DEF v
<1> QED BY <1>4, <1>13, <1>16 DEF rs, c, D, u

LEMMA ReRoleResults ==
  ASSUME NEW ms \in Seq(SentMessages)
  PROVE  ResultsIn(ReRole(ms)) = ResultsIn(ms)
<1> DEFINE T == Give(SentMessages)
           x == ReRole(ms)
<1>1. /\ x \in Seq(SentMessages) /\ DOMAIN x = DOMAIN ms
      /\ \A i \in DOMAIN ms : /\ x[i].content = ms[i].content
                              /\ x[i].tool_call_id = ms[i].tool_call_id
                              /\ \/ x[i].role = ms[i].role
                                 \/ x[i].role = "user" /\ ms[i].role = "assistant"
  BY ReRoleType
<1> HIDE DEF x
<1>2. ASSUME NEW i \in DOMAIN ms PROVE T[x[i]] = T[ms[i]]
  <2>1. x[i] \in SentMessages /\ ms[i] \in SentMessages
    BY <1>1
  <2>2. x[i].role = "tool" <=> ms[i].role = "tool"
    BY <1>1
  <2> QED BY <1>1, <2>1, <2>2 DEF Give, GivenBy
<1>3. FlatMap(T, x) = FlatMap(T, ms)
  BY <1>1, <1>2, FlatMapPointwise
<1>4. ResultsIn(x) = FlatMap(T, x) /\ ResultsIn(ms) = FlatMap(T, ms)
  BY <1>1, ResultsInIs
<1> QED BY <1>3, <1>4 DEF x

LEMMA NewHead ==
  ASSUME NEW S, NEW s \in Seq(S), s # <<>>, NEW t, NEW a, DOMAIN t = DOMAIN s,
         t = [i \in DOMAIN s |-> t[i]], t[1] = a, \A i \in DOMAIN s : i # 1 => t[i] = s[i]
  PROVE  t = <<a>> \o Tail(s)
<1> DEFINE n == Len(s)
           u == Tail(s)
           x == <<a>> \o u
<1>1. n \in Nat /\ n # 0 /\ DOMAIN s = 1..n
  OBVIOUS
<1>2. u \in Seq(S) /\ Len(u) = n - 1 /\ \A i \in 1..(n - 1) : u[i] = s[i + 1]
  OBVIOUS
<1> HIDE DEF u, n
<1>3. x = [i \in 1..n |-> IF i = 1 THEN a ELSE u[i - 1]]
  BY <1>1, <1>2
<1>4. \A i \in 1..n : t[i] = IF i = 1 THEN a ELSE u[i - 1]
  <2>1. ASSUME NEW i \in 1..n, i # 1 PROVE t[i] = u[i - 1]
    <3> DEFINE j == i - 1
    <3>1. j \in 1..(n - 1) /\ j + 1 = i
      BY <1>1, <2>1
    <3> HIDE DEF j
    <3>2. u[j] = s[j + 1]
      BY <1>2, <3>1
    <3>3. u[j] = s[i] /\ t[i] = s[i]
      BY <1>1, <2>1, <3>1, <3>2
    <3> QED BY <3>3 DEF j
  <2> QED BY <2>1
<1>5. t = [i \in 1..n |-> t[i]]
  BY <1>1
<1> HIDE DEF x
<1>6. t = x
  BY <1>3, <1>4, <1>5
<1> QED BY <1>6 DEF x, u

\* The words of a result that is no error stay; those of one that is say so.
LEMMA ResultWords ==
  ASSUME NEW r \in Results1
  PROVE  LET words == FlatMap(Send, r.val.content)
             sentWords == FlatMap(Send, EncodeToolResultContent(r.val))
         IN  /\ r.val.is_error => AsError(sentWords, words)
             /\ ~r.val.is_error => sentWords = words
<1> DEFINE words == FlatMap(Send, r.val.content)
           c == EncodeToolResultContent(r.val)
           sentWords == FlatMap(Send, c)
           parts == FlatMap(EncodeParts, r.val.content)
           mark == Block("text", Empty, <<ErrorMark>>)
           P == SentParts \cup Errors
           f == [b \in P |-> b.val]
<1>1. /\ parts \in Seq(SentParts) /\ c \in Seq(P)
      /\ ~r.val.is_error => c = parts
      /\ r.val.is_error => \/ c = <<mark>> \o parts
                           \/ /\ parts # <<>> /\ parts[1].type = "text"
                              /\ c = [parts EXCEPT ![1].val = <<ErrorMark>> \o @]
  BY ResultContent
<1>2. FlatMap(Send, parts) = words
  BY PartsSend DEF Results1, Blocks1
<1>3. P \subseteq AllBlocks
  BY DEF AllBlocks
<1>4. \A b \in P : Send[b] = <<f[b]>>
  BY <1>3 DEF SentParts, Errors, Texts, Images, Send
<1>5. mark \in Errors
  BY DEF Errors, Block
<1>6. mark.val = <<ErrorMark>>
  BY DEF Block
<1> HIDE DEF c, parts, mark, words
<1>7. parts \in Seq(P)
  BY <1>1
<1>8. words \in Seq(Words)
  BY <1>3, <1>7, <1>2, SendableIs
<1>9. CASE ~r.val.is_error
  BY <1>1, <1>2, <1>9 DEF c, words
<1>10. CASE r.val.is_error /\ c = <<mark>> \o parts
  <2> DEFINE m == <<mark>>
  <2>1. m \in Seq(AllBlocks)
    BY <1>3, <1>5
  <2>2. parts \in Seq(AllBlocks)
    BY <1>3, <1>7
  <2>3. FlatMap(Send, m) = <<<<ErrorMark>>>>
    BY <1>3, <1>4, <1>5, <1>6, SendOne
  <2> HIDE DEF m
  <2>4. m \in Lists(AllBlocks) /\ parts \in Lists(AllBlocks) /\ Send \in Maps(AllBlocks, Words)
    BY <2>1, <2>2, SendType DEF Lists, Maps, Send
  <2>5. FlatMap(Send, m \o parts) = FlatMap(Send, m) \o FlatMap(Send, parts)
    BY <2>4, FlatMapConcat
  <2>6. sentWords = <<<<ErrorMark>>>> \o words
    BY <1>2, <1>10, <2>3, <2>5 DEF m
  <2> QED BY <1>10, <2>6 DEF AsError, c, words
<1>11. CASE r.val.is_error /\ parts # <<>> /\ parts[1].type = "text"
            /\ c = [parts EXCEPT ![1].val = <<ErrorMark>> \o @]
  <2>1. FlatMap(Send, parts) = [i \in DOMAIN parts |-> f[parts[i]]]
    <3>1. \A i \in DOMAIN parts : parts[i] \in P
      BY <1>7
    <3>2. \A i \in DOMAIN parts : Send[parts[i]] = <<f[parts[i]]>>
      BY <1>4, <3>1
    <3> HIDE DEF f, P
    <3> QED BY <1>7, <3>2, FlatMapEach
  <2>2. FlatMap(Send, c) = [i \in DOMAIN c |-> f[c[i]]]
    <3>1. \A i \in DOMAIN c : c[i] \in P
      BY <1>1
    <3>2. \A i \in DOMAIN c : Send[c[i]] = <<f[c[i]]>>
      BY <1>4, <3>1
    <3>3. c \in Seq(P)
      BY <1>1
    <3> HIDE DEF f, P
    <3> QED BY <3>2, <3>3, FlatMapEach
  <2>3. 1 \in DOMAIN parts /\ parts[1] \in P /\ \A i \in DOMAIN parts : parts[i] \in P
    BY <1>7, <1>11
  <2>4. DOMAIN c = DOMAIN parts /\ \A i \in DOMAIN parts : i # 1 => c[i] = parts[i]
    BY <1>11, <2>3
  <2>5. c[1] = [parts[1] EXCEPT !.val = <<ErrorMark>> \o @]
    BY <1>11, <2>3
  <2>6. c[1].val = <<ErrorMark>> \o parts[1].val
    <3> DEFINE b == parts[1]
    <3>1. b \in Texts("text") \cup Errors
      BY <1>11, <2>3 DEF SentParts, Images
    <3> HIDE DEF b
    <3>2. [b EXCEPT !.val = <<ErrorMark>> \o @].val = <<ErrorMark>> \o b.val
      BY <3>1 DEF Texts, Errors
    <3> QED BY <2>5, <3>2 DEF b
  <2>7. c[1] \in P
    BY <1>1, <2>3, <2>4
  <2> DEFINE w == words
             t == sentWords
             a == <<ErrorMark>> \o Head(w)
  <2>8. w = [i \in DOMAIN parts |-> f[parts[i]]] /\ t = [i \in DOMAIN parts |-> f[c[i]]]
    BY <1>2, <2>1, <2>2, <2>4
  <2>9. DOMAIN w = DOMAIN parts /\ w # <<>> /\ Head(w) = w[1] /\ w[1] = parts[1].val
    BY <2>3, <2>8
  <2>10. t[1] = a
    BY <2>3, <2>8, <2>7, <2>6
  <2>11. \A i \in DOMAIN w : i # 1 => t[i] = w[i]
    BY <2>4, <2>8
  <2>12. DOMAIN t = DOMAIN w /\ t = [i \in DOMAIN w |-> t[i]]
    BY <2>8, <2>9
  <2> HIDE DEF t, a, w, f
  <2>13. w \in Seq(Words)
    BY <1>8 DEF w
  <2>14. t = <<a>> \o Tail(w)
    BY <2>9, <2>10, <2>11, <2>12, <2>13, NewHead
  <2>15. AsError(t, w)
    BY <2>9, <2>14 DEF AsError, a
  <2> QED BY <1>11, <2>15 DEF t, w, words, c
<1> QED BY <1>1, <1>9, <1>10, <1>11

LEMMA ResultsPass ==
  ASSUME NEW rs \in Seq(Results1)
  PROVE  LET given == FlatMap(AsGiven, rs)
             passed == FlatMap(AsSent, rs)
         IN  /\ Len(passed) = Len(given)
             /\ \A i \in DOMAIN given :
                  /\ passed[i].id = given[i].id
                  /\ IF given[i].is_error THEN AsError(passed[i].words, given[i].words)
                     ELSE passed[i].words = given[i].words
<1> DEFINE g == [r \in Results1 |->
                   [id |-> r.id, words |-> FlatMap(Send, r.val.content), is_error |-> r.val.is_error]]
           s == [r \in Results1 |->
                   [id |-> r.id, words |-> FlatMap(Send, EncodeToolResultContent(r.val)), is_error |-> FALSE]]
           n == Len(rs)
<1>1. n \in Nat /\ DOMAIN rs = 1..n /\ \A i \in 1..n : rs[i] \in Results1
  OBVIOUS
<1>2. \A r \in Results1 : AsGiven[r] = <<g[r]>> /\ AsSent[r] = <<s[r]>>
  BY DEF AsGiven, AsSent
<1>3. ASSUME NEW r \in Results1
      PROVE  /\ s[r].id = g[r].id
             /\ IF g[r].is_error THEN AsError(s[r].words, g[r].words) ELSE s[r].words = g[r].words
  <2> DEFINE w == FlatMap(Send, r.val.content)
             v == FlatMap(Send, EncodeToolResultContent(r.val))
  <2>1. /\ r.val.is_error => AsError(v, w)
        /\ ~r.val.is_error => v = w
    BY ResultWords
  <2>2. /\ g[r].id = r.id /\ g[r].words = w /\ g[r].is_error = r.val.is_error
        /\ s[r].id = r.id /\ s[r].words = v
    OBVIOUS
  <2> HIDE DEF g, s, v, w
  <2> QED BY <2>1, <2>2
<1> HIDE DEF g, s, n
<1>4. FlatMap(AsGiven, rs) = [i \in 1..n |-> g[rs[i]]]
  BY <1>1, <1>2, FlatMapEach
<1>5. FlatMap(AsSent, rs) = [i \in 1..n |-> s[rs[i]]]
  BY <1>1, <1>2, FlatMapEach
<1> DEFINE x == FlatMap(AsGiven, rs)
           y == FlatMap(AsSent, rs)
<1>6. x = [i \in 1..n |-> g[rs[i]]] /\ y = [i \in 1..n |-> s[rs[i]]]
  BY <1>4, <1>5
<1> HIDE DEF x, y
<1>7. Len(x) = n /\ Len(y) = n /\ DOMAIN x = 1..n /\ \A i \in 1..n : x[i] = g[rs[i]] /\ y[i] = s[rs[i]]
  BY <1>1, <1>6
<1>8. \A i \in DOMAIN x :
        /\ y[i].id = x[i].id
        /\ IF x[i].is_error THEN AsError(y[i].words, x[i].words) ELSE y[i].words = x[i].words
  BY <1>1, <1>3, <1>7
<1> QED BY <1>7, <1>8 DEF x, y

(* --------------------------- nothing is lost ----------------------------- *)

LEMMA ForwardLosesNothing ==
  ASSUME TypeOK, Forward
  PROVE  /\ Vals(Told(sent'.messages, Spoken)) = Vals(Told(history, Spoken))
         /\ Vals(Told(sent'.messages, {"system"})) =
              Sendable(asked'.system) \o Vals(Told(history, {"system"}))
         /\ Len(ResultsIn(sent'.messages)) = Len(ResultsIn(history))
         /\ \A i \in DOMAIN ResultsIn(history) :
              /\ ResultsIn(sent'.messages)[i].id = ResultsIn(history)[i].id
              /\ IF ResultsIn(history)[i].is_error
                 THEN AsError(ResultsIn(sent'.messages)[i].words, ResultsIn(history)[i].words)
                 ELSE ResultsIn(sent'.messages)[i].words = ResultsIn(history)[i].words
<1> DEFINE u == Unroled(protocol, asked'.system, history)
           ms == sent'.messages
           rs == FlatMap(ResultsIn1, FlatMap(Decode(protocol), history))
<1>1. /\ protocol \in Protocols /\ history \in Seq(Histories(protocol))
      /\ asked' \in Requests /\ ms = ReRole(u)
      /\ protocol = "openai" => asked'.system = <<>>
  BY ForwardSends
<1>2. asked'.system \in Seq(Texts("text"))
  BY <1>1 DEF Requests
<1>3. u \in Seq(SentMessages)
  BY <1>1, <1>2, UnroledType
<1>4. Vals(Told(ms, Spoken)) = Vals(Told(history, Spoken))
  <2>1. "user" \in Spoken <=> "assistant" \in Spoken
    BY DEF Spoken
  <2>2. Vals(Told(ms, Spoken)) = Vals(Told(u, Spoken))
    BY <1>1, <1>3, <2>1, ReRoleSays
  <2>3. Told(u, Spoken) = Told(history, Spoken)
    BY <1>1, <1>2, UnroledTells
  <2> QED BY <2>2, <2>3
<1>5. Vals(Told(ms, {"system"})) = Sendable(asked'.system) \o Vals(Told(history, {"system"}))
  <2>1. Vals(Told(ms, {"system"})) = Vals(Told(u, {"system"}))
    BY <1>1, <1>3, ReRoleSays
  <2>2. Vals(Told(u, {"system"})) = Sendable(SystemTexts(protocol, asked'.system, history))
    BY <1>1, <1>2, UnroledTells
  <2>3. Sendable(SystemTexts(protocol, asked'.system, history))
          = Sendable(asked'.system) \o Vals(Told(history, {"system"}))
    BY <1>1, <1>2, SystemSays
  <2> QED BY <2>1, <2>2, <2>3
<1>6. rs \in Seq(Results1) /\ ResultsIn(history) = FlatMap(AsGiven, rs) /\ ResultsIn(ms) = FlatMap(AsSent, rs)
  <2>1. rs \in Seq(Results1) /\ ResultsIn(history) = FlatMap(AsGiven, rs) /\ ResultsIn(u) = FlatMap(AsSent, rs)
    BY <1>1, <1>2, ResultsCross
  <2>2. ResultsIn(ms) = ResultsIn(u)
    BY <1>1, <1>3, ReRoleResults
  <2> QED BY <2>1, <2>2
<1> HIDE DEF u, ms, rs
<1>7. /\ Len(ResultsIn(ms)) = Len(ResultsIn(history))
      /\ \A i \in DOMAIN ResultsIn(history) :
           /\ ResultsIn(ms)[i].id = ResultsIn(history)[i].id
           /\ IF ResultsIn(history)[i].is_error
              THEN AsError(ResultsIn(ms)[i].words, ResultsIn(history)[i].words)
              ELSE ResultsIn(ms)[i].words = ResultsIn(history)[i].words
  BY <1>6, ResultsPass
<1> QED BY <1>4, <1>5, <1>7 DEF ms

\* Everything said, instructed or given as a result is sent, once and in order
\* (NothingLost of Conversation.tla): however long the history, decoding it
\* (anthropic_decode.go, openai_decode.go) and encoding it for the upstream
\* (upstream.go) drops no text, no image that came with its data in base64 and no
\* result, and every result that is an error says so.
THEOREM NothingIsLost == Spec => []NothingLost
<1>1. Init => NothingLost
  BY DEF Init, NothingLost, IsSent
<1>2. ASSUME TypeOK, NothingLost, [Next]_vars PROVE NothingLost'
  <2>1. CASE UserSpeaks
    BY <2>1 DEF UserSpeaks, NothingLost, IsSent
  <2>2. CASE CallsReturn
    BY <2>2 DEF CallsReturn, NothingLost, IsSent
  <2>3. CASE Forward
    <3>1. history' = history
      BY <2>3 DEF Forward
    <3> QED BY <1>2, <2>3, <3>1, ForwardLosesNothing DEF NothingLost
  <2>4. CASE Answer
    BY <2>4 DEF Answer, NothingLost, IsSent
  <2>5. CASE Done \/ UNCHANGED vars
    BY <1>2, <2>5 DEF Done, vars, NothingLost, IsSent
  <2> QED BY <1>2, <2>1, <2>2, <2>3, <2>4, <2>5 DEF Next
<1> QED BY <1>1, <1>2, ConversationTypes, PTL DEF Spec

(* -------------------------- who says what -------------------------------- *)

\* What the last message becomes: something if it has something to send, one
\* message if it is the assistant's, and the assistant's only then.
LEMMA LastEncoded ==
  ASSUME NEW p \in Protocols, NEW m \in Histories(p), m.role # "system",
         Sendable(m.content) # <<>> \/ GivenBy(m) # <<>>
  PROVE  LET e == FlatMap(Encode, Decode(p)[m])
         IN  /\ e \in Seq(SentMessages) /\ e # <<>>
             /\ FlatMap(Tell(SentMessages, Spoken), e) = Tell(Histories(p), Spoken)[m]
             /\ e[Len(e)].role = "assistant" => m.role = "assistant" /\ Len(e) = 1
<1> DEFINE d == Decode(p)[m]
           e == FlatMap(Encode, d)
           S == Tell(SentMessages, Spoken)
           C == Tell(Messages1, Spoken)
           w == FlatMap(Send, m.content)
<1>1. d \in Seq(Messages1) /\ Encode \in [Messages1 -> Seq(SentMessages)]
  BY DecodeType, EncodeType DEF Encode
<1>2. m.role \in Roles /\ m.content \in Seq(AllBlocks)
  BY AllReadable DEF Readable
<1>3. Sendable(m.content) = w /\ w \in Seq(Words)
  BY <1>2, SendableIs
<1>4. e \in Seq(SentMessages)
  BY <1>1, FlatMapType
<1>5. FlatMap(S, e) = Tell(Histories(p), Spoken)[m]
  <2>1. "tool" \notin Spoken
    BY DEF Spoken
  <2>2. S \in [SentMessages -> Seq(Tolds)] /\ C \in [Messages1 -> Seq(Tolds)]
    <3>1. <<>> \in Seq(SentMessages) /\ <<>> \in Seq(Messages1)
      OBVIOUS
    <3>2. S \in [SentMessages -> Seq(Tolds)]
      BY <3>1, AllReadable, ToldIs
    <3>3. C \in [Messages1 -> Seq(Tolds)]
      BY <3>1, AllReadable, ToldIs
    <3> QED BY <3>2, <3>3
  <2>3. \A c \in Messages1 : C[c] = FlatMap(S, Encode[c])
    BY <2>1, EncodedTells
  <2>4. FlatMap(C, d) = Tell(Histories(p), Spoken)[m]
    BY <2>1, DecodedTells
  <2> HIDE DEF S, C, d
  <2>5. S \in Maps(SentMessages, Tolds) /\ C \in Maps(Messages1, Tolds)
        /\ Encode \in Maps(Messages1, SentMessages) /\ d \in Lists(Messages1)
    BY <1>1, <2>2 DEF Maps, Lists
  <2>6. FlatMap(S, FlatMap(Encode, d)) = FlatMap(C, d)
    BY <2>3, <2>5, FlatMapTwice
  <2> QED BY <2>4, <2>6
<1>6. GivenBy(m) # <<>> => e # <<>>
  <2> SUFFICES ASSUME e = <<>> PROVE GivenBy(m) = <<>>
    OBVIOUS
  <2> DEFINE T == Give(SentMessages)
             K == [c \in Messages1 |-> FlatMap(AsSent, ResultsIn1[c])]
             rs == FlatMap(ResultsIn1, d)
  <2>1. GivenBy(m) = FlatMap(AsGiven, rs)
    BY AnthropicResults, OpenAIResults DEF Histories, Decode
  <2>2. rs \in Seq(Results1)
    BY <1>1, ResultSequences, FlatMapType
  <2>3. ASSUME NEW c \in Messages1
        PROVE  K[c] \in Seq(GivenResults) /\ K[c] = FlatMap(T, Encode[c]) /\ K[c] = FlatMap(AsSent, ResultsIn1[c])
    <3> DEFINE r == ResultsIn1[c]
    <3>1. r \in Seq(Results1)
      BY ResultSequences
    <3>2. K[c] = FlatMap(AsSent, r) /\ FlatMap(T, Encode[c]) = FlatMap(AsSent, r)
      BY EncodedResults
    <3> HIDE DEF r
    <3>3. FlatMap(AsSent, r) \in Seq(GivenResults)
      BY <3>1, ResultSequences, FlatMapType
    <3> QED BY <3>2, <3>3 DEF r
  <2>4. T \in [SentMessages -> Seq(GivenResults)]
    BY GiveSent
  <2>5. K = [c \in Messages1 |-> K[c]]
    OBVIOUS
  <2> HIDE DEF T, K, d
  <2>6. /\ K \in Maps(Messages1, GivenResults) /\ T \in Maps(SentMessages, GivenResults)
        /\ Encode \in Maps(Messages1, SentMessages) /\ ResultsIn1 \in Maps(Messages1, Results1)
        /\ AsSent \in Maps(Results1, GivenResults) /\ d \in Lists(Messages1)
    BY <1>1, <2>3, <2>4, <2>5, ResultSequences DEF Maps, Lists
  <2>7. FlatMap(T, FlatMap(Encode, d)) = FlatMap(K, d)
    BY <2>3, <2>6, FlatMapTwice
  <2>8. FlatMap(AsSent, rs) = FlatMap(K, d)
    BY <2>3, <2>6, FlatMapTwice
  <2>9. FlatMap(AsSent, rs) = <<>>
    BY <2>7, <2>8, FlatMapNone
  <2> HIDE DEF rs
  <2>10. Len(FlatMap(AsSent, rs)) = Len(FlatMap(AsGiven, rs))
    BY <2>2, ResultsPass
  <2>11. FlatMap(AsGiven, rs) \in Seq(GivenResults)
    BY <2>2, ResultSequences, FlatMapType
  <2> DEFINE x == FlatMap(AsGiven, rs)
  <2> HIDE DEF x
  <2>12. Len(x) = 0 /\ x \in Seq(GivenResults)
    BY <2>9, <2>10, <2>11 DEF x
  <2>13. x = <<>>
    BY <2>12
  <2> QED BY <2>1, <2>13 DEF x
<1>7. e # <<>>
  <2>1. CASE GivenBy(m) # <<>>
    BY <1>6, <2>1
  <2>2. CASE Sendable(m.content) # <<>> /\ m.role = "tool"
    BY <2>2, <1>6 DEF GivenBy
  <2>3. CASE Sendable(m.content) # <<>> /\ m.role # "tool"
    <3>1. m.role \in Spoken
      BY <1>2, <2>3 DEF Roles, Spoken
    <3>2. Tell(Histories(p), Spoken)[m] = Tagged(m.role, w)
      BY <3>1, TellOf
    <3>3. Tagged(m.role, w) = [i \in DOMAIN w |-> [role |-> m.role, val |-> w[i]]]
      BY <1>2, <1>3, TaggedType
    <3>4. Tagged(m.role, w) # <<>>
      <4>1. 1 \in DOMAIN w
        BY <1>3, <2>3
      <4> HIDE DEF w
      <4> QED BY <3>3, <4>1
    <3> HIDE DEF e, S, w
    <3>5. e # <<>>
      BY <1>5, <3>2, <3>4, FlatMapNone
    <3> QED BY <3>5
  <2> QED BY <2>1, <2>2, <2>3
<1>8. ASSUME NEW c \in Messages1, NEW x, x = Encode[c]
      PROVE  x \in Seq(SentMessages) /\ (x # <<>> /\ x[Len(x)].role = "assistant" => c.role = "assistant" /\ Len(x) = 1)
  <2> DEFINE parts == FlatMap(EncodeParts, c.content)
             calls == FlatMap(CallsOf, c.content)
             results == FlatMap(ResultsOf, c.content)
             own == ChatMessage(c.role, parts, calls, Empty)
  <2>1. /\ results \in Seq(ToolMessages)
        /\ c.role = "tool" => Encode[c] = results
        /\ c.role = "user" =>
             /\ parts = <<>> => Encode[c] = results
             /\ parts # <<>> => Encode[c] = results \o <<own>> /\ own \in OwnMessages
        /\ c.role = "assistant" =>
             /\ parts = <<>> /\ calls = <<>> => Encode[c] = <<>>
             /\ ~(parts = <<>> /\ calls = <<>>) => Encode[c] = <<own>> /\ own \in OwnMessages
    BY EncodeType
  <2>2. c.role \in {"user", "tool", "assistant"} /\ x \in Seq(SentMessages)
    BY <1>1, <1>8, Message1Kinds
  <2>3. own.role = c.role
    BY DEF ChatMessage
  <2> HIDE DEF parts, calls, results, own
  <2>4. results # <<>> => results[Len(results)].role = "tool"
    <3>1. results # <<>> => results[Len(results)] \in ToolMessages
      BY <2>1
    <3> QED BY <3>1 DEF ToolMessages
  <2>5. (results \o <<own>>)[Len(results \o <<own>>)] = own
    BY <2>1
  <2>6. Len(<<own>>) = 1 /\ <<own>>[1] = own
    OBVIOUS
  <2>7. CASE c.role = "assistant"
    BY <1>8, <2>1, <2>2, <2>6, <2>7
  <2>8. CASE c.role = "tool"
    BY <1>8, <2>1, <2>2, <2>4, <2>8
  <2>9. CASE c.role = "user"
    BY <1>8, <2>1, <2>2, <2>3, <2>4, <2>5, <2>9
  <2> QED BY <2>2, <2>7, <2>8, <2>9
<1>9. e[Len(e)].role = "assistant" => m.role = "assistant" /\ Len(e) = 1
  <2>1. d = <<>> \/ \E c \in Messages1 : d = <<c>> /\ c.role = m.role
    <3> DEFINE One(content) == d = Messages(m.role, content)
    <3>1. \E content : One(content)
      <4>1. CASE p = "anthropic"
        BY <4>1, DecodeAnthropicType DEF Decode, Histories
      <4>2. CASE p = "openai"
        <5> DEFINE parts == FlatMap(DecodeParts, m.content)
                   calls == FlatMap(DecodeCalls, m.tool_calls)
                   result == Block("tool_result", m.tool_call_id, [content |-> parts, is_error |-> FALSE])
        <5>1. /\ m.role = "user" => d = Messages("user", parts)
              /\ m.role = "tool" => d = Messages("tool", parts \o <<result>>)
              /\ m.role = "assistant" => d = Messages("assistant", m.thinking \o parts \o calls)
          BY <4>2, DecodeOpenAIType DEF Decode, Histories
        <5> HIDE DEF parts, calls, result, d
        <5> QED BY <1>2, <5>1 DEF Roles
      <4> QED BY <4>1, <4>2 DEF Protocols
    <3>2. PICK content : One(content)
      BY <3>1
    <3> DEFINE c == Message(m.role, content)
    <3>3. d = <<>> \/ d = <<c>>
      BY <3>2 DEF Messages
    <3>4. c.role = m.role
      BY DEF Message
    <3> HIDE DEF c, d
    <3>5. d = <<c>> => c \in Messages1
      BY <1>1
    <3> QED BY <3>3, <3>4, <3>5
  <2>2. CASE d = <<>>
    BY <1>7, <2>2, FlatMapNone
  <2>3. ASSUME NEW c \in Messages1, d = <<c>>, c.role = m.role
        PROVE  e[Len(e)].role = "assistant" => m.role = "assistant" /\ Len(e) = 1
    BY <1>1, <2>3, <1>7, <1>8, FlatMapOne
  <2> QED BY <2>1, <2>2, <2>3
<1> QED BY <1>4, <1>5, <1>7, <1>9

LEMMA GivenType ==
  ASSUME NEW p \in Protocols, NEW m \in Histories(p)
  PROVE  GivenBy(m) \in Seq(GivenResults) /\ ResultsIn(<<m>>) = GivenBy(m)
<1> DEFINE d == Decode(p)[m]
           rs == FlatMap(ResultsIn1, d)
<1>1. GivenBy(m) = FlatMap(AsGiven, rs)
  BY AnthropicResults, OpenAIResults DEF Histories, Decode
<1>2. d \in Seq(Messages1)
  BY DecodeType
<1> HIDE DEF d
<1>3. rs \in Seq(Results1)
  BY <1>2, ResultSequences, FlatMapType
<1> HIDE DEF rs
<1>4. FlatMap(AsGiven, rs) \in Seq(GivenResults)
  BY <1>3, ResultSequences, FlatMapType
<1> DEFINE x == GivenBy(m)
           M == {m}
           T == Give(M)
<1>5. x \in Seq(GivenResults)
  BY <1>1, <1>4
<1>6. T \in [M -> Seq(GivenResults)] /\ T[m] = x
  BY <1>5 DEF Give
<1>7. ResultsIn(<<m>>) = FlatMap(T, <<m>>)
  <2>1. <<m>> \in Seq(M)
    OBVIOUS
  <2> QED BY <2>1, ResultsInIs
<1>8. m \in M
  OBVIOUS
<1> HIDE DEF x, M, T
<1>9. FlatMap(T, <<m>>) = T[m]
  BY <1>6, <1>8, FlatMapOne
<1> QED BY <1>5, <1>6, <1>7, <1>9 DEF x

\* A sequence and its last element.
LEMMA LastApart ==
  ASSUME NEW A, NEW s \in Seq(A), s # <<>>
  PROVE  \E t \in Seq(A) : s = t \o <<s[Len(s)]>> /\ s = Append(t, s[Len(s)]) /\ s[Len(s)] \in A /\ Len(s) = Len(t) + 1
<1> DEFINE n == Len(s)
           t == SubSeq(s, 1, n - 1)
<1>1. n \in Nat /\ n # 0 /\ DOMAIN s = 1..n /\ s[n] \in A
  OBVIOUS
<1>2. t \in Seq(A) /\ Len(t) = n - 1 /\ \A i \in 1..(n - 1) : t[i] = s[i]
  BY <1>1
<1> DEFINE a == s[n]
<1> HIDE DEF t, n
<1>3. s = [i \in 1..n |-> s[i]]
  BY <1>1
<1>4. a \in A
  BY <1>1
<1> HIDE DEF a
<1> DEFINE q == Append(t, a)
<1>5. q \in Seq(A) /\ Len(q) = Len(t) + 1 /\ q[Len(t) + 1] = a /\ \A i \in 1..Len(t) : q[i] = t[i]
  BY <1>2, <1>4
<1> HIDE DEF q
<1>6. q = [i \in 1..n |-> q[i]] /\ \A i \in 1..n : s[i] = q[i]
  BY <1>1, <1>2, <1>5 DEF a
<1>7. s = Append(t, a)
  BY <1>3, <1>6 DEF q
<1>8. Append(t, a) = t \o <<a>>
  BY <1>2, <1>4
<1>9. s = t \o <<a>> /\ n = Len(t) + 1
  BY <1>1, <1>2, <1>7, <1>8
<1>10. \E r \in Seq(A) : s = r \o <<a>> /\ s = Append(r, a) /\ a \in A /\ n = Len(r) + 1
  BY <1>2, <1>4, <1>7, <1>9
<1> QED BY <1>10 DEF a, n

\* Joining lists is associative.
LEMMA ListsConcat ==
  ASSUME NEW B, NEW x \in Lists(B), NEW y \in Lists(B), NEW z \in Lists(B)
  PROVE  x \o (y \o z) = (x \o y) \o z
BY DEF Lists

\* Of the history h, every word before those of an answer that ends it is told
\* as its speaker's.
SpeakersStay(h, last, messages) ==
  LET told == Told(h, Spoken)
      kept == Len(told) - (IF last.role = "assistant" THEN Len(Sendable(last.content)) ELSE 0)
  IN  \A i \in 1..kept : Told(messages, Spoken)[i] = told[i]

\* Whatever ReRole changes, it keeps the speaker of every word told before the
\* words of the last message.
LEMMA SpeakersKept ==
  ASSUME NEW p \in Protocols, NEW system \in Seq(Texts("text")), NEW h \in Seq(Histories(p)), h # <<>>,
         NEW last, last = h[Len(h)], last.role # "system",
         Sendable(last.content) # <<>> \/ ResultsIn(<<last>>) # <<>>
  PROVE  SpeakersStay(h, last, ReRole(Unroled(p, system, h)))
<1> DEFINE H == Histories(p)
           D == Decode(p)
           u == Unroled(p, system, h)
           T == Tell(SentMessages, Spoken)
           told == Told(h, Spoken)
           e == FlatMap(Encode, D[last])
<1>1. u \in Seq(SentMessages) /\ Told(u, Spoken) = told
  BY UnroledType, UnroledTells
<1>2. last \in H
  OBVIOUS
<1>3. /\ e \in Seq(SentMessages) /\ e # <<>>
      /\ FlatMap(T, e) = Tell(H, Spoken)[last]
      /\ e[Len(e)].role = "assistant" => last.role = "assistant" /\ Len(e) = 1
  BY <1>2, LastEncoded, GivenType
<1>4. T \in [SentMessages -> Seq(Tolds)]
  <2>1. <<>> \in Seq(SentMessages)
    OBVIOUS
  <2> QED BY <2>1, AllReadable, ToldIs
<1>5. PICK z \in Seq(SentMessages) : u = z \o e
  <2> DEFINE s == SystemTexts(p, system, h)
             x == FlatMap(SystemMessages, s)
             c == FlatMap(D, h)
  <2>1. x \in Seq(SentMessages) /\ Encode \in [Messages1 -> Seq(SentMessages)] /\ u = x \o FlatMap(Encode, c)
    BY UnroledType DEF Unroled
  <2>2. D \in [H -> Seq(Messages1)]
    BY DecodeType
  <2>3. PICK g \in Seq(H) : h = Append(g, last)
    BY LastApart
  <2> HIDE DEF H, D, x
  <2>4. c = FlatMap(D, g) \o D[last]
    BY <1>2, <2>2, <2>3, FlatMapAppend
  <2> DEFINE a == FlatMap(D, g)
             b == D[last]
  <2>5. a \in Seq(Messages1) /\ b \in Seq(Messages1)
    BY <1>2, <2>2, FlatMapType
  <2> HIDE DEF a, b
  <2>6. FlatMap(Encode, a \o b) = FlatMap(Encode, a) \o FlatMap(Encode, b)
    <3>1. Encode \in Maps(Messages1, SentMessages) /\ a \in Lists(Messages1) /\ b \in Lists(Messages1)
      BY <2>1, <2>5 DEF Maps, Lists
    <3> QED BY <3>1, FlatMapConcat
  <2> DEFINE f == FlatMap(Encode, a)
             k == FlatMap(Encode, b)
  <2>7. f \in Seq(SentMessages) /\ k \in Seq(SentMessages)
    BY <2>1, <2>5, FlatMapType
  <2>8. u = x \o (f \o k)
    BY <2>1, <2>4, <2>6 DEF a, b
  <2>9. k = e
    BY DEF b, D
  <2> HIDE DEF f, k, e, u
  <2>10. x \o (f \o k) = (x \o f) \o k
    <3>1. x \in Lists(SentMessages) /\ f \in Lists(SentMessages) /\ k \in Lists(SentMessages)
      BY <2>1, <2>7 DEF Lists
    <3> QED BY <3>1, ListsConcat
  <2>11. x \o f \in Seq(SentMessages)
    BY <2>1, <2>7
  <2> QED BY <2>8, <2>9, <2>10, <2>11
<1>6. told \in Seq(Tolds)
  <2>1. FlatMap(T, u) \in Seq(Tolds) /\ Told(u, Spoken) = FlatMap(T, u)
    BY <1>1, AllReadable, ToldIs
  <2> HIDE DEF u, told
  <2> QED BY <1>1, <2>1
<1> DEFINE w == Sendable(last.content)
           kept == Len(told) - (IF last.role = "assistant" THEN Len(w) ELSE 0)
           m == u[Len(u)]
<1>7. w \in Seq(Words) /\ w = FlatMap(Send, last.content) /\ last.role \in Roles
  BY <1>2, AllReadable, SendableIs DEF Readable
<1>8. Len(u) = Len(z) + Len(e) /\ m = e[Len(e)] /\ u # <<>> /\ m \in SentMessages
  BY <1>3, <1>5
<1>9. CASE ~(m.role = "assistant" /\ m.tool_calls = <<>>)
  <2>1. ReRole(u) = u
    BY <1>1, <1>9 DEF ReRole
  <2> HIDE DEF u
  <2> QED BY <1>1, <2>1 DEF u, SpeakersStay
<1>10. CASE m.role = "assistant" /\ m.tool_calls = <<>>
  <2>1. last.role = "assistant" /\ Len(e) = 1
    BY <1>3, <1>8, <1>10
  <2>2. e = <<m>> /\ u = Append(z, m)
    BY <1>3, <2>1, <1>5
  <2>3. FlatMap(T, e) = T[m]
    <3> HIDE DEF T, e, m
    <3>1. FlatMap(T, <<m>>) = T[m]
      BY <1>4, <1>8, FlatMapOne
    <3> QED BY <2>2, <3>1
  <2>4. Len(T[m]) = Len(w)
    <3>1. Tell(H, Spoken)[last] = Tagged(last.role, w)
      BY <1>2, <1>7, <2>1, TellOf DEF Spoken
    <3>2. Tagged(last.role, w) = [i \in DOMAIN w |-> [role |-> last.role, val |-> w[i]]]
      BY <1>7, TaggedType
    <3>3. Len([i \in DOMAIN w |-> [role |-> last.role, val |-> w[i]]]) = Len(w)
      OBVIOUS
    <3> HIDE DEF T, e, w, m
    <3> QED BY <1>3, <2>3, <3>1, <3>2, <3>3
  <2> DEFINE r == [m EXCEPT !.role = "user"]
             t == FlatMap(T, z)
  <2>5. ReRole(u) = Append(z, r)
    <3> HIDE DEF u, m
    <3>1. Len(u) = Len(z) + 1 /\ u[Len(u)] = m /\ \A i \in 1..Len(z) : u[i] = z[i]
      BY <2>2
    <3> DEFINE n == Len(z)
    <3>2. n \in Nat /\ Len(u) = n + 1 /\ DOMAIN u = 1..(n + 1)
      BY <1>1, <3>1
    <3>3. ReRole(u) = [i \in 1..(n + 1) |-> IF i = n + 1 THEN r ELSE u[i]]
      BY <1>10, <3>1, <3>2 DEF ReRole
    <3>4. Append(z, r) = [i \in 1..(n + 1) |-> IF i = n + 1 THEN r ELSE z[i]]
      BY <3>2
    <3> HIDE DEF r
    <3>5. \A i \in 1..(n + 1) : (IF i = n + 1 THEN r ELSE u[i]) = (IF i = n + 1 THEN r ELSE z[i])
      BY <3>1, <3>2
    <3> QED BY <3>3, <3>4, <3>5
  <2>6. ReRole(u) \in Seq(SentMessages)
    BY <1>1, ReRoleType
  <2>7. r \in SentMessages
    BY <2>5, <2>6
  <2> HIDE DEF T, u, m, r
  <2>8. t \in Seq(Tolds) /\ T[m] \in Seq(Tolds) /\ T[r] \in Seq(Tolds)
    BY <1>4, <1>8, <2>7, FlatMapType
  <2>9. told = t \o T[m]
    <3>1. told = FlatMap(T, u)
      BY <1>1, AllReadable, ToldIs DEF T
    <3>2. FlatMap(T, Append(z, m)) = t \o T[m]
      BY <1>4, <1>8, FlatMapAppend
    <3> QED BY <2>2, <3>1, <3>2
  <2>10. Told(ReRole(u), Spoken) = t \o T[r]
    <3>1. Told(ReRole(u), Spoken) = FlatMap(T, ReRole(u))
      BY <2>6, AllReadable, ToldIs DEF T
    <3>2. FlatMap(T, Append(z, r)) = t \o T[r]
      BY <1>4, <2>7, FlatMapAppend
    <3> QED BY <2>5, <3>1, <3>2
  <2> HIDE DEF t, told, w
  <2>11. kept = Len(t)
    <3>1. Len(told) = Len(t) + Len(T[m])
      BY <2>8, <2>9
    <3>2. Len(t) \in Nat /\ Len(T[m]) \in Nat
      BY <2>8
    <3> QED BY <2>1, <2>4, <3>1, <3>2
  <2>12. \A i \in 1..Len(t) : (t \o T[m])[i] = t[i] /\ (t \o T[r])[i] = t[i]
    BY <2>8
  <2> HIDE DEF kept
  <2>13. \A i \in 1..kept : Told(ReRole(u), Spoken)[i] = told[i]
    BY <2>9, <2>10, <2>11, <2>12
  <2> QED BY <2>13 DEF kept, told, w, u, SpeakersStay
<1> QED BY <1>9, <1>10

\* The last element of what is joined.
LEMMA LastJoined ==
  ASSUME NEW A, NEW x \in Seq(A), NEW y \in Seq(A), y # <<>>
  PROVE  x \o y # <<>> /\ (x \o y)[Len(x \o y)] = y[Len(y)]
OBVIOUS

\* What the gateway is given ends with the client's own words, or a tool's.
LastSpeaks == phase = "gateway" => history # <<>> /\ history[Len(history)].role # "system"

LEMMA SpeakRole ==
  ASSUME NEW role, NEW content
  PROVE  Speak(role, content).role = role /\ \A id : OpenAIMessage(role, content, id).role = role
BY DEF Speak, Message, OpenAIMessage

LEMMA UserSpeaksLast ==
  ASSUME TypeOK, UserSpeaks
  PROVE  history' # <<>> /\ history'[Len(history')].role # "system"
<1>1. protocol \in Protocols /\ history \in Seq(Histories(protocol))
  BY TypeOKIs
<1>2. PICK content \in Contents, prefill \in Prefills \cup {<<>>}, instruction \in Instructions \cup {<<>>} :
         /\ protocol = "anthropic" => instruction = <<>>
         /\ history' = history
              \o (IF instruction = <<>> THEN <<>> ELSE <<Speak("system", instruction)>>)
              \o <<Speak("user", content)>>
              \o (IF prefill = <<>> THEN <<>> ELSE <<Speak("assistant", prefill)>>)
  BY DEF UserSpeaks
<1>3. content \in Seq(UserBlocks) /\ prefill \in Seq(UserBlocks)
  BY ContentsType
<1>4. instruction \in Seq(Texts("text")) /\ instruction \in Seq(UserBlocks)
  BY ContentsType DEF UserBlocks
<1>5. protocol # "anthropic" => protocol = "openai"
  BY <1>1 DEF Protocols
<1> DEFINE H == Histories(protocol)
           s == Speak("system", instruction)
           u == Speak("user", content)
           a == Speak("assistant", prefill)
           x == IF instruction = <<>> THEN <<>> ELSE <<s>>
           y == <<u>>
           z == IF prefill = <<>> THEN <<>> ELSE <<a>>
<1> HIDE DEF H
<1>6. (instruction # <<>> => s \in H) /\ u \in H /\ a \in H
  BY <1>1, <1>2, <1>3, <1>4, <1>5, SpeakType DEF H
<1>7. u.role = "user" /\ a.role = "assistant"
  BY SpeakRole
<1>8. history' = history \o x \o y \o z
  BY <1>2
<1> HIDE DEF s, u, a
<1>9. x \in Seq(H) /\ y \in Seq(H) /\ y # <<>> /\ Len(y) = 1 /\ y[1] = u
  BY <1>6
<1>10. CASE prefill = <<>>
  <2>1. z = <<>>
    BY <1>10
  <2> HIDE DEF x, y, z
  <2>2. history \o x \in Seq(H)
    BY <1>1, <1>9 DEF H
  <2> DEFINE b == history \o x
             c == b \o y
  <2> HIDE DEF b
  <2>3. c # <<>> /\ c[Len(c)] = u
    BY <1>9, <2>2, LastJoined DEF b
  <2>4. c \o z = c
    BY <2>1
  <2>5. history' = c
    BY <1>8, <2>4 DEF b
  <2> HIDE DEF c
  <2> QED BY <1>7, <2>3, <2>5
<1>11. CASE prefill # <<>>
  <2>1. z \in Seq(H) /\ z # <<>> /\ Len(z) = 1 /\ z[1] = a
    BY <1>6, <1>11
  <2> HIDE DEF x, y, z
  <2>2. history \o x \in Seq(H)
    BY <1>1, <1>9 DEF H
  <2>3. history \o x \o y \in Seq(H)
    BY <1>9, <2>2
  <2> DEFINE b == history \o x \o y
             c == b \o z
  <2> HIDE DEF b
  <2>4. c # <<>> /\ c[Len(c)] = a
    BY <2>1, <2>3, LastJoined DEF b
  <2>5. history' = c
    BY <1>8 DEF b
  <2> HIDE DEF c
  <2> QED BY <1>7, <2>4, <2>5
<1> QED BY <1>10, <1>11

LEMMA CallsReturnLast ==
  ASSUME TypeOK, CallsReturn
  PROVE  history' # <<>> /\ history'[Len(history')].role # "system"
<1>1. protocol \in Protocols /\ history \in Seq(Histories(protocol))
  BY TypeOKIs
<1>2. PICK outcome \in Outcomes, before \in Contents \cup {<<>>}, after \in Contents \cup {<<>>} :
         history' = history \o Results(outcome, before, after)
  BY DEF CallsReturn
<1>3. before \in Seq(UserBlocks) /\ after \in Seq(UserBlocks)
  BY ContentsType
<1> DEFINE H == Histories(protocol)
           r == Results(outcome, before, after)
           n == Len(Pending)
<1>4. r \in Seq(H)
  BY <1>3, ResultsType
<1>5. n \in Nat \ {0} /\ DOMAIN Pending = 1..n
  BY DEF CallsReturn
<1> HIDE DEF n
<1>6. r # <<>> /\ r[Len(r)].role \in {"user", "tool"}
  <2>1. CASE protocol = "anthropic"
    <3> DEFINE m == Message("user", before \o [i \in DOMAIN Pending |-> Block("tool_result", Pending[i], outcome)] \o after)
    <3>1. r = <<m>>
      BY <2>1 DEF Results
    <3>2. m.role = "user"
      BY DEF Message
    <3> HIDE DEF m, r
    <3> QED BY <3>1, <3>2
  <2>2. CASE protocol = "openai"
    <3> DEFINE x == [i \in 1..n |-> OpenAIMessage("tool", outcome.content, Pending[i])]
               w == before \o after
               q == OpenAIMessage("user", w, Empty)
               y == IF w = <<>> THEN <<>> ELSE <<q>>
    <3>1. r = x \o y
      BY <1>5, <2>2 DEF Results
    <3>2. \A i \in 1..n : x[i].role = "tool"
      BY SpeakRole
    <3>3. q.role = "user"
      BY SpeakRole
    <3> DEFINE A == {x[i] : i \in 1..n} \cup {q}
    <3>4. x \in [1..n -> A]
      OBVIOUS
    <3>5. q \in A
      OBVIOUS
    <3> HIDE DEF x, q, A, w
    <3>6. x \in Seq(A) /\ Len(x) = n /\ x # <<>>
      BY <1>5, <3>4
    <3>7. CASE w = <<>>
      BY <3>6, <3>7, <3>2, <3>1
    <3>8. CASE w # <<>>
      BY <3>8, <3>1, <3>3
    <3> QED BY <3>7, <3>8
  <2> QED BY <1>1, <2>1, <2>2 DEF Protocols
<1> HIDE DEF H, r
<1>7. history \o r # <<>> /\ (history \o r)[Len(history \o r)] = r[Len(r)]
  BY <1>1, <1>4, <1>6, LastJoined DEF H
<1> QED BY <1>2, <1>6, <1>7 DEF r

LEMMA NextLastSpeaks ==
  ASSUME TypeOK, LastSpeaks, [Next]_vars
  PROVE  LastSpeaks'
BY UserSpeaksLast, CallsReturnLast DEF LastSpeaks, Forward, Answer, Done, vars, Next

LEMMA ForwardKeepsSpeakers ==
  ASSUME TypeOK, LastSpeaks, Forward
  PROVE  WordsKeepTheirSpeaker'
<1>1. /\ protocol \in Protocols /\ history \in Seq(Histories(protocol))
      /\ sent'.messages = ReRole(Unroled(protocol, asked'.system, history))
      /\ asked'.system \in Seq(Texts("text"))
  BY ForwardSends DEF Requests
<1>2. history' = history /\ history # <<>> /\ history[Len(history)].role # "system"
  BY DEF Forward, LastSpeaks
<1> DEFINE last == history[Len(history)]
           told == Told(history, Spoken)
           kept == Len(told) - (IF last.role = "assistant" THEN Len(Sendable(last.content)) ELSE 0)
<1>3. ASSUME Sendable(last.content) # <<>> \/ ResultsIn(<<last>>) # <<>>
      PROVE  \A i \in 1..kept : Told(sent'.messages, Spoken)[i] = told[i]
  <2>1. SpeakersStay(history, last, sent'.messages)
    BY <1>1, <1>2, <1>3, SpeakersKept
  <2> QED BY <2>1 DEF SpeakersStay
<1> QED BY <1>2, <1>3 DEF WordsKeepTheirSpeaker

\* Who said what (WordsKeepTheirSpeaker of Conversation.tla): the merging of
\* adjacent content, the messages made of tool results and the re-roled answer
\* (upstream.go:167) attribute no words but those of an answer that the client
\* itself begins to another than who said them.
THEOREM SpeakersKeepTheirWords == Spec => []WordsKeepTheirSpeaker
<1>1. Init => WordsKeepTheirSpeaker /\ LastSpeaks
  BY DEF Init, WordsKeepTheirSpeaker, LastSpeaks, IsSent
<1>2. ASSUME TypeOK, LastSpeaks, WordsKeepTheirSpeaker, [Next]_vars PROVE WordsKeepTheirSpeaker'
  BY <1>2, ForwardKeepsSpeakers DEF UserSpeaks, WordsKeepTheirSpeaker, IsSent, CallsReturn, Answer, Done,
     vars, Next
<1>3. TypeOK /\ LastSpeaks /\ [Next]_vars => LastSpeaks'
  BY NextLastSpeaks
<1> QED BY <1>1, <1>2, <1>3, ConversationTypes, PTL DEF Spec

(* ------------------------ results follow their calls --------------------- *)

\* What a message of a client becomes.
Through(p) == [m \in Histories(p) |-> FlatMap(Encode, Decode(p)[m])]

LEMMA ThroughType ==
  ASSUME NEW p \in Protocols
  PROVE  /\ Through(p) \in [Histories(p) -> Seq(SentMessages)]
         /\ \A h \in Seq(Histories(p)) : FlatMap(Encode, FlatMap(Decode(p), h)) = FlatMap(Through(p), h)
<1> DEFINE H == Histories(p)
           D == Decode(p)
<1>1. D \in [H -> Seq(Messages1)]
  BY DecodeType
<1>2. Encode \in [Messages1 -> Seq(SentMessages)]
  BY EncodeType DEF Encode
<1> HIDE DEF H, D
<1>3. \A m \in H : FlatMap(Encode, D[m]) \in Seq(SentMessages)
  BY <1>1, <1>2, FlatMapType
<1>4. Through(p) = [m \in H |-> FlatMap(Encode, D[m])]
  BY DEF Through, H, D
<1>5. Through(p) \in [H -> Seq(SentMessages)]
  BY <1>3, <1>4
<1> DEFINE t == Through(p)
<1>6. \A m \in H : t[m] = FlatMap(Encode, D[m])
  BY <1>4
<1> HIDE DEF t
<1>7. Encode \in Maps(Messages1, SentMessages) /\ D \in Maps(H, Messages1) /\ t \in Maps(H, SentMessages)
  BY <1>1, <1>2, <1>5 DEF Maps, t
<1>8. \A h \in Lists(H) : FlatMap(Encode, FlatMap(D, h)) = FlatMap(t, h)
  BY <1>6, <1>7, FlatMapTwice
<1> QED BY <1>5, <1>8 DEF Lists, H, D, t

\* The calls of a canonical message, as they are sent.
CallsFrom1 == [m \in Messages1 |-> FlatMap(CallsOf, m.content)]

\* A message is sent as its results, and behind them at most one message, with
\* its calls.
LEMMA EncodedShape ==
  ASSUME NEW m \in Messages1
  PROVE  \E r \in Seq(ToolMessages), w \in Seq(OwnMessages) :
           /\ Encode[m] = r \o w /\ Len(w) <= 1 /\ (m.role = "tool" => w = <<>>)
           /\ FlatMap(CallsIn, w) = CallsFrom1[m]
<1> DEFINE parts == FlatMap(EncodeParts, m.content)
           calls == FlatMap(CallsOf, m.content)
           results == FlatMap(ResultsOf, m.content)
           own == ChatMessage(m.role, parts, calls, Empty)
           none == <<>>
<1>1. /\ parts \in Seq(SentParts) /\ calls \in Seq(CallRecords) /\ results \in Seq(ToolMessages)
      /\ m.role = "tool" => Encode[m] = results
      /\ m.role = "user" => /\ parts = <<>> => Encode[m] = results
                            /\ parts # <<>> => Encode[m] = results \o <<own>> /\ own \in OwnMessages
      /\ m.role = "assistant" =>
           /\ parts = <<>> /\ calls = <<>> => Encode[m] = <<>>
           /\ ~(parts = <<>> /\ calls = <<>>) => Encode[m] = <<own>> /\ own \in OwnMessages
  BY EncodeType
<1>2. m.role \in {"user", "tool", "assistant"} /\ CallsFrom1[m] = calls
  BY Message1Kinds DEF CallsFrom1
<1>3. (m.role # "assistant" => calls = <<>>) /\ (m.role = "assistant" => results = <<>>)
  BY RolesOfBlocks
<1>4. own.tool_calls = calls
  BY DEF ChatMessage
<1> HIDE DEF parts, calls, results, own
<1>5. none \in Seq(OwnMessages) /\ Len(none) = 0 /\ FlatMap(CallsIn, none) = <<>> /\ none \in Seq(ToolMessages)
  BY FlatMapNone
<1> DEFINE one == <<own>>
<1>6. ASSUME own \in OwnMessages
      PROVE  one \in Seq(OwnMessages) /\ Len(one) = 1 /\ FlatMap(CallsIn, one) = calls
  BY <1>4, <1>6, SentKinds, FlatMapOne DEF CallsIn, SentMessages
<1>7. results \o none = results
  BY <1>1
<1>8. none \o one = one
  OBVIOUS
<1> HIDE DEF none, one
<1>9. CASE m.role = "tool" \/ (m.role = "user" /\ parts = <<>>)
  <2>1. Encode[m] = results \o none /\ Len(none) <= 1 /\ FlatMap(CallsIn, none) = CallsFrom1[m] /\ none = <<>>
    BY <1>1, <1>2, <1>3, <1>5, <1>7, <1>9 DEF none
  <2> QED BY <1>1, <1>5, <2>1
<1>10. CASE m.role = "user" /\ parts # <<>>
  <2>1. Encode[m] = results \o one /\ Len(one) <= 1 /\ FlatMap(CallsIn, one) = CallsFrom1[m]
    BY <1>1, <1>2, <1>6, <1>10 DEF one
  <2> QED BY <1>1, <1>6, <1>10, <2>1
<1>11. CASE m.role = "assistant" /\ parts = <<>> /\ calls = <<>>
  <2>1. Encode[m] = none /\ none \o none = none
    BY <1>1, <1>11 DEF none
  <2>2. Encode[m] = none \o none /\ Len(none) <= 1 /\ FlatMap(CallsIn, none) = CallsFrom1[m]
    BY <1>2, <1>5, <1>11, <2>1
  <2> QED BY <1>5, <1>11, <2>2
<1>12. CASE m.role = "assistant" /\ ~(parts = <<>> /\ calls = <<>>)
  <2>2. Encode[m] = one
    BY <1>1, <1>12 DEF one
  <2>1. Encode[m] = none \o one /\ Len(one) <= 1 /\ FlatMap(CallsIn, one) = CallsFrom1[m]
    BY <1>1, <1>2, <1>6, <1>8, <1>12, <2>2
  <2> QED BY <1>1, <1>5, <1>6, <1>12, <2>1
<1> QED BY <1>2, <1>9, <1>10, <1>11, <1>12

\* Each tool message tells its one result, the others none.
LEMMA ToolsTell ==
  ASSUME NEW r \in Seq(ToolMessages), NEW w \in Seq(OwnMessages)
  PROVE  LET told == FlatMap(Give(SentMessages), r \o w)
         IN  Len(told) = Len(r) /\ \A k \in DOMAIN r : told[k].id = r[k].tool_call_id
<1> DEFINE G == Give(SentMessages)
           f == [m \in ToolMessages |-> G[m][1]]
<1>1. G \in [SentMessages -> Seq(GivenResults)] /\ \A m \in OwnMessages : GivenBy(m) = <<>>
  BY GiveSent
<1>2. \A m \in SentMessages : G[m] = GivenBy(m)
  BY DEF Give
<1>3. ASSUME NEW m \in ToolMessages PROVE G[m] = <<f[m]>> /\ f[m].id = m.tool_call_id
  <2>1. m \in SentMessages /\ m.role = "tool"
    BY DEF SentMessages, ToolMessages
  <2>2. G[m] = <<[id |-> m.tool_call_id, words |-> Sendable(m.content), is_error |-> FALSE]>>
    BY <1>2, <2>1 DEF GivenBy
  <2> HIDE DEF G
  <2> QED BY <2>2
<1>4. r \in Seq(SentMessages) /\ w \in Seq(SentMessages)
  BY DEF SentMessages
<1> HIDE DEF G
<1>5. \A i \in DOMAIN r : r[i] \in ToolMessages
  OBVIOUS
<1>6. \A i \in DOMAIN w : G[w[i]] = <<>>
  BY <1>1, <1>2 DEF SentMessages
<1> HIDE DEF f
<1>7. FlatMap(G, r) = [i \in DOMAIN r |-> f[r[i]]]
  <2>1. \A i \in DOMAIN r : G[r[i]] = <<f[r[i]]>>
    BY <1>3, <1>5
  <2> QED BY <2>1, FlatMapEach
<1>8. FlatMap(G, w) = <<>>
  BY <1>6, FlatMapEmpty
<1>9. FlatMap(G, r \o w) = FlatMap(G, r) \o FlatMap(G, w)
  <2>1. G \in Maps(SentMessages, GivenResults) /\ r \in Lists(SentMessages) /\ w \in Lists(SentMessages)
    BY <1>1, <1>4 DEF Maps, Lists
  <2> QED BY <2>1, FlatMapConcat
<1>10. FlatMap(G, r) \in Seq(GivenResults)
  BY <1>1, <1>4, FlatMapType
<1> DEFINE q == FlatMap(G, r)
<1>11. FlatMap(G, r \o w) = q
  BY <1>8, <1>9 DEF q
<1> HIDE DEF q
<1>12. Len(q) = Len(r) /\ DOMAIN q = DOMAIN r /\ \A k \in DOMAIN r : q[k].id = r[k].tool_call_id
  BY <1>7, <1>3 DEF q
<1> QED BY <1>11, <1>12 DEF G

\* Of a message of a client, decoding makes one message or none.
LEMMA DecodedOne ==
  ASSUME NEW p \in Protocols, NEW m \in Histories(p)
  PROVE  \/ Decode(p)[m] = <<>>
         \/ \E c \in Messages1 : Decode(p)[m] = <<c>> /\ c.role = m.role
<1> DEFINE d == Decode(p)[m]
<1>1. d \in Seq(Messages1)
  BY DecodeType
<1>2. d = <<>> \/ \E content : d = Messages(m.role, content)
  <2>1. CASE p = "anthropic"
    BY <2>1, DecodeAnthropicType DEF Decode, Histories
  <2>2. CASE p = "openai"
    BY <2>2, OpenAIKinds, DecodeOpenAIType DEF Decode, Histories, DecodeOpenAI, Roles
  <2> QED BY <2>1, <2>2 DEF Protocols
<1> HIDE DEF d
<1>3. ASSUME d # <<>> PROVE \E c \in Messages1 : d = <<c>> /\ c.role = m.role
  <2>1. PICK content : d = Messages(m.role, content)
    BY <1>2, <1>3
  <2> DEFINE c == Message(m.role, content)
  <2>2. d = <<c>> /\ c.role = m.role
    BY <1>3, <2>1 DEF Messages, Message
  <2> HIDE DEF c
  <2>3. c \in Messages1
    BY <1>1, <2>2
  <2> QED BY <2>2, <2>3
<1> QED BY <1>3 DEF d

\* What the calls of a client's message are sent as.
GivenCalls(p, m) == FlatMap(CallsFrom1, Decode(p)[m])

LEMMA Shape ==
  ASSUME NEW p \in Protocols, NEW m \in Histories(p)
  PROVE  \E r \in Seq(ToolMessages), w \in Seq(OwnMessages) :
           /\ Through(p)[m] = r \o w /\ Len(w) <= 1 /\ (m.role = "tool" => w = <<>>)
           /\ FlatMap(CallsIn, w) = GivenCalls(p, m)
           /\ Len(r) = Len(GivenBy(m))
           /\ \A k \in DOMAIN r : r[k].tool_call_id = GivenBy(m)[k].id
<1> DEFINE d == Decode(p)[m]
           t == Through(p)[m]
           G == Give(SentMessages)
<1>1. d \in Seq(Messages1)
  BY DecodeType
<1>2. t = FlatMap(Encode, d)
  BY DEF Through
<1>3. Encode \in [Messages1 -> Seq(SentMessages)]
  BY EncodeType DEF Encode
<1>4. CallsFrom1 \in [Messages1 -> Seq(CallRecords)]
  <2>1. ASSUME NEW c \in Messages1 PROVE FlatMap(CallsOf, c.content) \in Seq(CallRecords)
    BY Message1Kinds, EncodeCallsEach
  <2> QED BY <2>1 DEF CallsFrom1
<1>5. \E r \in Seq(ToolMessages), w \in Seq(OwnMessages) :
         /\ t = r \o w /\ Len(w) <= 1 /\ (m.role = "tool" => w = <<>>)
         /\ FlatMap(CallsIn, w) = GivenCalls(p, m)
  <2>1. CASE d = <<>>
    <3> DEFINE none == <<>>
    <3>1. none \in Seq(ToolMessages) /\ none \in Seq(OwnMessages) /\ none \o none = none /\ Len(none) = 0
      OBVIOUS
    <3>2. FlatMap(CallsIn, none) = <<>> /\ t = none /\ GivenCalls(p, m) = <<>>
      BY <1>2, <2>1, FlatMapNone DEF GivenCalls
    <3>3. none = <<>>
      OBVIOUS
    <3> HIDE DEF none
    <3>4. t = none \o none /\ Len(none) <= 1 /\ FlatMap(CallsIn, none) = GivenCalls(p, m)
      BY <3>1, <3>2
    <3> QED BY <3>1, <3>3, <3>4
  <2>2. CASE \E c \in Messages1 : d = <<c>> /\ c.role = m.role
    <3>1. PICK c \in Messages1 : d = <<c>> /\ c.role = m.role
      BY <2>2
    <3>2. t = Encode[c]
      BY <1>3, <1>2, <3>1, FlatMapOne
    <3>3. GivenCalls(p, m) = CallsFrom1[c]
      BY <1>4, <3>1, FlatMapOne DEF GivenCalls
    <3> HIDE DEF t, d
    <3> QED BY <3>1, <3>2, <3>3, EncodedShape
  <2> QED BY <2>1, <2>2, DecodedOne
<1>6. PICK r \in Seq(ToolMessages), w \in Seq(OwnMessages) :
         /\ t = r \o w /\ Len(w) <= 1 /\ (m.role = "tool" => w = <<>>)
         /\ FlatMap(CallsIn, w) = GivenCalls(p, m)
  BY <1>5
<1> DEFINE rs == FlatMap(ResultsIn1, d)
<1>7. GivenBy(m) = FlatMap(AsGiven, rs)
  BY AnthropicResults, OpenAIResults DEF Histories, Decode
<1> HIDE DEF d
<1>8. FlatMap(G, t) = FlatMap(AsSent, rs)
  <2> DEFINE K == [c \in Messages1 |-> FlatMap(AsSent, ResultsIn1[c])]
             S == SentMessages
  <2>1. \A c \in Messages1 : K[c] = FlatMap(G, Encode[c]) /\ K[c] = FlatMap(AsSent, ResultsIn1[c])
    BY EncodedResults
  <2>2. \A c \in Messages1 : FlatMap(AsSent, ResultsIn1[c]) \in Seq(GivenResults)
    BY ResultSequences, FlatMapType
  <2>3. K \in Maps(Messages1, GivenResults)
    BY <2>2 DEF Maps
  <2> HIDE DEF K, S
  <2>4. /\ G \in Maps(S, GivenResults) /\ Encode \in Maps(Messages1, S) /\ d \in Lists(Messages1)
        /\ AsSent \in Maps(Results1, GivenResults) /\ ResultsIn1 \in Maps(Messages1, Results1)
    BY <1>1, <1>3, GiveSent, ResultSequences DEF Maps, Lists, S
  <2> HIDE DEF G
  <2>5. FlatMap(G, FlatMap(Encode, d)) = FlatMap(K, d)
    BY <2>1, <2>3, <2>4, FlatMapTwice
  <2>6. FlatMap(AsSent, FlatMap(ResultsIn1, d)) = FlatMap(K, d)
    BY <2>1, <2>3, <2>4, FlatMapTwice
  <2> QED BY <1>2, <2>5, <2>6
<1>9. rs \in Seq(Results1)
  BY <1>1, ResultSequences, FlatMapType
<1> HIDE DEF rs, t
<1>10. /\ Len(FlatMap(AsSent, rs)) = Len(FlatMap(AsGiven, rs))
       /\ \A k \in DOMAIN FlatMap(AsGiven, rs) : FlatMap(AsSent, rs)[k].id = FlatMap(AsGiven, rs)[k].id
  BY <1>9, ResultsPass
<1>11. Len(FlatMap(G, t)) = Len(r) /\ \A k \in DOMAIN r : FlatMap(G, t)[k].id = r[k].tool_call_id
  BY <1>6, ToolsTell
<1>12. GivenBy(m) \in Seq(GivenResults)
  BY GivenType
<1> DEFINE g == GivenBy(m)
           q == FlatMap(G, t)
<1>13. Len(q) = Len(g) /\ (\A k \in DOMAIN g : q[k].id = g[k].id) /\ g \in Seq(GivenResults)
  BY <1>7, <1>8, <1>10, <1>12
<1>14. Len(q) = Len(r) /\ \A k \in DOMAIN r : q[k].id = r[k].tool_call_id
  BY <1>11
<1> HIDE DEF q, g
<1>15. Len(r) = Len(g) /\ \A k \in DOMAIN r : r[k].tool_call_id = g[k].id
  <2>1. DOMAIN r = 1..Len(r) /\ DOMAIN g = 1..Len(g)
    BY <1>13
  <2> QED BY <1>13, <1>14, <2>1
<1> QED BY <1>6, <1>15 DEF g, t

OnlyTools == [m \in SentMessages |-> IF m.role = "tool" THEN <<m>> ELSE <<>>]

\* Every call is followed by its result, and there are no other results.
Answered(ms) ==
  /\ \A i \in DOMAIN ms : \A k \in DOMAIN ms[i].tool_calls :
       i + k \in DOMAIN ms /\ ms[i + k].tool_call_id = ms[i].tool_calls[k].id
  /\ Len(FlatMap(OnlyTools, ms)) = Len(FlatMap(CallsIn, ms))

LEMMA CountsAre ==
  /\ OnlyTools \in [SentMessages -> Seq(SentMessages)] /\ CallsIn \in [SentMessages -> Seq(CallRecords)]
  /\ \A m \in SentMessages : CallsIn[m] = m.tool_calls /\ m.tool_calls \in Seq(CallRecords)
  /\ \A m \in SentMessages : m.role = "tool" => m.tool_calls = <<>>
<1>1. \A m \in SentMessages : m.tool_calls \in Seq(CallRecords) /\ (m.role = "tool" => m.tool_calls = <<>>)
  BY SentKinds
<1>2. ASSUME NEW m \in SentMessages PROVE OnlyTools[m] \in Seq(SentMessages)
  <2>1. OnlyTools[m] = IF m.role = "tool" THEN <<m>> ELSE <<>>
    BY DEF OnlyTools
  <2> DEFINE S == SentMessages
  <2>2. m \in S
    OBVIOUS
  <2> HIDE DEF S
  <2>3. <<m>> \in Seq(S) /\ <<>> \in Seq(S)
    BY <2>2
  <2> QED BY <2>1, <2>3 DEF S
<1>3. OnlyTools \in [SentMessages -> Seq(SentMessages)]
  BY <1>2 DEF OnlyTools
<1>4. CallsIn \in [SentMessages -> Seq(CallRecords)]
  BY <1>1 DEF CallsIn
<1>5. \A m \in SentMessages : CallsIn[m] = m.tool_calls
  BY DEF CallsIn
<1> QED BY <1>1, <1>3, <1>4, <1>5

LEMMA CountsConcat ==
  ASSUME NEW s \in Seq(SentMessages), NEW t \in Seq(SentMessages)
  PROVE  /\ Len(FlatMap(OnlyTools, s \o t)) = Len(FlatMap(OnlyTools, s)) + Len(FlatMap(OnlyTools, t))
         /\ Len(FlatMap(CallsIn, s \o t)) = Len(FlatMap(CallsIn, s)) + Len(FlatMap(CallsIn, t))
         /\ Len(FlatMap(OnlyTools, s)) \in Nat /\ Len(FlatMap(OnlyTools, t)) \in Nat
         /\ Len(FlatMap(CallsIn, s)) \in Nat /\ Len(FlatMap(CallsIn, t)) \in Nat
<1> DEFINE S == SentMessages
<1>1. OnlyTools \in Maps(S, S) /\ CallsIn \in Maps(S, CallRecords) /\ s \in Lists(S) /\ t \in Lists(S)
  BY CountsAre DEF Maps, Lists
<1> HIDE DEF S
<1>2. /\ FlatMap(OnlyTools, s \o t) = FlatMap(OnlyTools, s) \o FlatMap(OnlyTools, t)
      /\ FlatMap(CallsIn, s \o t) = FlatMap(CallsIn, s) \o FlatMap(CallsIn, t)
  BY <1>1, FlatMapConcat
<1> DEFINE a == FlatMap(OnlyTools, s)
           b == FlatMap(OnlyTools, t)
           c == FlatMap(CallsIn, s)
           d == FlatMap(CallsIn, t)
<1>3. a \in Seq(S) /\ b \in Seq(S) /\ c \in Seq(CallRecords) /\ d \in Seq(CallRecords)
  BY <1>1, FlatMapType DEF Maps, Lists
<1> HIDE DEF a, b, c, d
<1>4. Len(a \o b) = Len(a) + Len(b) /\ Len(c \o d) = Len(c) + Len(d)
      /\ Len(a) \in Nat /\ Len(b) \in Nat /\ Len(c) \in Nat /\ Len(d) \in Nat
  BY <1>3
<1> QED BY <1>2, <1>4 DEF a, b, c, d

LEMMA AnsweredConcat ==
  ASSUME NEW s \in Seq(SentMessages), NEW t \in Seq(SentMessages), Answered(s), Answered(t)
  PROVE  Answered(s \o t)
<1> DEFINE q == s \o t
           n == Len(s)
           l == Len(t)
<1>1. n \in Nat /\ l \in Nat /\ DOMAIN s = 1..n /\ DOMAIN t = 1..l /\ DOMAIN q = 1..(n + l)
      /\ (\A i \in 1..n : q[i] = s[i]) /\ \A i \in 1..l : q[n + i] = t[i]
  OBVIOUS
<1>2. \A m \in SentMessages : m.tool_calls \in Seq(CallRecords)
  BY CountsAre
<1>3. (\A i \in 1..n : s[i].tool_calls \in Seq(CallRecords)) /\ \A i \in 1..l : t[i].tool_calls \in Seq(CallRecords)
  BY <1>1, <1>2
<1>4. /\ \A i \in 1..n : \A k \in DOMAIN s[i].tool_calls :
           i + k \in 1..n /\ s[i + k].tool_call_id = s[i].tool_calls[k].id
      /\ \A i \in 1..l : \A k \in DOMAIN t[i].tool_calls :
           i + k \in 1..l /\ t[i + k].tool_call_id = t[i].tool_calls[k].id
  BY <1>1 DEF Answered
<1> HIDE DEF q, n, l
<1>5. ASSUME NEW i \in 1..(n + l), NEW k \in DOMAIN q[i].tool_calls
      PROVE  i + k \in 1..(n + l) /\ q[i + k].tool_call_id = q[i].tool_calls[k].id
  <2>1. CASE i \in 1..n
    BY <1>1, <2>1, <1>4
  <2>2. CASE i \notin 1..n
    <3>0. PICK j \in 1..l : i = n + j
      BY <1>1, <2>2
    <3>1. q[i] = t[j] /\ k \in DOMAIN t[j].tool_calls
      BY <1>1, <1>5, <3>0
    <3>2. j + k \in 1..l /\ t[j + k].tool_call_id = t[j].tool_calls[k].id
      BY <1>4, <3>1
    <3>3. q[n + (j + k)] = t[j + k]
      BY <1>1, <3>2
    <3>4. k \in Nat
      BY <1>3, <3>1
    <3>5. i + k = n + (j + k) /\ i + k \in 1..(n + l)
      BY <1>1, <3>0, <3>2, <3>4
    <3> QED BY <3>1, <3>2, <3>3, <3>5
  <2> QED BY <2>1, <2>2
<1>6. Len(FlatMap(OnlyTools, q)) = Len(FlatMap(CallsIn, q))
  BY CountsConcat DEF Answered, q
<1> QED BY <1>1, <1>5, <1>6 DEF Answered, q

\* Messages that call nothing and are no results.
Calm == {m \in OwnMessages : m.tool_calls = <<>>}

LEMMA CalmAnswered ==
  ASSUME NEW s \in Seq(Calm)
  PROVE  s \in Seq(SentMessages) /\ Answered(s)
<1>1. \A i \in DOMAIN s : s[i] \in SentMessages /\ s[i].tool_calls = <<>> /\ s[i].role # "tool"
  BY DEF Calm, SentMessages, OwnMessages
<1>2. s \in Seq(SentMessages)
  BY DEF Calm, SentMessages
<1>3. \A i \in DOMAIN s : OnlyTools[s[i]] = <<>> /\ CallsIn[s[i]] = <<>>
  BY <1>1 DEF OnlyTools, CallsIn
<1>4. FlatMap(OnlyTools, s) = <<>> /\ FlatMap(CallsIn, s) = <<>>
  BY <1>2, <1>3, FlatMapEmpty
<1> QED BY <1>1, <1>2, <1>4 DEF Answered

\* What is where in two sequences that are joined.
LEMMA JoinedAt ==
  ASSUME NEW A, NEW x \in Seq(A), NEW y \in Seq(A)
  PROVE  /\ x \o y \in Seq(A) /\ Len(x \o y) = Len(x) + Len(y)
         /\ \A i \in 1..Len(x) : (x \o y)[i] = x[i]
         /\ \A i \in 1..Len(y) : (x \o y)[Len(x) + i] = y[i]
OBVIOUS

\* The results of m's calls, in their order.
ResultsFor(r, m) ==
  Len(r) = Len(m.tool_calls) /\ \A k \in DOMAIN r : r[k].tool_call_id = m.tool_calls[k].id

LEMMA UnitAnswered ==
  ASSUME NEW m \in OwnMessages, NEW r \in Seq(ToolMessages), ResultsFor(r, m)
  PROVE  <<m>> \o r \in Seq(SentMessages) /\ Answered(<<m>> \o r)
<1> DEFINE one == <<m>>
           q == one \o r
           n == Len(r)
           calls == m.tool_calls
<1>1. one \in Seq(SentMessages) /\ r \in Seq(SentMessages) /\ Len(one) = 1 /\ one[1] = m
  <2>1. m \in SentMessages
    BY DEF SentMessages
  <2>2. r \in Seq(SentMessages)
    BY DEF SentMessages
  <2> DEFINE S == SentMessages
  <2> HIDE DEF S
  <2>3. <<m>> \in Seq(S)
    BY <2>1 DEF S
  <2> QED BY <2>2, <2>3 DEF S
<1>2. m \in SentMessages /\ m.role # "tool" /\ calls \in Seq(CallRecords)
  BY DEF SentMessages, OwnMessages
<1>3. \A i \in DOMAIN r : r[i].role = "tool" /\ r[i].tool_calls = <<>> /\ r[i] \in SentMessages
  <2>1. \A i \in DOMAIN r : r[i] \in ToolMessages
    OBVIOUS
  <2> QED BY <2>1 DEF SentMessages, ToolMessages
<1>4. FlatMap(OnlyTools, r) = r
  <2>1. \A i \in DOMAIN r : OnlyTools[r[i]] = <<r[i]>>
    BY <1>3 DEF OnlyTools
  <2> DEFINE f == [x \in SentMessages |-> x]
  <2>2. \A i \in DOMAIN r : OnlyTools[r[i]] = <<f[r[i]]>> /\ f[r[i]] = r[i]
    BY <1>3, <2>1
  <2> HIDE DEF f
  <2>3. FlatMap(OnlyTools, r) = [i \in DOMAIN r |-> f[r[i]]]
    BY <1>1, <2>2, FlatMapEach
  <2>4. [i \in DOMAIN r |-> f[r[i]]] = [i \in DOMAIN r |-> r[i]]
    BY <2>2
  <2>5. [i \in DOMAIN r |-> r[i]] = r
    BY <1>1
  <2> QED BY <2>3, <2>4, <2>5
<1>5. FlatMap(CallsIn, r) = <<>>
  BY <1>3, FlatMapEmpty DEF CallsIn
<1>6. FlatMap(OnlyTools, one) = <<>> /\ FlatMap(CallsIn, one) = calls
  <2>1. OnlyTools[m] = <<>> /\ CallsIn[m] = calls
    BY <1>2 DEF OnlyTools, CallsIn
  <2>4. m \in SentMessages
    BY <1>2
  <2>5. OnlyTools \in [SentMessages -> Seq(SentMessages)] /\ CallsIn \in [SentMessages -> Seq(CallRecords)]
    BY CountsAre
  <2>2. FlatMap(OnlyTools, <<m>>) = OnlyTools[m]
    BY <2>4, <2>5, FlatMapOne
  <2>3. FlatMap(CallsIn, <<m>>) = CallsIn[m]
    BY <2>4, <2>5, FlatMapOne
  <2> QED BY <2>1, <2>2, <2>3
<1> HIDE DEF one, calls
<1>7. Len(FlatMap(OnlyTools, q)) = 0 + Len(r) /\ Len(FlatMap(CallsIn, q)) = Len(calls) + 0
  BY <1>1, <1>4, <1>5, <1>6, CountsConcat
<1>8. n \in Nat /\ Len(calls) = n /\ DOMAIN r = 1..n /\ DOMAIN calls = 1..n
      /\ \A k \in 1..n : r[k].tool_call_id = calls[k].id
  BY <1>2 DEF ResultsFor, calls
<1>9. q \in Seq(SentMessages) /\ DOMAIN q = 1..(1 + n) /\ q[1] = m /\ \A k \in 1..n : q[1 + k] = r[k]
  <2>1. q \in Seq(SentMessages) /\ Len(q) = Len(one) + Len(r)
        /\ (\A i \in 1..Len(one) : q[i] = one[i]) /\ \A k \in 1..Len(r) : q[Len(one) + k] = r[k]
    <3>1. one \in Seq(SentMessages) /\ r \in Seq(SentMessages)
      BY <1>1
    <3> QED BY <3>1, JoinedAt
  <2> HIDE DEF q
  <2>2. DOMAIN q = 1..(1 + n)
    BY <1>1, <2>1
  <2> QED BY <1>1, <2>1, <2>2
<1> HIDE DEF q, n
<1>10. ASSUME NEW i \in DOMAIN q, NEW k \in DOMAIN q[i].tool_calls
       PROVE  i + k \in DOMAIN q /\ q[i + k].tool_call_id = q[i].tool_calls[k].id
  <2>1. CASE i = 1
    BY <1>8, <1>9, <2>1 DEF calls
  <2>2. CASE i # 1
    <3>1. PICK j \in 1..n : i = 1 + j
      <4>1. i - 1 \in 1..n /\ i = 1 + (i - 1)
        BY <1>8, <1>9, <2>2
      <4> QED BY <4>1
    <3>2. q[i] = r[j] /\ j \in DOMAIN r
      BY <1>8, <1>9, <3>1
    <3>3. q[i].tool_calls = <<>>
      BY <1>3, <3>2
    <3> QED BY <1>10, <3>3
  <2> QED BY <2>1, <2>2
<1>11. Len(FlatMap(OnlyTools, q)) = Len(FlatMap(CallsIn, q))
  BY <1>2, <1>7, <1>8 DEF n
<1> QED BY <1>9, <1>10, <1>11 DEF Answered, q, one

(* The calls of a client's message. *)
UseCalls ==
  [b \in AnthropicBlocks |->
     IF b.type = "tool_use"
     THEN <<[id |-> b.id, name |-> b.val.name, args |-> Reparsed[b.val.args]]>> ELSE <<>>]
ReparsedCalls == [c \in CallRecords |-> <<[c EXCEPT !.args = Reparsed[@]]>>]

LEMMA CallsOfType == CallsOf \in [Blocks1 -> Seq(CallRecords)] /\ CallsFrom1 \in [Messages1 -> Seq(CallRecords)]
<1>1. CallsOf \in [Blocks1 -> Seq(CallRecords)]
  <2>1. <<>> \in Seq(Blocks1)
    OBVIOUS
  <2> QED BY <2>1, EncodeCallsEach
<1>2. ASSUME NEW c \in Messages1 PROVE FlatMap(CallsOf, c.content) \in Seq(CallRecords)
  BY Message1Kinds, EncodeCallsEach
<1> QED BY <1>1, <1>2 DEF CallsFrom1

LEMMA MessagesCalls ==
  ASSUME NEW role, NEW content, Messages(role, content) \in Seq(Messages1)
  PROVE  FlatMap(CallsFrom1, Messages(role, content)) = FlatMap(CallsOf, content)
<1>1. CASE content = <<>>
  BY <1>1, FlatMapNone DEF Messages
<1>2. CASE content # <<>>
  <2> DEFINE c == Message(role, content)
  <2>1. Messages(role, content) = <<c>> /\ c.content = content
    BY <1>2 DEF Messages, Message
  <2> HIDE DEF c
  <2>2. c \in Messages1
    BY <2>1
  <2>3. CallsFrom1[c] = FlatMap(CallsOf, content)
    BY <2>1, <2>2 DEF CallsFrom1
  <2>4. FlatMap(CallsFrom1, <<c>>) = CallsFrom1[c]
    BY <2>2, CallsOfType, FlatMapOne
  <2> QED BY <2>1, <2>3, <2>4
<1> QED BY <1>1, <1>2

LEMMA UseCallsType == UseCalls \in [AnthropicBlocks -> Seq(CallRecords)]
<1>1. ASSUME NEW b \in AnthropicBlocks PROVE UseCalls[b] \in Seq(CallRecords)
  <2>1. CASE b.type = "tool_use"
    <3> DEFINE c == [id |-> b.id, name |-> b.val.name, args |-> Reparsed[b.val.args]]
    <3>1. b \in ToolUses
      BY <2>1 DEF AnthropicBlocks, UserBlocks, Texts, Images, AnswerBlocks, ResultBlocks, ToolUses
    <3>2. c \in CallRecords
      BY <3>1, Arguments1 DEF ToolUses, CallRecords
    <3>3. UseCalls[b] = <<c>>
      BY <2>1 DEF UseCalls
    <3> HIDE DEF c
    <3> QED BY <3>2, <3>3
  <2>2. CASE b.type # "tool_use"
    BY <2>2 DEF UseCalls
  <2> QED BY <2>1, <2>2
<1> QED BY <1>1 DEF UseCalls

LEMMA AnthropicCalls ==
  ASSUME NEW m \in AnthropicMessages
  PROVE  GivenCalls("anthropic", m) = FlatMap(UseCalls, m.content)
<1> DEFINE s == m.content
           d == FlatMap(DecodeBlock, s)
<1>1. /\ DecodeAnthropic[m] = Messages(m.role, d) /\ DecodeAnthropic[m] \in Seq(Messages1)
      /\ s \in Seq(AnthropicBlocks) /\ d \in Seq(Blocks1)
  BY DecodeAnthropicType
<1>2. GivenCalls("anthropic", m) = FlatMap(CallsOf, d)
  BY <1>1, MessagesCalls DEF GivenCalls, Decode
<1>3. ASSUME NEW b \in AnthropicBlocks PROVE UseCalls[b] = FlatMap(CallsOf, DecodeBlock[b])
  <2>1. DecodeBlock[b] = DecodeAnthropicBlock(b)
    BY DEF DecodeBlock
  <2>2. CASE b \in ResultBlocks
    <3> DEFINE x == [type |-> "tool_result", id |-> b.id,
                     val |-> [content |-> FlatMap(DecodePlain, b.val.content), is_error |-> b.val.is_error]]
    <3>1. x \in Results1 /\ DecodeAnthropicBlock(b) = <<x>> /\ b.type = "tool_result"
      BY <2>2, DecodeBlockType, BlockKinds
    <3> HIDE DEF x
    <3>2. x \in Blocks1 /\ x.type = "tool_result"
      BY <3>1 DEF Blocks1, Results1
    <3>3. FlatMap(CallsOf, <<x>>) = CallsOf[x] /\ CallsOf[x] = <<>>
      <4>1. CallsOf[x] = <<>>
        BY <3>2 DEF CallsOf
      <4> QED BY <3>2, <4>1, CallsOfType, FlatMapOne
    <3>4. UseCalls[b] = <<>>
      BY <3>1 DEF UseCalls
    <3> QED BY <2>1, <3>1, <3>3, <3>4
  <2>3. CASE b \notin ResultBlocks
    <3>1. b \in UserBlocks \cup AnswerBlocks /\ DecodeBlock[b] = DecodePlainBlock(b)
      BY <2>1, <2>3, DecodeBlockType DEF AnthropicBlocks
    <3>2. CASE b.type = "tool_use"
      <4> DEFINE x == Block("tool_call", b.id, [b.val EXCEPT !.args = Reparsed[@]])
                 c == [id |-> b.id, name |-> b.val.name, args |-> Reparsed[b.val.args]]
      <4>1. DecodePlainBlock(b) = <<x>>
        BY <3>2 DEF DecodePlainBlock
      <4>2. b \in ToolUses
        BY <3>2 DEF AnthropicBlocks, UserBlocks, Texts, Images, AnswerBlocks, ResultBlocks, ToolUses
      <4>3. x \in Blocks1 /\ x.type = "tool_call"
        BY <4>2, Arguments1 DEF ToolUses, Block, Blocks1, Calls1
      <4>4. EncodeCall(x) = <<c>>
        BY <4>2 DEF EncodeCall, ToolUses, Block
      <4>5. UseCalls[b] = <<c>>
        BY <3>2 DEF UseCalls
      <4> HIDE DEF x, c
      <4>6. CallsOf[x] = <<c>>
        BY <4>3, <4>4 DEF CallsOf
      <4>7. FlatMap(CallsOf, <<x>>) = CallsOf[x]
        BY <4>3, CallsOfType, FlatMapOne
      <4> QED BY <3>1, <4>1, <4>5, <4>6, <4>7
    <3>3. CASE b.type # "tool_use"
      <4>1. DecodePlainBlock(b) \in Seq(Blocks1)
        BY DecodePlainType DEF Blocks1
      <4>2. DecodePlainBlock(b) = <<>> \/ (DecodePlainBlock(b) = <<b>> /\ b.type # "tool_call")
        BY <3>3 DEF DecodePlainBlock
      <4> DEFINE q == DecodePlainBlock(b)
      <4>3. \A i \in DOMAIN q : q[i].type # "tool_call"
        BY <4>2
      <4> HIDE DEF q
      <4>4. FlatMap(CallsOf, q) = <<>>
        BY <4>1, <4>3, OnlyCallsHave DEF q
      <4>5. UseCalls[b] = <<>>
        BY <3>3 DEF UseCalls
      <4> QED BY <3>1, <4>4, <4>5 DEF q
    <3> QED BY <3>2, <3>3
  <2> QED BY <2>2, <2>3
<1>4. FlatMap(CallsOf, d) = FlatMap(UseCalls, s)
  <2> DEFINE A == AnthropicBlocks
  <2>1. DecodeBlock \in Maps(A, Blocks1) /\ CallsOf \in Maps(Blocks1, CallRecords)
        /\ UseCalls \in Maps(A, CallRecords) /\ s \in Lists(A)
    BY <1>1, DecodedSends, CallsOfType, UseCallsType DEF Maps, Lists
  <2> HIDE DEF A, s
  <2> QED BY <1>3, <2>1, FlatMapTwice DEF A
<1> QED BY <1>2, <1>4

LEMMA DecodedCalls ==
  ASSUME NEW s \in Seq(CallRecords)
  PROVE  /\ FlatMap(CallsOf, FlatMap(DecodeCalls, s)) = FlatMap(ReparsedCalls, s)
         /\ FlatMap(ReparsedCalls, s) = [i \in DOMAIN s |-> [s[i] EXCEPT !.args = Reparsed[@]]]
         /\ ReparsedCalls \in [CallRecords -> Seq(CallRecords)]
<1> DEFINE f == [c \in CallRecords |-> [c EXCEPT !.args = Reparsed[@]]]
<1>1. ASSUME NEW c \in CallRecords
      PROVE  /\ f[c] = [id |-> c.id, name |-> c.name, args |-> Reparsed[c.args]] /\ f[c] \in CallRecords
             /\ ReparsedCalls[c] = <<f[c]>>
  BY Arguments1 DEF CallRecords, ReparsedCalls
<1> HIDE DEF f
<1>2. ReparsedCalls \in [CallRecords -> Seq(CallRecords)]
  <2>1. ASSUME NEW c \in CallRecords PROVE <<f[c]>> \in Seq(CallRecords)
    <3> DEFINE e == f[c]
               A == CallRecords
    <3>1. e \in A
      BY <1>1
    <3> HIDE DEF e, A
    <3>2. <<e>> \in Seq(A)
      BY <3>1
    <3> QED BY <3>2 DEF e, A
  <2>2. ReparsedCalls = [c \in CallRecords |-> <<f[c]>>]
    BY DEF ReparsedCalls, f
  <2> QED BY <2>1, <2>2
<1>3. DecodeCalls \in [CallRecords -> Seq(Blocks1)] /\ \A c \in CallRecords : FlatMap(CallsOf, DecodeCalls[c]) = ReparsedCalls[c]
  <2>1. ASSUME NEW c \in CallRecords
        PROVE  DecodeCalls[c] \in Seq(Blocks1) /\ FlatMap(CallsOf, DecodeCalls[c]) = ReparsedCalls[c]
    <3> DEFINE x == Block("tool_call", c.id, [name |-> c.name, args |-> Reparsed[c.args]])
    <3>1. DecodeCalls[c] = <<x>>
      BY DEF DecodeCalls, DecodeCall
    <3>2. x \in Blocks1 /\ x.type = "tool_call" /\ EncodeCall(x) = <<f[c]>>
      BY <1>1, Arguments1 DEF CallRecords, Block, Blocks1, Calls1, EncodeCall
    <3> HIDE DEF x
    <3>3. <<x>> \in Seq(Blocks1)
      BY <3>2
    <3>4. CallsOf[x] = <<f[c]>>
      BY <3>2 DEF CallsOf
    <3>5. FlatMap(CallsOf, <<x>>) = CallsOf[x]
      BY <3>2, CallsOfType, FlatMapOne
    <3> QED BY <1>1, <3>1, <3>3, <3>4, <3>5
  <2> QED BY <2>1 DEF DecodeCalls
<1>4. FlatMap(CallsOf, FlatMap(DecodeCalls, s)) = FlatMap(ReparsedCalls, s)
  <2> DEFINE A == CallRecords
  <2>1. DecodeCalls \in Maps(A, Blocks1) /\ CallsOf \in Maps(Blocks1, A)
        /\ ReparsedCalls \in Maps(A, A) /\ s \in Lists(A)
    BY <1>2, <1>3, CallsOfType DEF Maps, Lists
  <2> HIDE DEF A
  <2> QED BY <1>3, <2>1, FlatMapTwice DEF A
<1>5. FlatMap(ReparsedCalls, s) = [i \in DOMAIN s |-> f[s[i]]]
  <2>0. \A i \in DOMAIN s : s[i] \in CallRecords
    OBVIOUS
  <2>1. \A i \in DOMAIN s : ReparsedCalls[s[i]] = <<f[s[i]]>>
    BY <1>1, <2>0
  <2> QED BY <2>1, FlatMapEach
<1>6. \A i \in DOMAIN s : f[s[i]] = [s[i] EXCEPT !.args = Reparsed[@]]
  BY DEF f
<1>7. [i \in DOMAIN s |-> f[s[i]]] = [i \in DOMAIN s |-> [s[i] EXCEPT !.args = Reparsed[@]]]
  BY <1>6
<1> QED BY <1>2, <1>4, <1>5, <1>7

LEMMA OpenAICalls ==
  ASSUME NEW m \in OpenAIMessages
  PROVE  GivenCalls("openai", m) = FlatMap(ReparsedCalls, m.tool_calls)
<1>1. "openai" \in Protocols /\ m \in Histories("openai") /\ Decode("openai") = DecodeOpenAI
  BY DEF Protocols, Histories, Decode
<1>2. CASE m.role = "assistant"
  <2> DEFINE t == m.thinking
             parts == FlatMap(DecodeParts, m.content)
             calls == FlatMap(DecodeCalls, m.tool_calls)
  <2>1. /\ parts \in Seq(Parts1) /\ calls \in Seq(Calls1) /\ DecodeOpenAI[m] \in Seq(Messages1)
        /\ DecodeOpenAI[m] = Messages("assistant", t \o parts \o calls)
    BY <1>2, DecodeOpenAIType
  <2>2. t \in Seq(Texts("thinking")) /\ m.tool_calls \in Seq(CallRecords)
    BY OpenAIKinds
  <2> HIDE DEF parts, calls, t
  <2>3. t \in Seq(Blocks1) /\ parts \in Seq(Blocks1) /\ calls \in Seq(Blocks1)
    BY <2>1, <2>2 DEF Blocks1
  <2>4. FlatMap(CallsOf, Three(t, parts, calls))
          = Three(FlatMap(CallsOf, t), FlatMap(CallsOf, parts), FlatMap(CallsOf, calls))
    BY <2>3, CallsOfType, FlatMapThree DEF Maps, Lists
  <2>5. FlatMap(CallsOf, t) = <<>>
    <3>1. \A i \in DOMAIN t : t[i] \in Texts("thinking")
      BY <2>2
    <3>2. \A i \in DOMAIN t : t[i].type # "tool_call"
      BY <3>1 DEF Texts
    <3> QED BY <2>3, <3>2, OnlyCallsHave
  <2>6. FlatMap(CallsOf, parts) = <<>>
    <3>1. \A i \in DOMAIN parts : parts[i] \in Parts1
      BY <2>1
    <3>2. \A i \in DOMAIN parts : parts[i].type # "tool_call"
      BY <3>1 DEF Parts1, Texts, Images
    <3> QED BY <2>3, <3>2, OnlyCallsHave
  <2>7. FlatMap(CallsOf, calls) = FlatMap(ReparsedCalls, m.tool_calls)
        /\ FlatMap(CallsOf, calls) \in Seq(CallRecords)
    BY <2>2, <2>3, DecodedCalls, EncodeCallsEach DEF calls
  <2> DEFINE q == FlatMap(CallsOf, calls)
             x == t \o parts \o calls
  <2>8. FlatMap(CallsOf, x) = q
    BY <2>7, <2>4, <2>5, <2>6 DEF q, Three
  <2> HIDE DEF x, q
  <2>9. GivenCalls("openai", m) = FlatMap(CallsOf, x)
    BY <2>1, <1>1, MessagesCalls DEF x, GivenCalls
  <2> QED BY <2>7, <2>8, <2>9 DEF q
<1>3. CASE m.role # "assistant"
  <2>1. m.tool_calls = <<>>
    BY <1>3, OpenAIKinds
  <2>2. FlatMap(ReparsedCalls, m.tool_calls) = <<>>
    BY <2>1, FlatMapNone
  <2> DEFINE d == DecodeOpenAI[m]
  <2>3. CASE d = <<>>
    BY <1>1, <2>2, <2>3, FlatMapNone DEF GivenCalls
  <2>4. CASE \E c \in Messages1 : d = <<c>> /\ c.role = m.role
    <3>1. PICK c \in Messages1 : d = <<c>> /\ c.role = m.role
      BY <2>4
    <3>2. FlatMap(CallsFrom1, <<c>>) = CallsFrom1[c]
      BY CallsOfType, FlatMapOne
    <3>3. CallsFrom1[c] = <<>>
      BY <1>3, <3>1, RolesOfBlocks DEF CallsFrom1
    <3> QED BY <1>1, <2>2, <3>1, <3>2, <3>3 DEF GivenCalls
  <2>5. \/ d = <<>>
        \/ \E c \in Messages1 : d = <<c>> /\ c.role = m.role
    BY <1>1, DecodedOne
  <2> QED BY <2>3, <2>4, <2>5
<1> QED BY <1>2, <1>3

\* The ids a client is to answer are those of the calls that are sent.
LEMMA CallIDsAre ==
  ASSUME protocol \in Protocols, NEW m \in Histories(protocol)
  PROVE  LET c == GivenCalls(protocol, m)
         IN  /\ c \in Seq(CallRecords) /\ Len(CallIDs(m)) = Len(c)
             /\ DOMAIN CallIDs(m) = DOMAIN c /\ \A k \in DOMAIN c : CallIDs(m)[k] = c[k].id
<1> DEFINE c == GivenCalls(protocol, m)
<1>1. CASE protocol = "anthropic"
  <2> DEFINE uses == FlatMap(OnlyUses, m.content)
             f == [b \in ToolUses |-> [id |-> b.id, name |-> b.val.name, args |-> Reparsed[b.val.args]]]
             k == [b \in ToolUses |-> <<f[b]>>]
  <2>1. m \in AnthropicMessages /\ m.content \in Seq(AnthropicBlocks)
    BY <1>1, DecodeAnthropicType DEF Histories
  <2>2. OfType("tool_use", m.content) = uses /\ uses \in Seq(ToolUses)
    BY <2>1, UsesOf
  <2>3. c = FlatMap(UseCalls, m.content)
    BY <1>1, <2>1, AnthropicCalls
  <2>4. ASSUME NEW b \in ToolUses
        PROVE  f[b] \in CallRecords /\ f[b].id = b.id /\ b.type = "tool_use" /\ k[b] = <<f[b]>>
    BY Arguments1 DEF ToolUses, CallRecords
  <2>5. ASSUME NEW b \in AnthropicBlocks PROVE OnlyUses[b] \in Seq(ToolUses) /\ FlatMap(k, OnlyUses[b]) = UseCalls[b]
    <3>1. CASE b.type = "tool_use"
      <4>1. b \in ToolUses
        BY <3>1 DEF AnthropicBlocks, UserBlocks, Texts, Images, AnswerBlocks, ResultBlocks, ToolUses
      <4>2. OnlyUses[b] = <<b>> /\ UseCalls[b] = <<f[b]>>
        BY <3>1, <4>1 DEF OnlyUses, UseCalls
      <4>3. ASSUME NEW x \in ToolUses PROVE k[x] \in Seq(CallRecords)
        <5> DEFINE e == f[x]
        <5>1. e \in CallRecords /\ k[x] = <<e>>
          BY <2>4
        <5> HIDE DEF e, k
        <5> QED BY <5>1
      <4>4. k \in [ToolUses -> Seq(CallRecords)]
        BY <4>3
      <4> HIDE DEF k, f
      <4>5. FlatMap(k, <<b>>) = k[b]
        BY <4>1, <4>4, FlatMapOne
      <4>6. <<b>> \in Seq(ToolUses)
        BY <4>1
      <4> QED BY <2>4, <4>1, <4>2, <4>5, <4>6
    <3>2. CASE b.type # "tool_use"
      BY <3>2, FlatMapNone DEF OnlyUses, UseCalls
    <3> QED BY <3>1, <3>2
  <2>6. k \in [ToolUses -> Seq(CallRecords)]
    <3>1. ASSUME NEW x \in ToolUses PROVE k[x] \in Seq(CallRecords)
      <4> DEFINE e == f[x]
      <4>1. e \in CallRecords /\ k[x] = <<e>>
        BY <2>4
      <4> HIDE DEF e, k
      <4> QED BY <4>1
    <3> QED BY <3>1
  <2>7. FlatMap(k, uses) = c
    <3> DEFINE A == AnthropicBlocks
               s == m.content
    <3>1. OnlyUses \in Maps(A, ToolUses) /\ k \in Maps(ToolUses, CallRecords) /\ UseCalls \in Maps(A, CallRecords)
          /\ s \in Lists(A)
      BY <2>1, <2>5, <2>6, UseCallsType DEF Maps, Lists, OnlyUses
    <3> HIDE DEF A, s, k
    <3>2. FlatMap(k, FlatMap(OnlyUses, s)) = FlatMap(UseCalls, s)
      BY <2>5, <3>1, FlatMapTwice DEF A
    <3> QED BY <2>3, <3>2 DEF s
  <2> HIDE DEF uses, f, k
  <2>8. FlatMap(k, uses) = [i \in DOMAIN uses |-> f[uses[i]]]
    <3>1. \A i \in DOMAIN uses : uses[i] \in ToolUses
      BY <2>2
    <3>2. \A i \in DOMAIN uses : k[uses[i]] = <<f[uses[i]]>>
      BY <2>4, <3>1
    <3> QED BY <2>2, <3>2, FlatMapEach
  <2>9. CallIDs(m) = [i \in DOMAIN uses |-> uses[i].id]
    BY <1>1, <2>2 DEF CallIDs
  <2> DEFINE ids == CallIDs(m)
             n == Len(uses)
  <2>10. n \in Nat /\ DOMAIN uses = 1..n /\ \A i \in 1..n : uses[i] \in ToolUses
    BY <2>2
  <2>11. ids = [i \in 1..n |-> uses[i].id] /\ c = [i \in 1..n |-> f[uses[i]]]
    BY <2>7, <2>8, <2>9, <2>10
  <2> HIDE DEF ids, n, c
  <2>12. Len(ids) = n /\ Len(c) = n /\ DOMAIN ids = 1..n /\ DOMAIN c = 1..n
    BY <2>10, <2>11
  <2>13. \A i \in 1..n : ids[i] = uses[i].id /\ c[i] = f[uses[i]] /\ c[i] \in CallRecords
    BY <2>4, <2>10, <2>11
  <2>14. c \in [1..n -> CallRecords]
    BY <2>11, <2>13
  <2>15. c \in Seq(CallRecords)
    BY <2>10, <2>14
  <2> QED BY <2>4, <2>10, <2>12, <2>13, <2>15 DEF c, ids
<1>2. CASE protocol = "openai"
  <2> DEFINE s == m.tool_calls
             n == Len(s)
             ids == CallIDs(m)
  <2>1. m \in OpenAIMessages /\ s \in Seq(CallRecords)
    BY <1>2, OpenAIKinds DEF Histories
  <2>2. c = FlatMap(ReparsedCalls, s)
    BY <1>2, <2>1, OpenAICalls
  <2>3. ids = [i \in DOMAIN s |-> s[i].id]
    BY <1>2 DEF CallIDs
  <2> HIDE DEF s, ids, c
  <2>4. FlatMap(ReparsedCalls, s) = [i \in DOMAIN s |-> [s[i] EXCEPT !.args = Reparsed[@]]]
        /\ ReparsedCalls \in [CallRecords -> Seq(CallRecords)]
    BY <2>1, DecodedCalls
  <2>5. n \in Nat /\ DOMAIN s = 1..n /\ \A i \in 1..n : s[i] \in CallRecords
    BY <2>1
  <2>6. c \in Seq(CallRecords)
    BY <2>1, <2>2, <2>4, FlatMapType
  <2>7. \A i \in 1..n : [s[i] EXCEPT !.args = Reparsed[@]].id = s[i].id
    BY <2>5 DEF CallRecords
  <2>8. c = [i \in 1..n |-> [s[i] EXCEPT !.args = Reparsed[@]]] /\ ids = [i \in 1..n |-> s[i].id]
    BY <2>2, <2>3, <2>4, <2>5
  <2> HIDE DEF n
  <2>9. Len(ids) = n /\ Len(c) = n /\ DOMAIN ids = 1..n /\ DOMAIN c = 1..n
    BY <2>5, <2>8
  <2>10. \A i \in 1..n : ids[i] = s[i].id /\ c[i] = [s[i] EXCEPT !.args = Reparsed[@]]
    BY <2>8
  <2> QED BY <2>6, <2>7, <2>9, <2>10 DEF c, ids
<1> QED BY <1>1, <1>2 DEF Protocols

LEMMA SystemCalm ==
  ASSUME NEW s \in Seq(Texts("text"))
  PROVE  FlatMap(SystemMessages, s) \in Seq(Calm)
<1>1. ASSUME NEW b \in Texts("text") PROVE SystemMessages[b] \in Seq(Calm)
  <2> DEFINE c == ChatMessage("system", <<b>>, <<>>, Empty)
  <2>1. SystemMessages[b] = <<c>>
    BY DEF SystemMessages
  <2>2. <<b>> \in Seq(SentParts) /\ <<b>> # <<>>
    <3>1. b \in SentParts
      BY DEF SentParts
    <3> DEFINE S == SentParts
    <3> HIDE DEF S
    <3>2. <<b>> \in Seq(S)
      BY <3>1 DEF S
    <3> QED BY <3>2 DEF S
  <2> DEFINE one == <<b>>
  <2>3. one \in Seq(SentParts) /\ one # <<>>
    BY <2>2
  <2>4. c = [role |-> "system", content |-> one, tool_calls |-> <<>>, tool_call_id |-> Empty]
    BY DEF ChatMessage
  <2> HIDE DEF one, c
  <2>5. <<>> \in Seq(CallRecords)
    OBVIOUS
  <2>6. c \in OwnMessages /\ c.tool_calls = <<>>
    BY <2>3, <2>4, <2>5 DEF OwnMessages
  <2>7. c \in Calm
    BY <2>6 DEF Calm
  <2> QED BY <2>1, <2>7
<1>2. SystemMessages \in [Texts("text") -> Seq(Calm)]
  BY <1>1 DEF SystemMessages
<1> QED BY <1>2, FlatMapType

\* Giving the last message another role keeps results and calls where they are.
LEMMA ReRoleAnswered ==
  ASSUME NEW ms \in Seq(SentMessages), Answered(ms)
  PROVE  Answered(ReRole(ms))
<1> DEFINE rs == ReRole(ms)
<1>1. /\ rs \in Seq(SentMessages) /\ DOMAIN rs = DOMAIN ms
      /\ \A i \in DOMAIN ms : /\ rs[i].tool_calls = ms[i].tool_calls
                              /\ rs[i].tool_call_id = ms[i].tool_call_id
                              /\ \/ rs[i].role = ms[i].role
                                 \/ rs[i].role = "user" /\ ms[i].role = "assistant"
  BY ReRoleType
<1> HIDE DEF rs
<1>2. \A i \in DOMAIN ms : rs[i] \in SentMessages /\ ms[i] \in SentMessages
  BY <1>1
<1>3. FlatMap(CallsIn, rs) = FlatMap(CallsIn, ms)
  BY <1>1, FlatMapPointwise DEF CallsIn
<1>4. Len(FlatMap(OnlyTools, rs)) = Len(FlatMap(OnlyTools, ms))
  <2> DEFINE count == [m \in SentMessages |-> IF m.role = "tool" THEN <<0>> ELSE <<>>]
             one == [m \in SentMessages |-> <<0>>]
  <2>1. \A i \in DOMAIN rs : (rs[i].role = "tool") <=> (ms[i].role = "tool")
    BY <1>1
  <2>2. \A i \in DOMAIN rs : count[rs[i]] = count[ms[i]]
    BY <1>1, <1>2, <2>1
  <2>3. ASSUME NEW s \in Seq(SentMessages)
        PROVE  Len(FlatMap(OnlyTools, s)) = Len(FlatMap(count, s))
    <3>1. ASSUME NEW m \in SentMessages
          PROVE  OnlyTools[m] \in Seq(SentMessages) /\ count[m] = FlatMap(one, OnlyTools[m])
      <4>1. OnlyTools[m] \in Seq(SentMessages)
        BY CountsAre
      <4>2. one \in [SentMessages -> Seq({0})]
        OBVIOUS
      <4>3. CASE m.role = "tool"
        <5>1. OnlyTools[m] = <<m>> /\ count[m] = <<0>> /\ one[m] = <<0>>
          BY <4>3 DEF OnlyTools
        <5> HIDE DEF one, count
        <5>2. FlatMap(one, <<m>>) = one[m]
          BY <4>2, FlatMapOne
        <5> QED BY <4>1, <5>1, <5>2
      <4>4. CASE m.role # "tool"
        BY <4>1, <4>4, FlatMapNone DEF OnlyTools
      <4> QED BY <4>3, <4>4
    <3>2. count \in [SentMessages -> Seq({0})] /\ one \in [SentMessages -> Seq({0})]
      <4> DEFINE Q == Seq({0})
      <4>1. <<0>> \in Q /\ <<>> \in Q
        OBVIOUS
      <4> HIDE DEF Q
      <4>2. \A m \in SentMessages : count[m] \in Q /\ one[m] \in Q
        BY <4>1
      <4>3. count \in [SentMessages -> Q] /\ one \in [SentMessages -> Q]
        BY <4>1
      <4> QED BY <4>3 DEF Q
    <3> DEFINE S == SentMessages
               f == [m \in S |-> 0]
               q == FlatMap(OnlyTools, s)
    <3>3. \A m \in S : one[m] = <<f[m]>>
      OBVIOUS
    <3> HIDE DEF one, count
    <3>4. OnlyTools \in Maps(S, S) /\ count \in Maps(S, {0}) /\ one \in Maps(S, {0}) /\ s \in Lists(S)
      BY <3>2, CountsAre DEF Maps, Lists
    <3> HIDE DEF S
    <3>5. FlatMap(one, q) = FlatMap(count, s)
      BY <3>1, <3>4, FlatMapTwice DEF S
    <3> HIDE DEF q, f
    <3>6. q \in Seq(S)
      BY <3>4, CountsAre, FlatMapType DEF q, S
    <3>7. \A i \in DOMAIN q : one[q[i]] = <<f[q[i]]>>
      BY <3>6, <3>3
    <3>8. FlatMap(one, q) = [i \in DOMAIN q |-> f[q[i]]]
      BY <3>6, <3>7, FlatMapEach
    <3>9. Len([i \in DOMAIN q |-> f[q[i]]]) = Len(q)
      OBVIOUS
    <3> QED BY <3>5, <3>8, <3>9 DEF q
  <2> HIDE DEF count
  <2>4. FlatMap(count, rs) = FlatMap(count, ms)
    BY <1>1, <2>2, FlatMapPointwise
  <2> QED BY <1>1, <2>3, <2>4
<1>5. ASSUME NEW i \in DOMAIN rs, NEW k \in DOMAIN rs[i].tool_calls
      PROVE  i + k \in DOMAIN rs /\ rs[i + k].tool_call_id = rs[i].tool_calls[k].id
  BY <1>1 DEF Answered
<1>6. Len(FlatMap(OnlyTools, rs)) = Len(FlatMap(CallsIn, rs))
  BY <1>3, <1>4 DEF Answered
<1> QED BY <1>5, <1>6 DEF Answered, rs

LEMMA OnlyOne ==
  ASSUME NEW A, NEW x \in Seq(A), x # <<>>, Len(x) <= 1
  PROVE  x = <<x[1]>> /\ x[1] \in A
<1> DEFINE n == Len(x)
<1>1. n \in Nat /\ DOMAIN x = 1..n /\ \A i \in 1..n : x[i] \in A
  OBVIOUS
<1>2. n # 0
  OBVIOUS
<1>3. n = 1
  BY <1>1, <1>2
<1>4. x[1] \in A
  BY <1>1, <1>3
<1>5. x = [i \in 1..1 |-> x[1]]
  BY <1>3
<1>6. <<x[1]>> = [i \in 1..1 |-> x[1]]
  OBVIOUS
<1> QED BY <1>4, <1>5, <1>6

\* A message of a client that calls nothing and gives no result is calm.
LEMMA QuietIsCalm ==
  ASSUME NEW p \in Protocols, NEW m \in Histories(p), GivenBy(m) = <<>>, GivenCalls(p, m) = <<>>
  PROVE  Through(p)[m] \in Seq(Calm)
<1>1. PICK r \in Seq(ToolMessages), w \in Seq(OwnMessages) :
        /\ Through(p)[m] = r \o w /\ Len(w) <= 1
        /\ FlatMap(CallsIn, w) = GivenCalls(p, m)
        /\ Len(r) = Len(GivenBy(m))
  BY Shape
<1>2. r = <<>> /\ Through(p)[m] = w
  BY <1>1
<1>3. CASE w = <<>>
  BY <1>2, <1>3
<1>4. CASE w # <<>>
  <2> DEFINE o == w[1]
  <2>1. w = <<o>> /\ o \in OwnMessages
    BY <1>1, <1>4, OnlyOne
  <2> HIDE DEF o
  <2>2. CallsIn \in [SentMessages -> Seq(CallRecords)] /\ o \in SentMessages
    BY <2>1, CountsAre DEF SentMessages
  <2>3. FlatMap(CallsIn, <<o>>) = CallsIn[o]
    BY <2>2, FlatMapOne
  <2>4. o.tool_calls = <<>>
    BY <1>1, <2>1, <2>2, <2>3, CountsAre
  <2>5. o \in Calm
    BY <2>1, <2>4 DEF Calm
  <2> QED BY <1>2, <2>1, <2>5
<1> QED BY <1>3, <1>4

\* Messages of a client that call nothing and give no result.
Quiet(p) == {m \in Histories(p) : GivenBy(m) = <<>> /\ GivenCalls(p, m) = <<>>}

LEMMA AnswersGiveNone ==
  ASSUME NEW p \in Protocols, NEW m \in Histories(p), m.role = "assistant"
  PROVE  GivenBy(m) = <<>>
<1>1. CASE p = "anthropic"
  BY <1>1, BlockKinds, NoResults DEF Histories, AnthropicMessages
<1>2. CASE p = "openai"
  <2>1. m.content \in Seq(PartBlocks)
    BY <1>2, OpenAIKinds DEF Histories
  <2>2. \A i \in DOMAIN m.content : m.content[i] \in PartBlocks
    BY <2>1
  <2>3. \A i \in DOMAIN m.content : m.content[i].type # "tool_result"
    BY <2>2 DEF PartBlocks, Texts, Images
  <2>4. m.role # "tool"
    OBVIOUS
  <2> QED BY <2>1, <2>3, <2>4, NoResults
<1> QED BY <1>1, <1>2 DEF Protocols

LEMMA SpokenQuiet ==
  ASSUME protocol \in Protocols, NEW s \in Seq(UserBlocks),
         NEW role \in {"user", "assistant", "system"}, Speak(role, s) \in Histories(protocol)
  PROVE  Speak(role, s) \in Quiet(protocol)
<1> DEFINE m == Speak(role, s)
<1>1. CASE protocol = "anthropic"
  <2>1. m.role # "tool" /\ m.content = s /\ m \in AnthropicMessages
    BY <1>1 DEF Speak, Message, Histories
  <2>2. \A i \in DOMAIN s : s[i] \in UserBlocks
    OBVIOUS
  <2>3. \A i \in DOMAIN s : s[i].type # "tool_result" /\ s[i].type # "tool_use" /\ s[i] \in AnthropicBlocks
    BY <2>2, BlockKinds DEF AnthropicBlocks
  <2> HIDE DEF m
  <2>4. GivenBy(m) = <<>>
    BY <2>1, <2>3, NoResults
  <2>5. \A i \in DOMAIN s : UseCalls[s[i]] = <<>>
    BY <2>3 DEF UseCalls
  <2>6. FlatMap(UseCalls, s) = <<>>
    BY <2>5, FlatMapEmpty
  <2>7. GivenCalls(protocol, m) = <<>>
    BY <1>1, <2>1, <2>6, AnthropicCalls
  <2> QED BY <2>4, <2>7 DEF Quiet, m
<1>2. CASE protocol = "openai"
  <2>1. m.role # "tool" /\ m.content = InParts(s) /\ m.tool_calls = <<>> /\ m \in OpenAIMessages
    BY <1>2 DEF Speak, OpenAIMessage, Histories
  <2>2. m.content \in Seq(PartBlocks)
    BY <2>1, OpenAIKinds
  <2>3. \A i \in DOMAIN m.content : m.content[i] \in PartBlocks
    BY <2>2
  <2>4. \A i \in DOMAIN m.content : m.content[i].type # "tool_result"
    BY <2>3 DEF PartBlocks, Texts, Images
  <2> HIDE DEF m
  <2>5. GivenBy(m) = <<>>
    BY <2>1, <2>2, <2>4, NoResults
  <2>6. GivenCalls(protocol, m) = <<>>
    BY <1>2, <2>1, OpenAICalls, FlatMapNone
  <2> QED BY <2>5, <2>6 DEF Quiet, m
<1> QED BY <1>1, <1>2 DEF Protocols

\* What the messages of a history are sent as.
LEMMA ThroughConcat ==
  ASSUME NEW p \in Protocols, NEW h \in Seq(Histories(p)), NEW t \in Seq(Histories(p))
  PROVE  /\ FlatMap(Through(p), h \o t) = FlatMap(Through(p), h) \o FlatMap(Through(p), t)
         /\ FlatMap(Through(p), h) \in Seq(SentMessages) /\ FlatMap(Through(p), t) \in Seq(SentMessages)
<1> DEFINE T == Through(p)
           H == Histories(p)
<1>1. T \in [H -> Seq(SentMessages)] /\ h \in Seq(H) /\ t \in Seq(H)
  BY ThroughType
<1> HIDE DEF T, H
<1>2. FlatMap(T, h) \in Seq(SentMessages) /\ FlatMap(T, t) \in Seq(SentMessages)
  BY <1>1, FlatMapType
<1>3. T \in Maps(H, SentMessages) /\ h \in Lists(H) /\ t \in Lists(H)
  BY <1>1 DEF Maps, Lists
<1>4. FlatMap(T, h \o t) = FlatMap(T, h) \o FlatMap(T, t)
  BY <1>3, FlatMapConcat
<1> QED BY <1>2, <1>4 DEF T

LEMMA QuietCalm ==
  ASSUME NEW p \in Protocols, NEW t \in Seq(Quiet(p))
  PROVE  t \in Seq(Histories(p)) /\ FlatMap(Through(p), t) \in Seq(Calm)
<1> DEFINE T == Through(p)
           C == Calm
<1>1. \A i \in DOMAIN t : t[i] \in Quiet(p)
  OBVIOUS
<1>2. t \in Seq(Histories(p))
  BY DEF Quiet
<1>3. \A i \in DOMAIN t : T[t[i]] \in Seq(C)
  BY <1>1, QuietIsCalm DEF Quiet
<1> HIDE DEF T, C
<1>4. FlatMap(T, t) \in Seq(C)
  BY <1>2, <1>3, FlatMapInto
<1> QED BY <1>2, <1>4 DEF T, C

LEMMA QuietAppended ==
  ASSUME NEW p \in Protocols, NEW h \in Seq(Histories(p)), Answered(FlatMap(Through(p), h)),
         NEW t \in Seq(Quiet(p))
  PROVE  h \o t \in Seq(Histories(p)) /\ Answered(FlatMap(Through(p), h \o t))
<1> DEFINE x == FlatMap(Through(p), h)
           y == FlatMap(Through(p), t)
<1>1. t \in Seq(Histories(p)) /\ y \in Seq(Calm)
  BY QuietCalm
<1>2. FlatMap(Through(p), h \o t) = x \o y /\ x \in Seq(SentMessages)
  BY <1>1, ThroughConcat
<1>3. Answered(x)
  OBVIOUS
<1> HIDE DEF x, y
<1>4. y \in Seq(SentMessages) /\ Answered(y)
  BY <1>1, CalmAnswered
<1>5. Answered(x \o y)
  BY <1>2, <1>3, <1>4, AnsweredConcat
<1>6. h \o t \in Seq(Histories(p))
  BY <1>1, JoinedAt
<1> QED BY <1>2, <1>5, <1>6

\* Of the messages so far only the last may have calls that are still open.
SoFar == FlatMap(Through(protocol), history)
Open(s, ids) ==
  \E a \in Seq(SentMessages), m \in OwnMessages :
    /\ s = a \o <<m>> /\ Answered(a)
    /\ Len(m.tool_calls) = Len(ids) /\ \A k \in DOMAIN ids : m.tool_calls[k].id = ids[k]
CallsOpenLast ==
  IF phase = "client" /\ Pending # <<>> THEN Open(SoFar, Pending) ELSE Answered(SoFar)

LEMMA UserSpeaksAnswered ==
  ASSUME TypeOK, CallsOpenLast, UserSpeaks
  PROVE  CallsOpenLast'
<1> DEFINE Q == Quiet(protocol)
           H == Histories(protocol)
<1>1. protocol \in Protocols /\ history \in Seq(H)
  BY TypeOKIs
<1>2. phase' = "gateway" /\ protocol' = protocol /\ Pending = <<>>
  BY DEF UserSpeaks
<1>3. Answered(FlatMap(Through(protocol), history))
  BY <1>2 DEF CallsOpenLast, SoFar
<1>4. PICK content \in Contents, prefill \in Prefills \cup {<<>>}, instruction \in Instructions \cup {<<>>} :
        /\ protocol = "anthropic" => instruction = <<>>
        /\ history' = history
             \o (IF instruction = <<>> THEN <<>> ELSE <<Speak("system", instruction)>>)
             \o <<Speak("user", content)>>
             \o (IF prefill = <<>> THEN <<>> ELSE <<Speak("assistant", prefill)>>)
  BY DEF UserSpeaks
<1>5. content \in Seq(UserBlocks) /\ prefill \in Seq(UserBlocks) /\ instruction \in Seq(Texts("text"))
  BY ContentsType
<1>6. instruction \in Seq(UserBlocks)
  BY <1>5 DEF UserBlocks
<1> DEFINE u == Speak("user", content)
           b == Speak("assistant", prefill)
           i == Speak("system", instruction)
<1>7. u \in Q /\ b \in Q
  BY <1>1, <1>5, SpeakType, SpokenQuiet
<1>8. instruction # <<>> => i \in Q
  BY <1>1, <1>4, <1>5, <1>6, SpeakType, SpokenQuiet DEF Protocols
<1> HIDE DEF u, b, i, Q
<1> DEFINE x == IF instruction = <<>> THEN <<>> ELSE <<i>>
           y == <<u>>
           z == IF prefill = <<>> THEN <<>> ELSE <<b>>
<1>9. x \in Seq(Q) /\ y \in Seq(Q) /\ z \in Seq(Q)
  BY <1>7, <1>8
<1>10. history' = ((history \o x) \o y) \o z
  BY <1>4 DEF u, b, i
<1> HIDE DEF x, y, z
<1> DEFINE T == Through(protocol)
           hx == history \o x
           hy == hx \o y
<1>11. hx \in Seq(H) /\ Answered(FlatMap(T, hx))
  BY <1>1, <1>3, <1>9, QuietAppended DEF Q
<1> HIDE DEF hx
<1>12. hy \in Seq(H) /\ Answered(FlatMap(T, hy))
  BY <1>1, <1>9, <1>11, QuietAppended DEF Q
<1> HIDE DEF hy
<1>13. Answered(FlatMap(T, hy \o z))
  BY <1>1, <1>9, <1>12, QuietAppended DEF Q
<1>14. history' = hy \o z
  BY <1>10 DEF hx, hy
<1> QED BY <1>2, <1>13, <1>14 DEF CallsOpenLast, SoFar

\* A client's results become as many tool messages, with the calls' ids, and
\* its words come after them.
LEMMA ResultsGiven ==
  ASSUME TypeOK, NEW outcome \in Outcomes, NEW before \in Seq(UserBlocks), NEW after \in Seq(UserBlocks)
  PROVE  LET rs == Results(outcome, before, after)
         IN  /\ rs \in Seq(Histories(protocol))
             /\ \E r \in Seq(ToolMessages), w \in Seq(Calm) :
                  /\ FlatMap(Through(protocol), rs) = r \o w
                  /\ Len(r) = Len(Pending)
                  /\ \A k \in DOMAIN r : r[k].tool_call_id = Pending[k]
<1> DEFINE rs == Results(outcome, before, after)
           ids == Pending
           n == Len(ids)
           H == Histories(protocol)
<1>1. protocol \in Protocols /\ rs \in Seq(H)
  BY TypeOKIs, ResultsType
<1>2. n \in Nat /\ ids \in Seq(IDs) /\ DOMAIN ids = 1..n /\ \A k \in 1..n : ids[k] \in IDs
  BY PendingType
<1>3. outcome \in [content : Seq(UserBlocks), is_error : BOOLEAN]
  BY ContentsType
<1>4. CASE protocol = "anthropic"
  <2> DEFINE res == [i \in DOMAIN ids |-> Block("tool_result", ids[i], outcome)]
             content == before \o res \o after
             m == Message("user", content)
  <2>1. rs = <<m>>
    BY <1>4 DEF Results
  <2>2. m \in H /\ m \in AnthropicMessages
    BY <1>1, <2>1, <1>4 DEF Histories
  <2>3. m.role = "user" /\ m.content = content /\ content \in Seq(AnthropicBlocks)
    BY <2>2, DecodeAnthropicType DEF Message
  <2>4. \A i \in 1..n : res[i] = Block("tool_result", ids[i], outcome) /\ res[i] \in ResultBlocks
    BY <1>2 DEF Block, ResultBlocks
  <2>5. res \in Seq(ResultBlocks) /\ Len(res) = n /\ DOMAIN res = 1..n
    BY <1>2, <2>4
  <2> DEFINE f == [b \in ResultBlocks |-> GivenBlock(b)]
             given == FlatMap(GiveBlock, res)
             A == AnthropicBlocks
  <2>6. \A i \in DOMAIN res : GiveBlock[res[i]] = <<f[res[i]]>>
    BY <2>4, <2>5, BlockKinds DEF AnthropicBlocks, GiveBlock
  <2>7. \A b \in ResultBlocks : f[b].id = b.id
    BY DEF GivenBlock
  <2>8. \A i \in 1..n : res[i].id = ids[i]
    BY <2>4 DEF Block
  <2>9. /\ \A i \in DOMAIN before : before[i].type \notin {"tool_result", "tool_use"} /\ before[i] \in A
        /\ \A i \in DOMAIN after : after[i].type \notin {"tool_result", "tool_use"} /\ after[i] \in A
        /\ \A i \in DOMAIN res : res[i].type # "tool_use" /\ res[i] \in A
    BY <2>5, BlockKinds DEF AnthropicBlocks
  <2>10. content = Three(before, res, after)
    BY DEF Three
  <2>11. before \in Seq(A) /\ res \in Seq(A) /\ after \in Seq(A)
    BY <2>5 DEF AnthropicBlocks
  <2> HIDE DEF res, content, f, m
  <2>12. FlatMap(GiveBlock, before) = <<>> /\ FlatMap(GiveBlock, after) = <<>>
    BY <2>9, FlatMapEmpty DEF GiveBlock
  <2>13. given = [i \in DOMAIN res |-> f[res[i]]]
    <3>1. res \in Seq(ResultBlocks)
      BY <2>5
    <3>2. FlatMap(GiveBlock, res) = [i \in DOMAIN res |-> f[res[i]]]
      BY <2>6, <3>1, FlatMapEach
    <3> QED BY <3>2
  <2>14. GiveBlock \in [A -> Seq(GivenResults)]
    BY <2>3, GiveBlocks
  <2>15. given \in Seq(GivenResults)
    BY <2>11, <2>14, FlatMapType
  <2>16. GivenBy(m) = FlatMap(GiveBlock, content)
    BY <2>3, GiveBlocks DEF GivenBy
  <2> HIDE DEF A
  <2>17. FlatMap(GiveBlock, Three(before, res, after))
           = Three(FlatMap(GiveBlock, before), FlatMap(GiveBlock, res), FlatMap(GiveBlock, after))
    <3>1. GiveBlock \in Maps(A, GivenResults) /\ before \in Lists(A) /\ res \in Lists(A) /\ after \in Lists(A)
      BY <2>11, <2>14 DEF Maps, Lists
    <3> QED BY <3>1, FlatMapThree
  <2> HIDE DEF given
  <2>18. Three(<<>>, given, <<>>) = given
    BY <2>15 DEF Three
  <2>19. GivenBy(m) = given
    BY <2>10, <2>12, <2>16, <2>17, <2>18 DEF given
  <2>20. DOMAIN given = 1..n /\ Len(given) = n /\ \A i \in 1..n : given[i].id = ids[i]
    BY <2>5, <2>13, <2>7, <2>8
  <2>21. GivenCalls(protocol, m) = <<>>
    <3>1. /\ \A i \in DOMAIN before : UseCalls[before[i]] = <<>>
          /\ \A i \in DOMAIN after : UseCalls[after[i]] = <<>>
          /\ \A i \in DOMAIN res : UseCalls[res[i]] = <<>>
      BY <2>9 DEF UseCalls, A
    <3>2. FlatMap(UseCalls, before) = <<>> /\ FlatMap(UseCalls, after) = <<>> /\ FlatMap(UseCalls, res) = <<>>
      BY <2>11, <3>1, FlatMapEmpty
    <3>3. UseCalls \in Maps(A, CallRecords) /\ before \in Lists(A) /\ res \in Lists(A) /\ after \in Lists(A)
      BY <2>11, UseCallsType DEF Maps, Lists, A
    <3>4. FlatMap(UseCalls, Three(before, res, after)) = Three(<<>>, <<>>, <<>>)
      BY <3>2, <3>3, FlatMapThree
    <3>5. Three(<<>>, <<>>, <<>>) = <<>>
      BY DEF Three
    <3> QED BY <1>4, <2>2, <2>3, <2>10, <3>4, <3>5, AnthropicCalls
  <2>22. PICK r \in Seq(ToolMessages), w \in Seq(OwnMessages) :
           /\ Through(protocol)[m] = r \o w
           /\ FlatMap(CallsIn, w) = GivenCalls(protocol, m)
           /\ Len(w) <= 1
           /\ Len(r) = Len(GivenBy(m))
           /\ \A k \in DOMAIN r : r[k].tool_call_id = GivenBy(m)[k].id
    BY <1>1, <2>2, Shape
  <2>23. w \in Seq(Calm)
    <3>1. CASE w = <<>>
      BY <3>1
    <3>2. CASE w # <<>>
      <4> DEFINE o == w[1]
      <4>1. w = <<o>> /\ o \in OwnMessages
        BY <2>22, <3>2, OnlyOne
      <4> HIDE DEF o
      <4>2. CallsIn \in [SentMessages -> Seq(CallRecords)] /\ o \in SentMessages
        BY <4>1, CountsAre DEF SentMessages
      <4>3. FlatMap(CallsIn, <<o>>) = CallsIn[o]
        BY <4>2, FlatMapOne
      <4>4. o.tool_calls = <<>>
        BY <2>21, <2>22, <4>1, <4>2, <4>3, CountsAre
      <4>5. o \in Calm
        BY <4>1, <4>4 DEF Calm
      <4> QED BY <4>1, <4>5
    <3> QED BY <3>1, <3>2
  <2>24. FlatMap(Through(protocol), rs) = r \o w
    <3> DEFINE T == Through(protocol)
    <3>1. T \in [H -> Seq(SentMessages)]
      BY <1>1, ThroughType
    <3> HIDE DEF T, H
    <3>2. FlatMap(T, <<m>>) = T[m]
      BY <2>2, <3>1, FlatMapOne
    <3> QED BY <2>1, <2>22, <3>2 DEF T
  <2>25. Len(r) = n /\ \A k \in DOMAIN r : r[k].tool_call_id = ids[k]
    <3>1. Len(r) = n
      BY <2>19, <2>20, <2>22
    <3>2. DOMAIN r = 1..n
      BY <3>1
    <3> QED BY <2>19, <2>20, <2>22, <3>1, <3>2
  <2> QED BY <1>1, <2>23, <2>24, <2>25
<1>5. CASE protocol = "openai"
  <2> DEFINE tools == [i \in DOMAIN ids |-> OpenAIMessage("tool", outcome.content, ids[i])]
             said1 == before \o after
             words == IF said1 = <<>> THEN <<>> ELSE <<OpenAIMessage("user", said1, Empty)>>
             T == Through(protocol)
  <2>1. rs = tools \o words
    BY <1>5 DEF Results
  <2>2. said1 \in Seq(UserBlocks)
    OBVIOUS
  <2>3. \A i \in 1..n : tools[i] \in OpenAIMessages /\ tools[i].role = "tool" /\ tools[i].tool_call_id = ids[i]
    <3>1. InParts(outcome.content) \in Seq(PartBlocks)
      BY <1>3, InPartsType
    <3> DEFINE c == InParts(outcome.content)
    <3>2. c \in Seq(PartBlocks)
      BY <3>1
    <3>3. \A i \in 1..n : tools[i] = [role |-> "tool", content |-> c, thinking |-> <<>>, tool_calls |-> <<>>,
                                      tool_call_id |-> ids[i]]
      BY <1>2 DEF OpenAIMessage
    <3> HIDE DEF c, tools
    <3>4. ASSUME NEW i \in 1..n
          PROVE  tools[i] \in OpenAIMessages /\ tools[i].role = "tool" /\ tools[i].tool_call_id = ids[i]
      <4> DEFINE t == tools[i]
                 id == ids[i]
      <4>1. t = [role |-> "tool", content |-> c, thinking |-> <<>>, tool_calls |-> <<>>, tool_call_id |-> id]
            /\ id \in IDs
        BY <1>2, <3>3
      <4> HIDE DEF t, id
      <4>2. t \in [role : {"tool"}, content : Seq(PartBlocks), thinking : {<<>>}, tool_calls : {<<>>},
                   tool_call_id : IDs]
        BY <3>2, <4>1
      <4>3. t \in OpenAIMessages /\ t.role = "tool" /\ t.tool_call_id = id
        BY <4>1, <4>2 DEF OpenAIMessages
      <4> QED BY <4>3 DEF t, id
    <3> QED BY <3>4
  <2>4. DOMAIN tools = 1..n /\ \A i \in 1..n : tools[i] \in H
    BY <1>2, <1>5, <2>3 DEF Histories
  <2>5. tools \in Seq(H) /\ Len(tools) = n
    BY <2>4
  <2>6. words \in Seq(Quiet(protocol))
    <3> DEFINE u == Speak("user", said1)
               Q == Quiet(protocol)
    <3>1. u = OpenAIMessage("user", said1, Empty)
      BY <1>5 DEF Speak
    <3>2. u \in Q
      BY <1>1, <2>2, SpeakType, SpokenQuiet
    <3> HIDE DEF u, Q
    <3>3. words = <<>> \/ words = <<u>>
      BY <3>1
    <3>4. words \in Seq(Q)
      BY <3>2, <3>3
    <3> QED BY <3>4 DEF Q
  <2>7. ASSUME NEW i \in 1..n
        PROVE  T[tools[i]] = <<T[tools[i]][1]>> /\ T[tools[i]][1] \in ToolMessages
               /\ T[tools[i]][1].tool_call_id = ids[i]
    <3> DEFINE t == tools[i]
    <3>1. t \in H /\ t.role = "tool" /\ t.tool_call_id = ids[i]
      BY <2>3, <2>4
    <3> HIDE DEF t
    <3>2. PICK r \in Seq(ToolMessages), w \in Seq(OwnMessages) :
            /\ T[t] = r \o w /\ (t.role = "tool" => w = <<>>)
            /\ Len(r) = Len(GivenBy(t)) /\ \A k \in DOMAIN r : r[k].tool_call_id = GivenBy(t)[k].id
      BY <1>1, <3>1, Shape
    <3>3. GivenBy(t) = <<[id |-> ids[i], words |-> Sendable(t.content), is_error |-> FALSE]>>
      BY <3>1 DEF GivenBy
    <3> DEFINE g == GivenBy(t)
    <3>4. Len(g) = 1 /\ g[1].id = ids[i]
      BY <3>3
    <3> HIDE DEF g
    <3>5. Len(r) = 1 /\ 1 \in DOMAIN r /\ r # <<>>
      <4>1. Len(r) = 1
        BY <3>2, <3>4 DEF g
      <4>2. DOMAIN r = 1..Len(r) /\ (r = <<>> => Len(r) = 0)
        OBVIOUS
      <4> QED BY <4>1, <4>2
    <3>6. r = <<r[1]>> /\ r[1] \in ToolMessages
      BY <3>5, OnlyOne
    <3>7. T[t] = r
      BY <3>1, <3>2
    <3>8. r[1].tool_call_id = ids[i]
      BY <3>2, <3>4, <3>5 DEF g
    <3> HIDE DEF T
    <3> QED BY <3>6, <3>7, <3>8 DEF t
  <2> DEFINE f == [x \in H |-> T[x][1]]
             r == [i \in DOMAIN tools |-> f[tools[i]]]
  <2>8. \A i \in DOMAIN tools : T[tools[i]] = <<f[tools[i]]>> /\ f[tools[i]] = T[tools[i]][1]
    BY <2>4, <2>7
  <2> HIDE DEF T, f, tools, words
  <2>9. FlatMap(T, tools) = r
    BY <2>5, <2>8, FlatMapEach
  <2>10. DOMAIN r = 1..n /\ \A i \in 1..n : r[i] \in ToolMessages /\ r[i].tool_call_id = ids[i]
    BY <2>4, <2>7, <2>8
  <2>11. r \in Seq(ToolMessages) /\ Len(r) = n
    BY <2>10
  <2>12. FlatMap(T, words) \in Seq(Calm) /\ words \in Seq(H)
    BY <1>1, <2>6, QuietCalm DEF T
  <2>13. FlatMap(T, rs) = FlatMap(T, tools) \o FlatMap(T, words)
    BY <1>1, <2>1, <2>5, <2>12, ThroughConcat DEF T
  <2> HIDE DEF r
  <2>14. FlatMap(Through(protocol), rs) = r \o FlatMap(T, words)
    BY <2>9, <2>13 DEF T
  <2> QED BY <1>1, <2>10, <2>11, <2>12, <2>14
<1> QED BY <1>1, <1>4, <1>5 DEF Protocols

LEMMA CallsReturnAnswered ==
  ASSUME TypeOK, CallsOpenLast, CallsReturn
  PROVE  CallsOpenLast'
<1> DEFINE T == Through(protocol)
           h == history
           ids == Pending
<1>1. protocol \in Protocols /\ h \in Seq(Histories(protocol))
  BY TypeOKIs
<1>2. phase' = "gateway" /\ protocol' = protocol /\ ids # <<>> /\ phase = "client"
  BY DEF CallsReturn
<1>3. Open(FlatMap(T, h), ids)
  BY <1>2 DEF CallsOpenLast, SoFar
<1>4. PICK outcome \in Outcomes, before \in Contents \cup {<<>>}, after \in Contents \cup {<<>>} :
        history' = h \o Results(outcome, before, after)
  BY DEF CallsReturn
<1>5. before \in Seq(UserBlocks) /\ after \in Seq(UserBlocks)
  BY ContentsType
<1> DEFINE rs == Results(outcome, before, after)
           s == FlatMap(T, h)
<1>6. rs \in Seq(Histories(protocol))
      /\ \E r \in Seq(ToolMessages), w \in Seq(Calm) :
           /\ FlatMap(T, rs) = r \o w /\ Len(r) = Len(ids) /\ \A k \in DOMAIN r : r[k].tool_call_id = ids[k]
  BY <1>5, ResultsGiven
<1>7. ids \in Seq(IDs)
  BY PendingType
<1> HIDE DEF rs, ids
<1>8. PICK r \in Seq(ToolMessages), w \in Seq(Calm) :
        /\ FlatMap(T, rs) = r \o w /\ Len(r) = Len(ids) /\ \A k \in DOMAIN r : r[k].tool_call_id = ids[k]
  BY <1>6
<1>9. FlatMap(T, h \o rs) = s \o FlatMap(T, rs)
  BY <1>1, <1>6, ThroughConcat
<1> HIDE DEF T, s
<1>10. PICK a \in Seq(SentMessages), m \in OwnMessages :
         /\ s = a \o <<m>> /\ Answered(a)
         /\ Len(m.tool_calls) = Len(ids) /\ \A k \in DOMAIN ids : m.tool_calls[k].id = ids[k]
  BY <1>3 DEF Open, s
<1>11. ResultsFor(r, m)
  <2>1. DOMAIN r = 1..Len(r) /\ DOMAIN ids = 1..Len(ids)
    BY <1>7
  <2> QED BY <1>8, <1>10, <2>1 DEF ResultsFor
<1> DEFINE one == <<m>>
           u == one \o r
<1>12. u \in Seq(SentMessages) /\ Answered(u)
  BY <1>11, UnitAnswered
<1>13. w \in Seq(SentMessages) /\ Answered(w)
  BY CalmAnswered
<1>14. one \in Seq(SentMessages) /\ r \in Seq(SentMessages)
  <2> DEFINE S == SentMessages
  <2>1. m \in S /\ r \in Seq(S)
    BY DEF SentMessages
  <2> HIDE DEF S
  <2>2. <<m>> \in Seq(S)
    BY <2>1
  <2> QED BY <2>1, <2>2 DEF S
<1> HIDE DEF one, u
<1>15. s \o (r \o w) = (a \o u) \o w
  <2> DEFINE S == SentMessages
  <2>1. a \in Lists(S) /\ one \in Lists(S) /\ r \in Lists(S) /\ w \in Lists(S) /\ s = a \o one
    BY <1>10, <1>13, <1>14 DEF Lists, one
  <2>2. s \in Lists(S)
    BY <1>10, <1>14, JoinedAt DEF Lists, one
  <2> HIDE DEF S
  <2>3. s \o (r \o w) = (s \o r) \o w
    BY <2>1, <2>2, ListsConcat
  <2>4. a \o (one \o r) = (a \o one) \o r
    BY <2>1, ListsConcat
  <2> QED BY <2>1, <2>3, <2>4 DEF u
<1>16. Answered(a \o u) /\ a \o u \in Seq(SentMessages)
  BY <1>10, <1>12, AnsweredConcat, JoinedAt
<1> DEFINE v == a \o u
<1>17. Answered(v) /\ v \in Seq(SentMessages)
  BY <1>16
<1> HIDE DEF v
<1>18. Answered(v \o w)
  BY <1>13, <1>17, AnsweredConcat
<1>19. Answered(FlatMap(T, history'))
  BY <1>4, <1>8, <1>9, <1>15, <1>18 DEF v, rs
<1> QED BY <1>2, <1>19 DEF CallsOpenLast, SoFar, T

LEMMA AnswerOpens ==
  ASSUME TypeOK, CallsOpenLast, Answer
  PROVE  CallsOpenLast'
<1> DEFINE p == protocol
           T == Through(p)
           h == history
           H == Histories(p)
           s == FlatMap(T, h)
<1>1. p \in Protocols /\ h \in Seq(H) /\ sent.web_search \in BOOLEAN
  BY TypeOKIs DEF SentOK
<1>2. phase = "upstream" /\ phase' = "client" /\ protocol' = protocol
  BY DEF Answer
<1>3. Answered(s)
  BY <1>2 DEF CallsOpenLast, SoFar
<1>4. \E x \in H : history' = Append(h, x) /\ x.role = "assistant"
  <2>1. PICK answer \in Seq(Upstream), results \in SourceLists :
           history' = Append(history,
                IF protocol = "anthropic" THEN AnthropicAnswer(answer, sent.web_search, results)
                ELSE OpenAIAnswer(answer, sent.web_search, results))
    BY AnswerSays
  <2>2. CASE protocol = "anthropic"
    <3> DEFINE x == AnthropicAnswer(answer, sent.web_search, results)
    <3>1. x \in H /\ history' = Append(h, x)
      BY <1>1, <2>1, <2>2, AnthropicAnswerType DEF Histories
    <3>2. x.role = "assistant"
      BY DEF AnthropicAnswer, Message
    <3> HIDE DEF x
    <3> QED BY <3>1, <3>2
  <2>3. CASE protocol = "openai"
    <3> DEFINE x == OpenAIAnswer(answer, sent.web_search, results)
    <3>1. x \in H /\ history' = Append(h, x)
      BY <1>1, <2>1, <2>3, OpenAIAnswerIs DEF Histories
    <3>2. x.role = "assistant"
      BY DEF OpenAIAnswer
    <3> HIDE DEF x
    <3> QED BY <3>1, <3>2
  <2> QED BY <1>1, <2>2, <2>3 DEF Protocols
<1>5. PICK x \in H : history' = Append(h, x) /\ x.role = "assistant"
  BY <1>4
<1>6. GivenBy(x) = <<>>
  BY <1>1, <1>5, AnswersGiveNone
<1> DEFINE t == T[x]
           c == GivenCalls(p, x)
<1>7. FlatMap(T, history') = s \o t /\ s \in Seq(SentMessages)
  <2>1. T \in [H -> Seq(SentMessages)] /\ h \in Seq(H)
    BY <1>1, ThroughType
  <2> HIDE DEF T, H, h
  <2>2. FlatMap(T, Append(h, x)) = FlatMap(T, h) \o T[x]
    BY <2>1, FlatMapAppend
  <2>3. FlatMap(T, h) \in Seq(SentMessages)
    BY <2>1, FlatMapType
  <2> QED BY <1>5, <2>2, <2>3
<1>8. /\ c \in Seq(CallRecords) /\ Len(CallIDs(x)) = Len(c)
      /\ DOMAIN CallIDs(x) = DOMAIN c /\ \A k \in DOMAIN c : CallIDs(x)[k] = c[k].id
  BY <1>1, CallIDsAre
<1>9. history' # <<>> /\ history'[Len(history')] = x
  BY <1>5
<1>10. Pending' = CallIDs(x)
  BY <1>2, <1>9 DEF Pending, CallIDs
<1> DEFINE ids == CallIDs(x)
<1>11. CASE c = <<>>
  <2>1. Quiet(p) \subseteq H /\ x \in Quiet(p)
    BY <1>6, <1>11 DEF Quiet
  <2>2. t \in Seq(Calm)
    BY <1>1, <1>6, <1>11, QuietIsCalm
  <2> HIDE DEF t, s
  <2>3. Answered(s \o t)
    BY <1>3, <1>7, <2>2, CalmAnswered, AnsweredConcat
  <2>4. Pending' = <<>>
    <3>1. ids = <<>>
      BY <1>8, <1>11 DEF CallIDs
    <3> QED BY <1>10, <3>1
  <2> QED BY <1>2, <1>7, <2>3, <2>4 DEF CallsOpenLast, SoFar
<1>12. CASE c # <<>>
  <2>1. PICK r \in Seq(ToolMessages), w \in Seq(OwnMessages) :
          /\ t = r \o w /\ Len(w) <= 1
          /\ FlatMap(CallsIn, w) = c
          /\ Len(r) = Len(GivenBy(x))
    BY <1>1, Shape
  <2>2. r = <<>> /\ t = w
    BY <1>6, <2>1
  <2> HIDE DEF t, c
  <2>3. w # <<>>
    BY <1>12, <2>1, FlatMapNone
  <2> DEFINE o == w[1]
  <2>4. w = <<o>> /\ o \in OwnMessages
    BY <2>1, <2>3, OnlyOne
  <2> HIDE DEF o
  <2>5. CallsIn \in [SentMessages -> Seq(CallRecords)] /\ o \in SentMessages
    BY <2>4, CountsAre DEF SentMessages
  <2>6. FlatMap(CallsIn, <<o>>) = CallsIn[o]
    BY <2>5, FlatMapOne
  <2>7. o.tool_calls = c
    BY <2>1, <2>4, <2>5, <2>6, CountsAre
  <2> HIDE DEF s, ids
  <2>8. FlatMap(T, history') = s \o <<o>>
    BY <1>7, <2>2, <2>4
  <2>9. Len(o.tool_calls) = Len(ids) /\ \A k \in DOMAIN ids : o.tool_calls[k].id = ids[k]
    BY <1>8, <2>7 DEF ids
  <2>10. Open(FlatMap(T, history'), ids)
    BY <1>3, <1>7, <2>4, <2>8, <2>9 DEF Open
  <2>11. ids # <<>>
    BY <1>8, <1>12 DEF ids
  <2> QED BY <1>2, <1>10, <2>10, <2>11 DEF CallsOpenLast, SoFar, ids
<1> QED BY <1>11, <1>12

LEMMA NextCallsOpenLast ==
  ASSUME TypeOK, CallsOpenLast, [Next]_vars
  PROVE  CallsOpenLast'
BY UserSpeaksAnswered, CallsReturnAnswered, AnswerOpens DEF Forward, CallsOpenLast, SoFar, vars, Done,
   Pending, CallIDs, Next

\* What a request sends is as the property says.
AsTheySay(ms) ==
  LET ResultsAt(i) == Each(LAMBDA c : <<c.id>>, ms[i].tool_calls)
  IN  /\ \A i \in DOMAIN ms : \A k \in DOMAIN ms[i].tool_calls :
           i + k \in DOMAIN ms /\ ms[i + k].tool_call_id = ResultsAt(i)[k]
      /\ Len(Each(LAMBDA m : IF m.role = "tool" THEN <<m>> ELSE <<>>, ms))
           = Len(Each(LAMBDA m : m.tool_calls, ms))

LEMMA AnsweredIs ==
  ASSUME NEW ms \in Seq(SentMessages), Answered(ms)
  PROVE  AsTheySay(ms)
<1>1. Each(LAMBDA m : m.tool_calls, ms) = FlatMap(CallsIn, ms)
  BY InferIs
<1>2. \A i \in DOMAIN ms : ms[i] \in SentMessages
  OBVIOUS
<1>3. Each(LAMBDA m : IF m.role = "tool" THEN <<m>> ELSE <<>>, ms) = FlatMap(OnlyTools, ms)
  BY <1>2 DEF OnlyTools, Each, FlatMap
<1>4. ASSUME NEW i \in DOMAIN ms, NEW k \in DOMAIN ms[i].tool_calls
      PROVE  i + k \in DOMAIN ms /\ ms[i + k].tool_call_id = Each(LAMBDA c : <<c.id>>, ms[i].tool_calls)[k]
  <2> DEFINE s == ms[i].tool_calls
             f == [c \in CallRecords |-> c.id]
             g == [c \in CallRecords |-> <<f[c]>>]
  <2>1. s \in Seq(CallRecords)
    BY <1>2, CountsAre
  <2>2. i + k \in DOMAIN ms /\ ms[i + k].tool_call_id = s[k].id
    BY DEF Answered
  <2>3. k \in DOMAIN s
    OBVIOUS
  <2> HIDE DEF s
  <2>4. \A j \in DOMAIN s : s[j] \in CallRecords
    BY <2>1
  <2>5. \A j \in DOMAIN s : g[s[j]] = <<f[s[j]]>> /\ g[s[j]] = <<s[j].id>> /\ f[s[j]] = s[j].id
    BY <2>4
  <2> HIDE DEF f, g
  <2>6. Each(LAMBDA c : <<c.id>>, s) = FlatMap(g, s)
    BY <2>5 DEF Each, FlatMap
  <2>7. FlatMap(g, s) = [j \in DOMAIN s |-> f[s[j]]]
    <3>1. \A j \in DOMAIN s : g[s[j]] = <<f[s[j]]>>
      BY <2>5
    <3> QED BY <2>1, <3>1, FlatMapEach
  <2>8. Each(LAMBDA c : <<c.id>>, s)[k] = s[k].id
    BY <2>3, <2>5, <2>6, <2>7
  <2> QED BY <2>2, <2>8 DEF s
<1> QED BY <1>1, <1>3, <1>4 DEF AsTheySay, Answered

LEMMA ForwardAnswers ==
  ASSUME TypeOK, CallsOpenLast, Forward
  PROVE  ToolResultsFollowCalls'
<1> DEFINE p == protocol
           h == history
           texts == SystemTexts(p, asked'.system, h)
           x == FlatMap(SystemMessages, texts)
           y == FlatMap(Through(p), h)
<1>1. p \in Protocols /\ h \in Seq(Histories(p)) /\ asked'.system \in Seq(Texts("text"))
      /\ sent'.messages = ReRole(Unroled(p, asked'.system, h))
  BY ForwardSends DEF Requests
<1>2. phase = "gateway"
  BY DEF Forward
<1>3. Answered(y)
  BY <1>2 DEF CallsOpenLast, SoFar
<1>4. y \in Seq(SentMessages) /\ y = FlatMap(Encode, FlatMap(Decode(p), h))
  BY <1>1, ThroughType, ThroughConcat
<1>5. texts \in Seq(Texts("text"))
  BY <1>1, UnroledType
<1>6. x \in Seq(Calm)
  BY <1>5, SystemCalm
<1>7. Unroled(p, asked'.system, h) = x \o y
  BY <1>4 DEF Unroled
<1> HIDE DEF x, y
<1>8. Answered(x) /\ x \in Seq(SentMessages)
  BY <1>6, CalmAnswered
<1> DEFINE ms == x \o y
<1>9. Answered(ms) /\ ms \in Seq(SentMessages)
  BY <1>3, <1>4, <1>8, AnsweredConcat, JoinedAt
<1> HIDE DEF ms
<1>10. Answered(ReRole(ms)) /\ ReRole(ms) \in Seq(SentMessages)
  BY <1>9, ReRoleAnswered, ReRoleType
<1>11. sent'.messages = ReRole(ms)
  BY <1>1, <1>7 DEF ms
<1>12. AsTheySay(sent'.messages)
  BY <1>10, <1>11, AnsweredIs
<1> QED BY <1>12 DEF AsTheySay, ToolResultsFollowCalls, Each

LEMMA FollowStays ==
  ASSUME ToolResultsFollowCalls, UNCHANGED <<phase, sent>>
  PROVE  ToolResultsFollowCalls'
BY DEF IsSent, ToolResultsFollowCalls, Each

\* ToolResultsFollowCalls: in every request, whatever was called and however
\* the client mixed its results with words, every call is followed by its
\* result, and no result stands anywhere else (upstream.go:285).
THEOREM ResultsStayWithCalls == Spec => []ToolResultsFollowCalls
<1>1. Init => CallsOpenLast /\ ToolResultsFollowCalls
  <2> SUFFICES ASSUME Init PROVE CallsOpenLast /\ ToolResultsFollowCalls
    OBVIOUS
  <2>1. history = <<>> /\ phase = "client" /\ Pending = <<>>
    BY DEF Init, Pending
  <2>2. SoFar = <<>>
    BY <2>1, FlatMapNone DEF SoFar
  <2>3. <<>> \in Seq(Calm)
    OBVIOUS
  <2>4. Answered(<<>>)
    BY <2>3, CalmAnswered
  <2> QED BY <2>1, <2>2, <2>4 DEF CallsOpenLast, ToolResultsFollowCalls, IsSent
<1>2. TypeOK /\ CallsOpenLast /\ ToolResultsFollowCalls /\ [Next]_vars
        => CallsOpenLast' /\ ToolResultsFollowCalls'
  <2> SUFFICES ASSUME TypeOK, CallsOpenLast, ToolResultsFollowCalls, [Next]_vars
               PROVE  CallsOpenLast' /\ ToolResultsFollowCalls'
    OBVIOUS
  <2>1. CallsOpenLast'
    BY NextCallsOpenLast
  <2>2. CASE Forward
    BY <2>1, <2>2, ForwardAnswers
  <2>3. CASE UNCHANGED vars \/ Done
    BY <2>3, <2>1, FollowStays DEF vars, Done
  <2>4. CASE UserSpeaks \/ CallsReturn \/ Answer
    <3>1. phase' # "upstream"
      BY <2>4 DEF UserSpeaks, CallsReturn, Answer
    <3> QED BY <2>1, <3>1 DEF ToolResultsFollowCalls, IsSent
  <2> QED BY <2>2, <2>3, <2>4 DEF Next
<1> QED BY <1>1, <1>2, ConversationTypes, PTL DEF Spec

(* ------------------ what the upstream said comes back ------------------- *)

\* Texts that the upstream has not said.
MuteBlock(b) == b.type = "text" => ~OfUpstream(b.val)
MuteSeq(s) == \A i \in DOMAIN s : MuteBlock(s[i])
Muted(S) == {b \in S : MuteBlock(b)}
\* Also the results' contents.
MuteContent(s) ==
  \A i \in DOMAIN s : MuteBlock(s[i]) /\ (s[i].type = "tool_result" => MuteSeq(s[i].val.content))
Mute1 == {b \in Blocks1 : MuteBlock(b) /\ (b.type = "tool_result" => MuteSeq(b.val.content))}
AllParts == SentParts \cup Errors
MuteMessages == {m \in SentMessages : m.content \in Seq(AllParts) /\ MuteSeq(m.content)}

LEMMA MutedSeq ==
  ASSUME NEW S, NEW s \in Seq(S)
  PROVE  s \in Seq(Muted(S)) <=> MuteSeq(s)
<1>1. s \in Seq(Muted(S)) => MuteSeq(s)
  <2> SUFFICES ASSUME s \in Seq(Muted(S)) PROVE MuteSeq(s)
    OBVIOUS
  <2>1. \A i \in DOMAIN s : s[i] \in Muted(S)
    OBVIOUS
  <2> QED BY <2>1 DEF MuteSeq, Muted
<1>2. ASSUME MuteSeq(s) PROVE s \in Seq(Muted(S))
  BY <1>2 DEF MuteSeq, Muted
<1> QED BY <1>1, <1>2

LEMMA MuteParts ==
  ASSUME NEW s \in Seq(Blocks1), MuteSeq(s)
  PROVE  FlatMap(EncodeParts, s) \in Seq(SentParts) /\ MuteSeq(FlatMap(EncodeParts, s))
<1> DEFINE M == Muted(SentParts)
<1>1. ASSUME NEW b \in Blocks1, MuteBlock(b) PROVE EncodePart(b) \in Seq(M)
  <2>1. CASE b.type = "text"
    <3>1. EncodePart(b) = <<b>> /\ b \in Texts("text")
      BY <2>1, EncodePartType, Block1Kinds
    <3>2. b \in M
      BY <1>1, <3>1 DEF Muted, SentParts
    <3> HIDE DEF M
    <3> QED BY <3>1, <3>2
  <2>2. CASE b.type = "image" /\ b.val # Empty
    <3> DEFINE i == [type |-> "image_url", id |-> "base64", val |-> b.val]
    <3>1. EncodePart(b) = <<i>> /\ b \in Images("image", {"base64"})
      BY <2>2, EncodePartType, Block1Kinds
    <3>2. i \in M
      BY <2>2, <3>1 DEF Muted, SentParts, Images, MuteBlock
    <3> HIDE DEF M, i
    <3> QED BY <3>1, <3>2
  <2>3. CASE b.type \notin {"text", "image"} \/ (b.type = "image" /\ b.val = Empty)
    BY <2>3, EncodePartType
  <2> QED BY <2>1, <2>2, <2>3
<1>2. \A i \in DOMAIN s : s[i] \in Blocks1 /\ MuteBlock(s[i])
  BY DEF MuteSeq
<1>3. \A i \in DOMAIN s : EncodeParts[s[i]] = EncodePart(s[i])
  BY <1>2 DEF EncodeParts
<1>4. \A i \in DOMAIN s : EncodeParts[s[i]] \in Seq(M)
  BY <1>1, <1>2, <1>3
<1> HIDE DEF M
<1>5. FlatMap(EncodeParts, s) \in Seq(M)
  BY <1>4, FlatMapInto
<1>6. FlatMap(EncodeParts, s) \in Seq(SentParts)
  BY EncodePartsEach
<1> QED BY <1>5, <1>6, MutedSeq DEF M

LEMMA MuteResult ==
  ASSUME NEW r \in Results1, MuteSeq(r.val.content)
  PROVE  EncodeToolResultContent(r.val) \in Seq(AllParts) /\ MuteSeq(EncodeToolResultContent(r.val))
<1> DEFINE parts == FlatMap(EncodeParts, r.val.content)
           out == EncodeToolResultContent(r.val)
<1>1. /\ parts \in Seq(SentParts) /\ out \in Seq(SentParts \cup Errors)
      /\ ~r.val.is_error => out = parts
      /\ r.val.is_error =>
           \/ out = <<Block("text", Empty, <<ErrorMark>>)>> \o parts
           \/ /\ parts # <<>> /\ parts[1].type = "text"
              /\ out = [parts EXCEPT ![1].val = <<ErrorMark>> \o @]
  BY ResultContent
<1>2. r.val.content \in Seq(Blocks1)
  BY DEF Results1, Blocks1
<1>3. MuteSeq(parts)
  BY <1>2, MuteParts
<1>4. r.val.is_error \in BOOLEAN
  BY DEF Results1
<1>5. \A v \in Seq(Pieces) : ~OfUpstream(<<ErrorMark>> \o v)
  <2> TAKE v \in Seq(Pieces)
  <2>1. (<<ErrorMark>> \o v)[1] = ErrorMark
    OBVIOUS
  <2> QED BY <2>1, SpeakersAssumption DEF OfUpstream
<1>6. MuteBlock(Block("text", Empty, <<ErrorMark>>))
  BY SpeakersAssumption DEF MuteBlock, Block, OfUpstream
<1> DEFINE n == Len(parts)
           e == Block("text", Empty, <<ErrorMark>>)
           one == <<e>>
<1>7. n \in Nat /\ DOMAIN parts = 1..n /\ \A i \in 1..n : parts[i] \in SentParts
  BY <1>1
<1> HIDE DEF parts, out, e, n
<1>8. MuteSeq(one \o parts)
  <2> DEFINE E == {e} \cup SentParts
  <2>1. one \in Seq(E) /\ parts \in Seq(E) /\ Len(one) = 1 /\ one[1] = e
    BY <1>1
  <2> HIDE DEF E, one
  <2> DEFINE q == one \o parts
  <2>2. q \in Seq(E) /\ Len(q) = 1 + Len(parts) /\ q[1] = e
        /\ \A i \in 1..Len(parts) : q[1 + i] = parts[i]
    <3>1. (\A i \in 1..Len(one) : q[i] = one[i]) /\ q \in Seq(E) /\ Len(q) = Len(one) + Len(parts)
          /\ \A i \in 1..Len(parts) : q[Len(one) + i] = parts[i]
      <4>1. one \in Seq(E) /\ parts \in Seq(E)
        BY <2>1
      <4> QED BY <4>1, JoinedAt
    <3> HIDE DEF q
    <3> QED BY <2>1, <3>1
  <2> HIDE DEF q
  <2>3. DOMAIN q = 1..(1 + n)
    BY <1>7, <2>2 DEF n
  <2>4. ASSUME NEW i \in 1..(1 + n) PROVE MuteBlock(q[i])
    <3>1. CASE i = 1
      BY <1>6, <2>2, <3>1 DEF e
    <3>2. CASE i # 1
      <4>1. i - 1 \in 1..n /\ 1 + (i - 1) = i
        BY <1>7, <3>2
      <4>2. q[i] = parts[i - 1]
        BY <2>2, <4>1 DEF n
      <4> QED BY <1>3, <1>7, <4>1, <4>2 DEF MuteSeq
    <3> QED BY <3>1, <3>2
  <2> QED BY <2>3, <2>4 DEF MuteSeq, q
<1>9. ASSUME parts # <<>>, parts[1].type = "text", out = [parts EXCEPT ![1].val = <<ErrorMark>> \o @]
      PROVE  MuteSeq(out)
  <2>1. DOMAIN out = DOMAIN parts /\ \A i \in DOMAIN parts : i # 1 => out[i] = parts[i]
    BY <1>9
  <2>2. n # 0
    <3>1. n = 0 => parts = <<>>
      BY <1>1, <1>7 DEF n
    <3> QED BY <1>9, <3>1
  <2>3. 1 \in DOMAIN parts /\ parts[1] \in SentParts
    BY <1>7, <2>2
  <2>4. parts[1] \in Texts("text")
    BY <1>9, <2>3 DEF SentParts, Texts, Images
  <2>5. parts[1].val \in Seq(Pieces) /\ out[1].val = <<ErrorMark>> \o parts[1].val
    BY <1>9, <2>3, <2>4 DEF Texts
  <2>6. MuteBlock(out[1])
    BY <1>5, <2>5 DEF MuteBlock
  <2> QED BY <1>3, <2>1, <2>6 DEF MuteSeq
<1>10. MuteSeq(out)
  BY <1>1, <1>3, <1>4, <1>8, <1>9 DEF e
<1> QED BY <1>1, <1>10 DEF out, AllParts

LEMMA MuteEncoded ==
  ASSUME NEW c \in Messages1, c.content \in Seq(Mute1)
  PROVE  Encode[c] \in Seq(MuteMessages)
<1> DEFINE s == c.content
           parts == FlatMap(EncodeParts, s)
           calls == FlatMap(CallsOf, s)
           results == FlatMap(ResultsOf, s)
           own == ChatMessage(c.role, parts, calls, Empty)
           one == <<own>>
           none == <<>>
           M == MuteMessages
<1>1. /\ parts \in Seq(SentParts) /\ calls \in Seq(CallRecords) /\ results \in Seq(ToolMessages)
      /\ c.role = "tool" => Encode[c] = results
      /\ c.role = "user" => /\ parts = <<>> => Encode[c] = results
                            /\ parts # <<>> => Encode[c] = results \o one /\ own \in OwnMessages
      /\ c.role = "assistant" =>
           /\ parts = <<>> /\ calls = <<>> => Encode[c] = none
           /\ ~(parts = <<>> /\ calls = <<>>) => Encode[c] = one /\ own \in OwnMessages
  BY EncodeType
<1>2. c.role \in {"user", "tool", "assistant"} /\ s \in Seq(Blocks1)
  BY Message1Kinds
<1>3. \A i \in DOMAIN s : s[i] \in Mute1
  OBVIOUS
<1>4. MuteSeq(s)
  BY <1>3 DEF MuteSeq, Mute1
<1>5. MuteSeq(parts)
  BY <1>2, <1>4, MuteParts
<1>6. ASSUME NEW b \in Mute1 PROVE ResultsOf[b] \in Seq(M)
  <2>1. CASE b.type = "tool_result"
    <3> DEFINE content == EncodeToolResultContent(b.val)
               t == ChatMessage("tool", content, <<>>, b.id)
    <3>1. b \in Results1 /\ MuteSeq(b.val.content) /\ b \in Blocks1
      BY <2>1, Block1Kinds DEF Mute1
    <3>2. content \in Seq(AllParts) /\ MuteSeq(content)
      BY <3>1, MuteResult
    <3>3. b.id \in IDs
      BY <3>1 DEF Results1
    <3>4. ResultsOf[b] = <<t>>
      BY <2>1, <3>1 DEF ResultsOf, EncodeToolResult
    <3>5. t = [role |-> "tool", content |-> content, tool_calls |-> <<>>, tool_call_id |-> b.id]
      BY DEF ChatMessage
    <3> HIDE DEF content, t
    <3>6. t \in SentMessages /\ t.content = content
      BY <3>2, <3>3, <3>5 DEF SentMessages, ToolMessages, AllParts
    <3>7. t \in M
      BY <3>2, <3>6 DEF MuteMessages
    <3> HIDE DEF M
    <3> QED BY <3>4, <3>7
  <2>2. CASE b.type # "tool_result"
    BY <2>2 DEF ResultsOf, Mute1
  <2> QED BY <2>1, <2>2
<1>7. own \in OwnMessages => own \in M
  <2> SUFFICES ASSUME own \in OwnMessages PROVE own \in M
    OBVIOUS
  <2>1. own.content = parts
    BY DEF ChatMessage
  <2> HIDE DEF own, parts
  <2>2. parts \in Seq(AllParts)
    BY <1>1 DEF AllParts
  <2> QED BY <1>5, <2>1, <2>2 DEF MuteMessages, SentMessages
<1> HIDE DEF parts, calls, own, M
<1>8. results \in Seq(M)
  BY <1>6, FlatMapInto
<1> HIDE DEF results, s
<1>9. none \in Seq(M) /\ (own \in OwnMessages => one \in Seq(M))
  BY <1>7
<1>10. own \in OwnMessages => results \o one \in Seq(M)
  BY <1>8, <1>9, JoinedAt
<1> HIDE DEF one, none
<1> QED BY <1>1, <1>2, <1>8, <1>9, <1>10 DEF M

LEMMA MuteDecodedBlock ==
  ASSUME NEW b \in AnthropicBlocks, MuteBlock(b), b.type = "tool_result" => MuteSeq(b.val.content)
  PROVE  DecodeAnthropicBlock(b) \in Seq(Mute1) /\ MuteSeq(DecodePlainBlock(b))
<1> DEFINE M == Mute1
<1>0. MuteSeq(DecodePlainBlock(b))
  <2> DEFINE x == Block("tool_call", b.id, [b.val EXCEPT !.args = Reparsed[@]])
  <2>1. DecodePlainBlock(b) = <<b>> \/ DecodePlainBlock(b) = <<x>> \/ DecodePlainBlock(b) = <<>>
    BY DEF DecodePlainBlock
  <2>2. x.type = "tool_call"
    BY DEF Block
  <2> HIDE DEF x
  <2> QED BY <2>1, <2>2 DEF MuteSeq, MuteBlock
<1>1. CASE b \in ResultBlocks
  <2> DEFINE content == FlatMap(DecodePlain, b.val.content)
             r == [type |-> "tool_result", id |-> b.id, val |-> [content |-> content, is_error |-> b.val.is_error]]
  <2>1. r \in Results1 /\ DecodeAnthropicBlock(b) = <<r>> /\ b.type = "tool_result"
    BY <1>1, DecodeBlockType, BlockKinds
  <2>2. b.val.content \in Seq(UserBlocks) /\ MuteSeq(b.val.content)
    BY <1>1, <2>1, ContentsType DEF ResultBlocks
  <2> DEFINE s == b.val.content
             P == Muted(Parts1)
  <2>3. ASSUME NEW i \in DOMAIN s PROVE DecodePlain[s[i]] \in Seq(P)
    <3> DEFINE e == s[i]
    <3>1. e \in UserBlocks /\ MuteBlock(e) /\ e \in AnthropicBlocks /\ e.type \in {"text", "image"}
      BY <2>2, BlockKinds DEF MuteSeq, AnthropicBlocks
    <3> HIDE DEF e
    <3>2. DecodePlain[e] = DecodePlainBlock(e) /\ DecodePlainBlock(e) \in Seq(Parts1)
      BY <3>1, DecodePlainType DEF DecodePlain
    <3>3. DecodePlainBlock(e) = <<e>> \/ DecodePlainBlock(e) = <<>>
      BY <3>1 DEF DecodePlainBlock
    <3>4. MuteSeq(DecodePlainBlock(e))
      BY <3>1, <3>3 DEF MuteSeq
    <3> QED BY <3>2, <3>4, MutedSeq DEF e
  <2> HIDE DEF P
  <2>4. content \in Seq(P)
    BY <2>2, <2>3, FlatMapInto
  <2>5. content \in Seq(Parts1)
    BY <2>4 DEF P, Muted
  <2>6. MuteSeq(content)
    BY <2>4, <2>5, MutedSeq DEF P
  <2>7. r.type = "tool_result" /\ r.val.content = content
    OBVIOUS
  <2> HIDE DEF content, r
  <2>8. r \in M
    BY <2>1, <2>6, <2>7 DEF Mute1, MuteBlock, Blocks1
  <2> HIDE DEF M
  <2> QED BY <1>0, <2>1, <2>8 DEF M
<1>2. CASE b \notin ResultBlocks
  <2> DEFINE d == DecodePlainBlock(b)
             Plain == Parts1 \cup Texts("thinking") \cup Calls1
  <2>1. b \in UserBlocks \cup AnswerBlocks
    BY <1>2 DEF AnthropicBlocks
  <2>2. DecodeAnthropicBlock(b) = d /\ d \in Seq(Plain)
    BY <2>1, DecodeBlockType, DecodePlainType
  <2>3. \A e \in Plain : e \in Blocks1 /\ e.type # "tool_result"
    BY DEF Blocks1, Parts1, Texts, Images, Calls1
  <2>4. MuteSeq(d)
    BY <1>0
  <2> HIDE DEF d, Plain
  <2>5. d \in Seq(Muted(Plain))
    BY <2>2, <2>4, MutedSeq
  <2>6. Muted(Plain) \subseteq Mute1
    BY <2>3 DEF Muted, Mute1
  <2>7. d \in Seq(Mute1)
    BY <2>5, <2>6
  <2> QED BY <1>0, <2>2, <2>7
<1> QED BY <1>1, <1>2

LEMMA MuteDecoded ==
  ASSUME NEW p \in Protocols, NEW m \in Histories(p), MuteContent(m.content),
         NEW c \in Messages1, Decode(p)[m] = <<c>>
  PROVE  c.content \in Seq(Mute1)
<1> DEFINE M == Mute1
<1>0. \A role, content : <<c>> = Messages(role, content) => c.content = content
  BY DEF Messages, Message
<1>1. CASE p = "anthropic"
  <2> DEFINE s == m.content
  <2>1. Decode(p)[m] = Messages(m.role, FlatMap(DecodeBlock, s)) /\ s \in Seq(AnthropicBlocks)
    BY <1>1, DecodeAnthropicType DEF Decode, Histories
  <2>2. c.content = FlatMap(DecodeBlock, s)
    BY <1>0, <2>1
  <2>3. ASSUME NEW i \in DOMAIN s PROVE DecodeBlock[s[i]] \in Seq(M)
    BY <2>1, MuteDecodedBlock DEF MuteContent, DecodeBlock
  <2> HIDE DEF M, s
  <2>4. FlatMap(DecodeBlock, s) \in Seq(M)
    BY <2>1, <2>3, FlatMapInto
  <2> QED BY <2>2, <2>4 DEF M
<1>2. CASE p = "openai"
  <2> DEFINE parts == FlatMap(DecodeParts, m.content)
             calls == FlatMap(DecodeCalls, m.tool_calls)
             result == Block("tool_result", m.tool_call_id, [content |-> parts, is_error |-> FALSE])
  <2>0. m \in OpenAIMessages /\ m.role # "system"
    BY <1>2 DEF Histories, Decode, DecodeOpenAI
  <2>1. /\ parts \in Seq(Parts1) /\ calls \in Seq(Calls1)
        /\ m.role = "user" => Decode(p)[m] = Messages("user", parts)
        /\ m.role = "tool" => Decode(p)[m] = Messages("tool", parts \o <<result>>) /\ result \in Results1
        /\ m.role = "assistant" => Decode(p)[m] = Messages("assistant", m.thinking \o parts \o calls)
    BY <1>2, <2>0, DecodeOpenAIType DEF Decode
  <2>2. m.role \in Roles /\ m.content \in Seq(PartBlocks) /\ m.thinking \in Seq(Texts("thinking"))
    BY <2>0, OpenAIKinds
  <2>3. ASSUME NEW i \in DOMAIN m.content PROVE DecodeParts[m.content[i]] \in Seq(Muted(Parts1))
    <3> DEFINE b == m.content[i]
    <3>1. b \in PartBlocks /\ MuteBlock(b)
      BY <2>2 DEF MuteContent
    <3> HIDE DEF b
    <3>2. DecodeParts[b] = DecodePart(b) /\ DecodePart(b) \in Seq(Parts1)
      BY <3>1, DecodePartType DEF DecodeParts
    <3>3. DecodePart(b) = <<b>> \/ DecodePart(b) = <<Block("image", "base64", b.val)>> \/ DecodePart(b) = <<>>
      BY DEF DecodePart
    <3>4. MuteBlock(Block("image", "base64", b.val))
      BY DEF MuteBlock, Block
    <3> DEFINE x == Block("image", "base64", b.val)
    <3>5. DecodePart(b) = <<b>> \/ DecodePart(b) = <<x>> \/ DecodePart(b) = <<>>
      BY <3>3
    <3> HIDE DEF x
    <3>6. MuteSeq(DecodePart(b))
      BY <3>1, <3>4, <3>5 DEF MuteSeq, x
    <3> QED BY <3>2, <3>6, MutedSeq DEF b
  <2> DEFINE P == Muted(Parts1)
             w == m.content
  <2>4. P \subseteq M
    BY DEF Muted, Mute1, Parts1, Blocks1, Texts, Images
  <2> HIDE DEF P, w
  <2>5. FlatMap(DecodeParts, w) \in Seq(P)
    BY <2>2, <2>3, FlatMapInto DEF w, P
  <2>6. parts \in Seq(P)
    BY <2>5 DEF w
  <2>7. MuteSeq(parts)
    BY <2>1, <2>6, MutedSeq DEF P
  <2>8. Texts("thinking") \subseteq M /\ Calls1 \subseteq M
    BY DEF Mute1, MuteBlock, Blocks1, Texts, Calls1
  <2>9. result \in Results1 => result \in M
    BY <2>7 DEF Block, Mute1, MuteBlock, Blocks1
  <2> HIDE DEF parts, calls, result, M
  <2> DEFINE t == m.thinking
  <2>10. parts \in Seq(M) /\ t \in Seq(M) /\ calls \in Seq(M)
    BY <2>1, <2>2, <2>4, <2>6, <2>8
  <2>11. CASE m.role = "user"
    BY <1>0, <2>1, <2>10, <2>11 DEF M
  <2>12. CASE m.role = "tool"
    <3>1. c.content = parts \o <<result>> /\ result \in M
      BY <1>0, <2>1, <2>9, <2>12
    <3> QED BY <2>10, <3>1 DEF M
  <2>13. CASE m.role = "assistant"
    <3> HIDE DEF t
    <3>1. c.content = (t \o parts) \o calls
      BY <1>0, <2>1, <2>13 DEF t
    <3>2. (t \o parts) \o calls \in Seq(M)
      BY <2>10
    <3> QED BY <3>1, <3>2 DEF M
  <2> QED BY <2>0, <2>2, <2>11, <2>12, <2>13 DEF Roles
<1> QED BY <1>1, <1>2 DEF Protocols

LEMMA MuteThrough ==
  ASSUME NEW p \in Protocols, NEW m \in Histories(p), MuteContent(m.content)
  PROVE  Through(p)[m] \in Seq(MuteMessages)
<1> DEFINE d == Decode(p)[m]
           M == MuteMessages
<1>1. Through(p)[m] = FlatMap(Encode, d)
  BY DEF Through
<1>2. CASE d = <<>>
  <2>1. Through(p)[m] = <<>>
    BY <1>1, <1>2, FlatMapNone
  <2> HIDE DEF M
  <2>2. <<>> \in Seq(M)
    OBVIOUS
  <2> QED BY <2>1, <2>2 DEF M
<1>3. CASE d # <<>>
  <2>1. PICK c \in Messages1 : d = <<c>>
    BY <1>3, DecodedOne
  <2>2. c.content \in Seq(Mute1)
    BY <2>1, MuteDecoded
  <2>3. Encode \in [Messages1 -> Seq(SentMessages)]
    BY EncodeType DEF Encode
  <2>4. FlatMap(Encode, <<c>>) = Encode[c]
    BY <2>3, FlatMapOne
  <2> QED BY <1>1, <2>1, <2>2, <2>4, MuteEncoded
<1> QED BY <1>2, <1>3

\* The texts of the upstream in what is sent.
SomeTexts == Seq(Pieces \cup {ErrorMark})
UpBlock == [b \in AllParts |-> IF b.type = "text" /\ OfUpstream(b.val) THEN <<b.val>> ELSE <<>>]
UpText == [m \in SentMessages |-> FlatMap(UpBlock, m.content)]

LEMMA UpTextType ==
  /\ UpBlock \in [AllParts -> Seq(SomeTexts)] /\ UpText \in [SentMessages -> Seq(SomeTexts)]
  /\ \A m \in SentMessages : m.content \in Seq(AllParts)
<1>1. ASSUME NEW b \in AllParts PROVE UpBlock[b] \in Seq(SomeTexts)
  <2> DEFINE v == b.val
             S == SomeTexts
  <2>1. CASE b.type = "text"
    <3>1. v \in S
      BY <2>1 DEF AllParts, SentParts, Errors, Texts, Images, SomeTexts
    <3> HIDE DEF v, S
    <3>2. <<v>> \in Seq(S) /\ <<>> \in Seq(S)
      BY <3>1
    <3>3. UpBlock[b] = <<v>> \/ UpBlock[b] = <<>>
      BY DEF UpBlock, v
    <3> QED BY <3>2, <3>3 DEF S
  <2>2. CASE b.type # "text"
    BY <2>2 DEF UpBlock
  <2> QED BY <2>1, <2>2
<1>2. UpBlock \in [AllParts -> Seq(SomeTexts)]
  BY <1>1 DEF UpBlock
<1>3. ASSUME NEW m \in SentMessages PROVE m.content \in Seq(AllParts)
  BY DEF SentMessages, ToolMessages, OwnMessages, AllParts
<1> DEFINE S == SomeTexts
           A == AllParts
<1>4. ASSUME NEW m \in SentMessages PROVE FlatMap(UpBlock, m.content) \in Seq(S)
  BY <1>2, <1>3, FlatMapType
<1>5. UpText \in [SentMessages -> Seq(S)]
  BY <1>4 DEF UpText
<1> QED BY <1>2, <1>3, <1>5

LEMMA MuteSaysNone ==
  ASSUME NEW s \in Seq(MuteMessages)
  PROVE  FlatMap(UpText, s) = <<>>
<1>1. ASSUME NEW m \in MuteMessages PROVE UpText[m] = <<>>
  <2>1. m \in SentMessages /\ m.content \in Seq(AllParts) /\ MuteSeq(m.content)
    BY DEF MuteMessages
  <2> DEFINE c == m.content
  <2>2. \A i \in DOMAIN c : c[i] \in AllParts /\ MuteBlock(c[i])
    BY <2>1 DEF MuteSeq
  <2>3. \A i \in DOMAIN c : UpBlock[c[i]] = <<>>
    BY <2>2 DEF UpBlock, MuteBlock
  <2> HIDE DEF c
  <2>4. FlatMap(UpBlock, c) = <<>>
    BY <2>1, <2>3, FlatMapEmpty DEF c
  <2> QED BY <2>1, <2>4 DEF UpText, c
<1>2. \A i \in DOMAIN s : s[i] \in MuteMessages
  OBVIOUS
<1>3. \A i \in DOMAIN s : UpText[s[i]] = <<>>
  BY <1>1, <1>2
<1> QED BY <1>3, FlatMapEmpty

\* Messages without the upstream's texts add none.
MuteHistory(t) == \A i \in DOMAIN t : MuteContent(t[i].content)

LEMMA MuteAdds ==
  ASSUME NEW p \in Protocols, NEW t \in Seq(Histories(p)), MuteHistory(t)
  PROVE  FlatMap(UpText, FlatMap(Through(p), t)) = <<>>
<1> DEFINE T == Through(p)
           M == MuteMessages
<1>1. \A i \in DOMAIN t : T[t[i]] \in Seq(M)
  <2> SUFFICES ASSUME NEW i \in DOMAIN t PROVE T[t[i]] \in Seq(M)
    OBVIOUS
  <2>1. t[i] \in Histories(p) /\ MuteContent(t[i].content)
    BY DEF MuteHistory
  <2> QED BY <2>1, MuteThrough
<1> HIDE DEF T, M
<1>2. FlatMap(T, t) \in Seq(M)
  BY <1>1, FlatMapInto
<1> QED BY <1>2, MuteSaysNone DEF T, M

LEMMA NoCallsIn ==
  ASSUME NEW r \in Seq(ToolMessages), NEW w \in Seq(OwnMessages)
  PROVE  /\ r \in Seq(SentMessages) /\ w \in Seq(SentMessages)
         /\ FlatMap(CallsIn, r \o w) = FlatMap(CallsIn, w)
<1> DEFINE S == SentMessages
<1>1. r \in Seq(S) /\ w \in Seq(S)
  BY DEF SentMessages
<1>2. \A i \in DOMAIN r : CallsIn[r[i]] = <<>>
  <2>1. \A i \in DOMAIN r : r[i] \in ToolMessages
    OBVIOUS
  <2>2. \A i \in DOMAIN r : r[i] \in SentMessages /\ r[i].tool_calls = <<>>
    BY <2>1 DEF SentMessages, ToolMessages
  <2> QED BY <2>2 DEF CallsIn
<1>3. FlatMap(CallsIn, r) = <<>>
  BY <1>1, <1>2, FlatMapEmpty
<1>4. CallsIn \in [S -> Seq(CallRecords)]
  BY CountsAre
<1> HIDE DEF S
<1>5. FlatMap(CallsIn, w) \in Seq(CallRecords)
  BY <1>1, <1>4, FlatMapType
<1>6. CallsIn \in Maps(S, CallRecords) /\ r \in Lists(S) /\ w \in Lists(S)
  BY <1>1, <1>4 DEF Maps, Lists
<1>7. FlatMap(CallsIn, r \o w) = FlatMap(CallsIn, r) \o FlatMap(CallsIn, w)
  BY <1>6, FlatMapConcat
<1> DEFINE c == FlatMap(CallsIn, w)
<1> HIDE DEF c
<1>8. <<>> \o c = c
  BY <1>5 DEF c
<1> QED BY <1>1, <1>3, <1>7, <1>8 DEF c, S

LEMMA CalmCallsNone ==
  ASSUME NEW w \in Seq(Calm)
  PROVE  w \in Seq(OwnMessages) /\ FlatMap(CallsIn, w) = <<>>
BY FlatMapEmpty DEF Calm, CallsIn, SentMessages

\* What clients, tools and operators say is not the upstream's.
LEMMA ClientsAreMute ==
  /\ \A s \in Contents \cup Prefills \cup Instructions \cup {<<>>} : MuteSeq(s)
  /\ \A o \in Outcomes : MuteSeq(o.content)
  /\ \A o \in Offers : MuteSeq(o.system)
BY SpeakersAssumption DEF MuteSeq, MuteBlock

LEMMA InPartsMute ==
  ASSUME NEW s \in Seq(UserBlocks), MuteSeq(s)
  PROVE  MuteContent(InParts(s)) /\ MuteSeq(InParts(s))
<1> DEFINE q == InParts(s)
<1>1. q \in Seq(PartBlocks)
  BY InPartsType
<1>2. DOMAIN q = DOMAIN s
  BY DEF InParts
<1>3. ASSUME NEW i \in DOMAIN s PROVE MuteBlock(q[i])
  <2> DEFINE b == s[i]
  <2>1. b \in UserBlocks /\ MuteBlock(b)
    BY DEF MuteSeq
  <2>2. q[i] = IF b.type = "image"
               THEN [b EXCEPT !.type = "image_url", !.id = CASE @ = "url" -> "https" [] @ = "other" -> "data" [] OTHER -> @] ELSE b
    BY DEF InParts
  <2> HIDE DEF b, q
  <2>3. CASE b.type = "image"
    BY <2>3, <2>2 DEF MuteBlock
  <2>4. CASE b.type # "image"
    BY <2>1, <2>2, <2>4
  <2> QED BY <2>3, <2>4
<1> HIDE DEF q
<1>4. \A i \in DOMAIN q : q[i] \in PartBlocks
  BY <1>1
<1>5. \A i \in DOMAIN q : q[i].type # "tool_result"
  BY <1>4 DEF PartBlocks, Texts, Images
<1> QED BY <1>2, <1>3, <1>5 DEF MuteContent, MuteSeq, q

LEMMA SpokenMute ==
  ASSUME protocol \in Protocols, NEW s \in Seq(UserBlocks), MuteSeq(s), NEW role
  PROVE  MuteContent(Speak(role, s).content) /\ MuteSeq(Speak(role, s).content)
BY BlockKinds, InPartsMute DEF Speak, Message, MuteContent, MuteSeq, OpenAIMessage

LEMMA ResultsMute ==
  ASSUME TypeOK, NEW outcome \in Outcomes,
         NEW before \in Contents \cup {<<>>}, NEW after \in Contents \cup {<<>>}
  PROVE  LET rs == Results(outcome, before, after)
         IN  MuteHistory(rs) /\ \A i \in DOMAIN rs : rs[i].role # "system"
<1> DEFINE rs == Results(outcome, before, after)
           ids == Pending
           n == Len(ids)
<1>1. protocol \in Protocols
  BY TypeOKIs
<1>2. before \in Seq(UserBlocks) /\ after \in Seq(UserBlocks) /\ outcome.content \in Seq(UserBlocks)
  BY ContentsType
<1>3. MuteSeq(before) /\ MuteSeq(after) /\ MuteSeq(outcome.content)
  BY ClientsAreMute
<1>4. ids \in Seq(IDs) /\ n \in Nat /\ DOMAIN ids = 1..n
  BY PendingType
<1>5. CASE protocol = "anthropic"
  <2> DEFINE res == [i \in DOMAIN ids |-> Block("tool_result", ids[i], outcome)]
             content == before \o res \o after
             m == Message("user", content)
             B == UserBlocks \cup {res[i] : i \in DOMAIN ids}
             G == {b \in B : MuteBlock(b) /\ (b.type = "tool_result" => MuteSeq(b.val.content))}
  <2>1. rs = <<m>> /\ m.content = content /\ m.role = "user"
    BY <1>5 DEF Results, Message
  <2>2. \A i \in DOMAIN res : res[i].type = "tool_result" /\ res[i].val = outcome
    BY DEF Block
  <2>3. \A i \in DOMAIN res : res[i] \in G
    BY <1>3, <2>2 DEF MuteBlock
  <2>4. \A b \in UserBlocks : MuteBlock(b) => b \in G
    BY BlockKinds
  <2> HIDE DEF G
  <2>5. DOMAIN res = 1..n
    BY <1>4
  <2> HIDE DEF res
  <2>6. res \in Seq(G)
    BY <2>3 DEF res
  <2>7. before \in Seq(G) /\ after \in Seq(G)
    <3>1. before \in Seq(Muted(UserBlocks)) /\ after \in Seq(Muted(UserBlocks))
      BY <1>2, <1>3, MutedSeq
    <3>2. Muted(UserBlocks) \subseteq G
      BY <2>4 DEF Muted
    <3> QED BY <3>1, <3>2
  <2>8. content \in Seq(G)
    BY <2>6, <2>7
  <2> HIDE DEF content, m
  <2>9. \A i \in DOMAIN content : content[i] \in G
    BY <2>8
  <2>10. MuteContent(content)
    BY <2>9 DEF G, MuteContent
  <2> QED BY <2>1, <2>10 DEF MuteHistory
<1>6. CASE protocol = "openai"
  <2> DEFINE tools == [i \in DOMAIN ids |-> OpenAIMessage("tool", outcome.content, ids[i])]
             said1 == before \o after
             u == OpenAIMessage("user", said1, Empty)
             words == IF said1 = <<>> THEN <<>> ELSE <<u>>
             G == {m \in {u} \cup {tools[i] : i \in DOMAIN ids} : MuteContent(m.content) /\ m.role # "system"}
  <2>1. rs = tools \o words
    BY <1>6 DEF Results
  <2>2. said1 \in Seq(UserBlocks) /\ MuteSeq(said1)
    <3> DEFINE P == Muted(UserBlocks)
    <3>1. before \in Seq(P) /\ after \in Seq(P)
      BY <1>2, <1>3, MutedSeq
    <3> HIDE DEF P
    <3>2. said1 \in Seq(P)
      BY <3>1
    <3>3. said1 \in Seq(UserBlocks)
      BY <1>2
    <3> QED BY <3>2, <3>3, MutedSeq DEF P
  <2>3. u.content = InParts(said1) /\ u.role = "user"
        /\ \A i \in DOMAIN ids : tools[i].content = InParts(outcome.content) /\ tools[i].role = "tool"
    BY DEF OpenAIMessage
  <2>4. MuteContent(InParts(said1)) /\ MuteContent(InParts(outcome.content))
    BY <1>2, <1>3, <2>2, InPartsMute
  <2>5. u \in G /\ \A i \in DOMAIN ids : tools[i] \in G
    BY <2>3, <2>4
  <2> HIDE DEF G, u
  <2>6. tools \in Seq(G)
    BY <2>5
  <2>7. words \in Seq(G)
    BY <2>5
  <2> HIDE DEF tools, words
  <2>8. rs \in Seq(G)
    BY <2>1, <2>6, <2>7
  <2> HIDE DEF rs
  <2>9. \A i \in DOMAIN rs : rs[i] \in G
    BY <2>8
  <2>10. MuteHistory(rs) /\ \A i \in DOMAIN rs : rs[i].role # "system"
    BY <2>9 DEF G, MuteHistory
  <2> QED BY <2>10 DEF rs
<1> QED BY <1>1, <1>5, <1>6 DEF Protocols

LEMMA SaidUp ==
  ASSUME NEW v \in Seq(Pieces), v # <<>> => OfUpstream(v)
  PROVE  FlatMap(UpBlock, Said("text", v)) = IF v = <<>> THEN <<>> ELSE <<v>>
<1>1. CASE v = <<>>
  BY <1>1, FlatMapNone DEF Said
<1>2. CASE v # <<>>
  <2> DEFINE b == Block("text", Empty, v)
  <2>1. Said("text", v) = <<b>> /\ b.type = "text" /\ b.val = v
    BY <1>2 DEF Said, Block
  <2>2. b \in AllParts
    BY DEF Block, AllParts, SentParts, Texts
  <2> HIDE DEF b
  <2>3. UpBlock[b] = <<v>>
    BY <1>2, <2>1, <2>2 DEF UpBlock
  <2>4. UpBlock \in [AllParts -> Seq(SomeTexts)]
    BY UpTextType
  <2>5. FlatMap(UpBlock, <<b>>) = UpBlock[b]
    BY <2>2, <2>4, FlatMapOne
  <2> QED BY <1>2, <2>1, <2>3, <2>5
<1> QED BY <1>1, <1>2

LEMMA AssistantTexts ==
  ASSUME NEW c \in Messages1, c.role = "assistant"
  PROVE  FlatMap(UpText, Encode[c]) = FlatMap(UpBlock, FlatMap(EncodeParts, c.content))
<1> DEFINE parts == FlatMap(EncodeParts, c.content)
           calls == FlatMap(CallsOf, c.content)
           own == ChatMessage(c.role, parts, calls, Empty)
<1>1. /\ parts = <<>> /\ calls = <<>> => Encode[c] = <<>>
      /\ ~(parts = <<>> /\ calls = <<>>) => Encode[c] = <<own>> /\ own \in OwnMessages
  BY EncodeType
<1>2. own.content = parts
  BY DEF ChatMessage
<1> HIDE DEF parts, calls, own
<1>3. CASE parts = <<>> /\ calls = <<>>
  BY <1>1, <1>3, FlatMapNone DEF parts
<1>4. CASE ~(parts = <<>> /\ calls = <<>>)
  <2>1. own \in SentMessages /\ UpText \in [SentMessages -> Seq(SomeTexts)]
    BY <1>1, <1>4, UpTextType DEF SentMessages
  <2>2. FlatMap(UpText, <<own>>) = UpText[own]
    BY <2>1, FlatMapOne
  <2>3. UpText[own] = FlatMap(UpBlock, parts)
    BY <1>2, <2>1 DEF UpText
  <2> QED BY <1>1, <1>4, <2>2, <2>3 DEF parts
<1> QED BY <1>3, <1>4

LEMMA AssistantThrough ==
  ASSUME NEW p \in Protocols, NEW m \in Histories(p),
         NEW content, Decode(p)[m] = Messages("assistant", content)
  PROVE  FlatMap(UpText, Through(p)[m]) = FlatMap(UpBlock, FlatMap(EncodeParts, content))
<1> DEFINE d == Decode(p)[m]
<1>1. Through(p)[m] = FlatMap(Encode, d) /\ d \in Seq(Messages1)
  BY DecodeType DEF Through
<1>2. CASE content = <<>>
  BY <1>2, <1>1, FlatMapNone DEF Messages
<1>3. CASE content # <<>>
  <2> DEFINE c == Message("assistant", content)
  <2>1. d = <<c>> /\ c.role = "assistant" /\ c.content = content
    BY <1>3 DEF Messages, Message
  <2> HIDE DEF c, d
  <2>2. c \in Messages1
    BY <1>1, <2>1
  <2>3. Encode \in [Messages1 -> Seq(SentMessages)]
    BY EncodeType DEF Encode
  <2>4. FlatMap(Encode, <<c>>) = Encode[c]
    BY <2>2, <2>3, FlatMapOne
  <2> QED BY <1>1, <2>1, <2>2, <2>4, AssistantTexts
<1> QED BY <1>2, <1>3

\* Of what the upstream says, its text goes through a client of /v1/messages
\* as it is, and its calls with their arguments read once.
TextOnly == [b \in Outputs |-> IF b.type = "text" THEN <<b>> ELSE <<>>]
CallsOut ==
  [b \in Outputs |->
     IF b.type = "tool_call" THEN <<[id |-> b.id, name |-> b.val.name, args |-> Reparsed[b.val.args]]>>
     ELSE <<>>]

LEMMA OutputKinds ==
  ASSUME NEW b \in Outputs
  PROVE  /\ b.type \in {"text", "thinking", "tool_call", "web_search"}
         /\ b.type = "text" <=> b \in Texts("text")
         /\ b.type = "thinking" <=> b \in Texts("thinking")
         /\ b.type = "tool_call" <=> b \in Calls1
         /\ b.type = "web_search" <=> b \in Searches
BY DEF Outputs, Texts, Calls1, Searches

LEMMA OneOut ==
  ASSUME NEW b \in Outputs
  PROVE  /\ FlatMap(EncodeParts, FlatMap(DecodeBlock, EncodeBlocks[b])) = TextOnly[b]
         /\ FlatMap(UseCalls, EncodeBlocks[b]) = CallsOut[b]
<1> DEFINE e == EncodeBlocks[b]
           A == AnthropicBlocks
<1>1. e = EncodeBlock(b)
  BY DEF EncodeBlocks
<1>2. DecodeBlock \in [A -> Seq(Blocks1)] /\ EncodeParts \in [Blocks1 -> Seq(SentParts)]
      /\ UseCalls \in [A -> Seq(CallRecords)]
  <2>1. <<>> \in Seq(A) /\ <<>> \in Seq(Blocks1)
    OBVIOUS
  <2> QED BY <2>1, DecodedSends, EncodePartsEach, UseCallsType
<1>3. CASE b.type \in {"text", "thinking"}
  <2>1. e = <<b>> /\ b \in A /\ b \in Blocks1 /\ b.type # "tool_use"
    BY <1>1, <1>3, OutputKinds DEF EncodeBlock, AnthropicBlocks, UserBlocks, AnswerBlocks, Blocks1, Parts1
  <2>2. DecodeBlock[b] = <<b>>
    BY <1>3, <2>1 DEF DecodeBlock, DecodeAnthropicBlock, DecodePlainBlock
  <2>3. EncodeParts[b] = TextOnly[b]
    BY <1>3, <2>1, EncodePartType DEF EncodeParts, TextOnly
  <2>4. UseCalls[b] = <<>> /\ CallsOut[b] = <<>>
    BY <1>3, <2>1 DEF UseCalls, CallsOut
  <2> HIDE DEF e, A
  <2>5. FlatMap(DecodeBlock, <<b>>) = DecodeBlock[b] /\ FlatMap(UseCalls, <<b>>) = UseCalls[b]
    BY <1>2, <2>1, FlatMapOne
  <2>6. FlatMap(EncodeParts, <<b>>) = EncodeParts[b]
    BY <1>2, <2>1, FlatMapOne
  <2> QED BY <2>1, <2>2, <2>3, <2>4, <2>5, <2>6 DEF e
<1>4. CASE b.type = "tool_call"
  <2> DEFINE u == [b EXCEPT !.type = "tool_use"]
             x == Block("tool_call", u.id, [u.val EXCEPT !.args = Reparsed[@]])
             c == [id |-> b.id, name |-> b.val.name, args |-> Reparsed[b.val.args]]
  <2>1. e = <<u>> /\ b \in Calls1
    BY <1>1, <1>4, OutputKinds DEF EncodeBlock
  <2>2. u \in A /\ u.type = "tool_use" /\ u.id = b.id /\ u.val = b.val
    BY <2>1 DEF Calls1, AnthropicBlocks, AnswerBlocks
  <2>3. DecodeBlock[u] = <<x>>
    <3> HIDE DEF u
    <3> QED BY <2>2 DEF DecodeBlock, DecodeAnthropicBlock, DecodePlainBlock
  <2>4. x.type = "tool_call" /\ x \in Blocks1
    BY <2>1, Arguments1 DEF Calls1, Block, Blocks1
  <2>5. UseCalls[u] = <<c>> /\ CallsOut[b] = <<c>>
    BY <1>4, <2>2 DEF UseCalls, CallsOut
  <2>6. TextOnly[b] = <<>>
    BY <1>4 DEF TextOnly
  <2> HIDE DEF e, A, u, x, c
  <2>7. FlatMap(DecodeBlock, <<u>>) = DecodeBlock[u] /\ FlatMap(UseCalls, <<u>>) = UseCalls[u]
    BY <1>2, <2>2, FlatMapOne
  <2>8. FlatMap(EncodeParts, <<x>>) = EncodeParts[x] /\ EncodeParts[x] = <<>>
    BY <2>4, FlatMapOne, EncodePartType DEF EncodeParts
  <2> QED BY <2>1, <2>3, <2>5, <2>6, <2>7, <2>8 DEF e
<1>5. CASE b.type = "web_search"
  <2> DEFINE x == Block("server_tool_use", Empty, Empty)
             y == Block("web_search_tool_result", Empty, b.val)
  <2>1. e = <<x, y>> /\ b \in Searches
    BY <1>1, <1>5, OutputKinds DEF EncodeBlock
  <2>2. x \in A /\ y \in A /\ x.type = "server_tool_use" /\ y.type = "web_search_tool_result"
    BY <2>1 DEF Searches, AnthropicBlocks, AnswerBlocks, Block
  <2> HIDE DEF x, y
  <2>3. DecodeBlock[x] = <<>> /\ DecodeBlock[y] = <<>> /\ UseCalls[x] = <<>> /\ UseCalls[y] = <<>>
    BY <2>2 DEF DecodeBlock, DecodeAnthropicBlock, DecodePlainBlock, UseCalls
  <2>4. TextOnly[b] = <<>> /\ CallsOut[b] = <<>>
    BY <1>5 DEF TextOnly, CallsOut
  <2> HIDE DEF e
  <2>5. \A i \in DOMAIN e : DecodeBlock[e[i]] = <<>> /\ UseCalls[e[i]] = <<>>
    BY <2>1, <2>3
  <2>6. FlatMap(DecodeBlock, e) = <<>> /\ FlatMap(UseCalls, e) = <<>>
    <3> HIDE DEF A
    <3>1. e \in Seq(A)
      BY <2>1, <2>2
    <3> QED BY <2>5, <3>1, FlatMapEmpty
  <2> QED BY <2>4, <2>6, FlatMapNone DEF e
<1> QED BY <1>3, <1>4, <1>5, OutputKinds

LEMMA OutputSequences ==
  /\ TextOnly \in [Outputs -> Seq(SentParts)] /\ CallsOut \in [Outputs -> Seq(CallRecords)]
  /\ EncodeBlocks \in [Outputs -> Seq(AnthropicBlocks)] /\ DecodeBlock \in [AnthropicBlocks -> Seq(Blocks1)]
<1>1. ASSUME NEW b \in Outputs PROVE TextOnly[b] \in Seq(SentParts)
  <2> DEFINE S == SentParts
  <2>1. b.type = "text" => b \in S
    BY OutputKinds DEF SentParts
  <2>2. TextOnly[b] = IF b.type = "text" THEN <<b>> ELSE <<>>
    BY DEF TextOnly
  <2> HIDE DEF S
  <2> QED BY <2>1, <2>2 DEF S
<1>2. ASSUME NEW b \in Outputs PROVE CallsOut[b] \in Seq(CallRecords)
  <2> DEFINE S == CallRecords
             c == [id |-> b.id, name |-> b.val.name, args |-> Reparsed[b.val.args]]
  <2>1. b.type = "tool_call" => c \in S
    BY OutputKinds, Arguments1 DEF Calls1, CallRecords
  <2>2. CallsOut[b] = IF b.type = "tool_call" THEN <<c>> ELSE <<>>
    BY DEF CallsOut
  <2> HIDE DEF S, c
  <2> QED BY <2>1, <2>2 DEF S
<1>3. ASSUME NEW b \in Outputs PROVE EncodeBlock(b) \in Seq(AnthropicBlocks)
  BY EncodeBlockType DEF AnthropicBlocks
<1>4. DecodeBlock \in [AnthropicBlocks -> Seq(Blocks1)]
  <2>1. <<>> \in Seq(AnthropicBlocks)
    OBVIOUS
  <2> QED BY <2>1, DecodedSends
<1> QED BY <1>1, <1>2, <1>3, <1>4 DEF TextOnly, CallsOut, EncodeBlocks

LEMMA ManyOut ==
  ASSUME NEW s \in Seq(Outputs)
  PROVE  /\ FlatMap(EncodeParts, FlatMap(DecodeBlock, FlatMap(EncodeBlocks, s))) = FlatMap(TextOnly, s)
         /\ FlatMap(UseCalls, FlatMap(EncodeBlocks, s)) = FlatMap(CallsOut, s)
<1> DEFINE O == Outputs
           A == AnthropicBlocks
           B == Blocks1
           S == SentParts
           d == [b \in O |-> FlatMap(DecodeBlock, EncodeBlocks[b])]
<1>1. /\ TextOnly \in Maps(O, S) /\ CallsOut \in Maps(O, CallRecords)
      /\ EncodeBlocks \in Maps(O, A) /\ DecodeBlock \in Maps(A, B) /\ UseCalls \in Maps(A, CallRecords)
      /\ EncodeParts \in Maps(B, S) /\ s \in Lists(O)
  <2>1. <<>> \in Seq(Blocks1)
    OBVIOUS
  <2> QED BY <2>1, OutputSequences, UseCallsType, EncodePartsEach DEF Maps, Lists
<1>2. \A b \in O : d[b] = FlatMap(DecodeBlock, EncodeBlocks[b])
  OBVIOUS
<1>3. d \in Maps(O, B)
  <2>1. ASSUME NEW b \in O PROVE FlatMap(DecodeBlock, EncodeBlocks[b]) \in Seq(B)
    BY <1>1, FlatMapType DEF Maps
  <2> QED BY <2>1 DEF Maps
<1>4. \A b \in O : TextOnly[b] = FlatMap(EncodeParts, d[b]) /\ CallsOut[b] = FlatMap(UseCalls, EncodeBlocks[b])
  BY <1>2, OneOut
<1> HIDE DEF O, A, B, S, d
<1>5. FlatMap(DecodeBlock, FlatMap(EncodeBlocks, s)) = FlatMap(d, s)
  BY <1>1, <1>2, <1>3, FlatMapTwice
<1>6. FlatMap(EncodeParts, FlatMap(d, s)) = FlatMap(TextOnly, s)
  BY <1>1, <1>3, <1>4, FlatMapTwice
<1>7. FlatMap(UseCalls, FlatMap(EncodeBlocks, s)) = FlatMap(CallsOut, s)
  BY <1>1, <1>4, FlatMapTwice
<1> QED BY <1>5, <1>6, <1>7

\* Arguments that have been read once stay as they are.
LEMMA ReparsedTwice ==
  ASSUME NEW s \in Seq(CallRecords)
  PROVE  /\ FlatMap(ReparsedCalls, FlatMap(ReparsedCalls, s)) = FlatMap(ReparsedCalls, s)
         /\ FlatMap(CallsOut, FlatMap(DecodeCalls, s)) = FlatMap(ReparsedCalls, s)
<1> DEFINE C == CallRecords
           O == Outputs
           f == [c \in C |-> [id |-> c.id, name |-> c.name, args |-> Reparsed[c.args]]]
<1>1. ReparsedCalls \in [C -> Seq(C)]
  BY DecodedCalls
<1>2. ASSUME NEW c \in C
      PROVE  /\ f[c] \in C /\ f[f[c]] = f[c] /\ ReparsedCalls[c] = <<f[c]>>
             /\ ReparsedCalls[f[c]] = <<f[c]>>
  <2>1. f[c] \in C /\ ReparsedCalls[c] = <<f[c]>>
    BY Arguments1 DEF CallRecords, ReparsedCalls
  <2>2. f[f[c]] = f[c]
    BY <2>1, ConversationAssumption DEF CallRecords
  <2>3. ReparsedCalls[f[c]] = <<f[f[c]]>>
    BY Arguments1 DEF CallRecords, ReparsedCalls
  <2> HIDE DEF f
  <2> QED BY <2>1, <2>2, <2>3
<1> HIDE DEF f
<1>3. \A c \in C : FlatMap(ReparsedCalls, ReparsedCalls[c]) = ReparsedCalls[c]
  <2> SUFFICES ASSUME NEW c \in C PROVE FlatMap(ReparsedCalls, ReparsedCalls[c]) = ReparsedCalls[c]
    OBVIOUS
  <2> DEFINE e == f[c]
  <2>1. e \in C /\ ReparsedCalls[c] = <<e>> /\ ReparsedCalls[e] = <<e>>
    BY <1>2
  <2> HIDE DEF e, C
  <2>2. FlatMap(ReparsedCalls, <<e>>) = ReparsedCalls[e]
    BY <1>1, <2>1, FlatMapOne
  <2> QED BY <2>1, <2>2
<1>4. ReparsedCalls \in Maps(C, C) /\ s \in Lists(C)
  BY <1>1 DEF Maps, Lists
<1>5. DecodeCalls \in Maps(C, O) /\ CallsOut \in Maps(O, C)
      /\ \A c \in C : ReparsedCalls[c] = FlatMap(CallsOut, DecodeCalls[c])
  <2>1. ASSUME NEW c \in C PROVE DecodeCalls[c] \in Seq(O) /\ ReparsedCalls[c] = FlatMap(CallsOut, DecodeCalls[c])
    <3> DEFINE x == Block("tool_call", c.id, [name |-> c.name, args |-> Reparsed[c.args]])
               g == [id |-> c.id, name |-> c.name, args |-> Reparsed[Reparsed[c.args]]]
    <3>1. DecodeCalls[c] = <<x>>
      BY DEF DecodeCalls, DecodeCall
    <3>2. x \in O /\ x.type = "tool_call" /\ x.id = c.id /\ x.val.name = c.name /\ x.val.args = Reparsed[c.args]
      BY Arguments1 DEF CallRecords, Block, Outputs, Calls1
    <3>3. g = f[c]
      BY ConversationAssumption DEF CallRecords, f
    <3> HIDE DEF x, O
    <3>4. CallsOut[x] = <<g>>
      BY <3>2 DEF CallsOut, O
    <3>5. FlatMap(CallsOut, <<x>>) = CallsOut[x]
      <4>1. x \in O /\ CallsOut \in [O -> Seq(C)]
        BY <3>2, OutputSequences DEF O
      <4> HIDE DEF C
      <4> QED BY <4>1, FlatMapOne
    <3>6. <<x>> \in Seq(O)
      BY <3>2
    <3> HIDE DEF g
    <3> QED BY <1>2, <3>1, <3>3, <3>4, <3>5, <3>6
  <2>2. DecodeCalls \in [C -> Seq(O)]
    BY <2>1 DEF DecodeCalls
  <2> QED BY <2>1, <2>2, OutputSequences DEF Maps
<1> HIDE DEF C, O
<1>6. FlatMap(ReparsedCalls, FlatMap(ReparsedCalls, s)) = FlatMap(ReparsedCalls, s)
  BY <1>3, <1>4, FlatMapTwice
<1>7. FlatMap(CallsOut, FlatMap(DecodeCalls, s)) = FlatMap(ReparsedCalls, s)
  BY <1>4, <1>5, FlatMapTwice
<1> QED BY <1>6, <1>7

LEMMA SaidOne ==
  ASSUME NEW text \in Seq(Pieces)
  PROVE  LET u == Said("text", text)
         IN  /\ u = <<>> \/ (u = <<Block("text", Empty, text)>> /\ Block("text", Empty, text) \in Texts("text"))
             /\ u \in Seq(Texts("text"))
BY SaidType DEF Said, Block, Texts

LEMMA AnthropicOut ==
  ASSUME NEW m \in Upstream, NEW w \in BOOLEAN, NEW results \in SourceLists
  PROVE  LET q == SearchOf(w, results) \o AnswerOf(m)
         IN  /\ FlatMap(TextOnly, q) = Said("text", m.content)
             /\ FlatMap(CallsOut, q) = FlatMap(ReparsedCalls, m.tool_calls)
<1> DEFINE x == SearchOf(w, results)
           t == Thoughts(m)
           u == Said("text", m.content)
           k == FlatMap(DecodeCalls, m.tool_calls)
           O == Outputs
           a == Three(t, u, k)
<1>1. /\ t \in Seq(Texts("thinking")) /\ u \in Seq(Texts("text")) /\ k \in Seq(Calls1)
      /\ m.content \in Seq(Pieces) /\ m.tool_calls \in Seq(CallRecords)
  BY AnswerParts
<1>2. x \in Seq(Searches)
  <2>1. <<>> \in Seq(Upstream)
    OBVIOUS
  <2> QED BY <2>1, AnthropicAnswerType
<1>3. AnswerOf(m) = a
  BY DEF AnswerOf, Three
<1>4. x \in Lists(O) /\ t \in Lists(O) /\ u \in Lists(O) /\ k \in Lists(O)
  BY <1>1, <1>2 DEF Outputs, Lists
<1>5. TextOnly \in Maps(O, SentParts) /\ CallsOut \in Maps(O, CallRecords)
  BY OutputSequences DEF Maps
<1>6. FlatMap(TextOnly, u) = u
  <2> DEFINE b == Block("text", Empty, m.content)
  <2>1. u = <<>> \/ (u = <<b>> /\ b \in Texts("text"))
    BY <1>1, SaidOne
  <2> HIDE DEF u, b
  <2>2. CASE u = <<>>
    BY <2>2, FlatMapNone
  <2>3. CASE u = <<b>> /\ b \in Texts("text")
    <3>1. b \in Outputs /\ b.type = "text"
      BY <2>3 DEF Outputs, Texts
    <3>2. FlatMap(TextOnly, <<b>>) = TextOnly[b]
      BY <3>1, OutputSequences, FlatMapOne
    <3> QED BY <2>3, <3>1, <3>2 DEF TextOnly
  <2> QED BY <2>1, <2>2, <2>3
<1>7. \A y : /\ y \in Seq(Texts("thinking")) \/ y \in Seq(Calls1) \/ y \in Seq(Searches) => FlatMap(TextOnly, y) = <<>>
             /\ y \in Seq(Texts("thinking")) \/ y \in Seq(Texts("text")) \/ y \in Seq(Searches) => FlatMap(CallsOut, y) = <<>>
  <2> SUFFICES ASSUME NEW y
               PROVE  /\ y \in Seq(Texts("thinking")) \/ y \in Seq(Calls1) \/ y \in Seq(Searches) => FlatMap(TextOnly, y) = <<>>
                      /\ y \in Seq(Texts("thinking")) \/ y \in Seq(Texts("text")) \/ y \in Seq(Searches) => FlatMap(CallsOut, y) = <<>>
    OBVIOUS
  <2>1. ASSUME y \in Seq(Texts("thinking")) \/ y \in Seq(Calls1) \/ y \in Seq(Searches)
        PROVE  FlatMap(TextOnly, y) = <<>>
    <3>1. \A i \in DOMAIN y : y[i] \in Texts("thinking") \/ y[i] \in Calls1 \/ y[i] \in Searches
      BY <2>1
    <3>2. \A i \in DOMAIN y : TextOnly[y[i]] = <<>>
      BY <3>1 DEF TextOnly, Outputs, Texts, Calls1, Searches
    <3> QED BY <2>1, <3>2, FlatMapEmpty
  <2>2. ASSUME y \in Seq(Texts("thinking")) \/ y \in Seq(Texts("text")) \/ y \in Seq(Searches)
        PROVE  FlatMap(CallsOut, y) = <<>>
    <3>1. \A i \in DOMAIN y : y[i] \in Texts("thinking") \/ y[i] \in Texts("text") \/ y[i] \in Searches
      BY <2>2
    <3>2. \A i \in DOMAIN y : CallsOut[y[i]] = <<>>
      BY <3>1 DEF CallsOut, Outputs, Texts, Calls1, Searches
    <3> QED BY <2>2, <3>2, FlatMapEmpty
  <2> QED BY <2>1, <2>2
<1>8. /\ FlatMap(TextOnly, x) = <<>> /\ FlatMap(TextOnly, t) = <<>> /\ FlatMap(TextOnly, k) = <<>>
      /\ FlatMap(CallsOut, x) = <<>> /\ FlatMap(CallsOut, t) = <<>> /\ FlatMap(CallsOut, u) = <<>>
  BY <1>1, <1>2, <1>7
<1> DEFINE c == FlatMap(ReparsedCalls, m.tool_calls)
<1>9. FlatMap(CallsOut, k) = c /\ c \in Seq(CallRecords)
  BY <1>1, DecodedCalls, FlatMapType, ReparsedTwice
<1> HIDE DEF x, t, u, k, O, a, c
<1>10. a \in Lists(O)
  BY <1>4 DEF Lists, a, Three
<1>11. FlatMap(TextOnly, a) = Three(<<>>, u, <<>>) /\ FlatMap(CallsOut, a) = Three(<<>>, <<>>, c)
  BY <1>4, <1>5, <1>6, <1>8, <1>9, FlatMapThree DEF a
<1>12. Three(<<>>, u, <<>>) = u /\ Three(<<>>, <<>>, c) = c /\ <<>> \o u = u /\ <<>> \o c = c
  BY <1>1, <1>9 DEF Three
<1>13. FlatMap(TextOnly, x \o a) = FlatMap(TextOnly, x) \o FlatMap(TextOnly, a)
       /\ FlatMap(CallsOut, x \o a) = FlatMap(CallsOut, x) \o FlatMap(CallsOut, a)
  <2>1. x \in Lists(O) /\ a \in Lists(O)
    BY <1>4, <1>10
  <2>2. TextOnly \in Maps(O, SentParts)
    BY <1>5
  <2>3. CallsOut \in Maps(O, CallRecords)
    BY <1>5
  <2>4. FlatMap(TextOnly, x \o a) = FlatMap(TextOnly, x) \o FlatMap(TextOnly, a)
    BY <2>1, <2>2, FlatMapConcat
  <2>5. FlatMap(CallsOut, x \o a) = FlatMap(CallsOut, x) \o FlatMap(CallsOut, a)
    BY <2>1, <2>3, FlatMapConcat
  <2> QED BY <2>4, <2>5
<1>14. FlatMap(TextOnly, x \o a) = u /\ FlatMap(CallsOut, x \o a) = c
  BY <1>8, <1>11, <1>12, <1>13
<1> QED BY <1>3, <1>14 DEF x, u, c

LEMMA ThroughCalls ==
  ASSUME NEW p \in Protocols, NEW m \in Histories(p)
  PROVE  FlatMap(CallsIn, Through(p)[m]) = GivenCalls(p, m)
<1>1. PICK r \in Seq(ToolMessages), w \in Seq(OwnMessages) :
        Through(p)[m] = r \o w /\ FlatMap(CallsIn, w) = GivenCalls(p, m)
  BY Shape
<1> QED BY <1>1, NoCallsIn

\* What comes back of an answer.
TextOf(m, footer) ==
  LET text == m.content \o footer IN IF text = <<>> THEN <<>> ELSE <<text>>

LEMMA HeadFromUpstream ==
  ASSUME NEW choices \in Seq(Upstream), FromUpstream(choices), choices # <<>>
  PROVE  Head(choices) \in Upstream
         /\ (Head(choices).content # <<>> => Head(choices).content[1] \in Answers)
BY DEF FromUpstream

LEMMA AnthropicBack ==
  ASSUME NEW choices \in Seq(Upstream), FromUpstream(choices), NEW w \in BOOLEAN, NEW results \in SourceLists
  PROVE  LET x == AnthropicAnswer(choices, w, results)
             m == Head(choices)
         IN  /\ FlatMap(UpText, Through("anthropic")[x]) =
                  IF choices = <<>> THEN <<>> ELSE TextOf(m, <<>>)
             /\ FlatMap(CallsIn, Through("anthropic")[x]) =
                  IF choices = <<>> THEN <<>> ELSE FlatMap(ReparsedCalls, m.tool_calls)
<1> DEFINE x == AnthropicAnswer(choices, w, results)
           m == Head(choices)
           q == SearchOf(w, results) \o AnswerOf(m)
           content == IF choices = <<>> THEN <<>> ELSE FlatMap(EncodeBlocks, q)
<1>1. x \in AnthropicMessages /\ x = Message("assistant", content) /\ (choices # <<>> => q \in Seq(Outputs))
  BY AnthropicAnswerType
<1>2. x.content = content /\ x.role = "assistant"
  BY <1>1 DEF Message
<1> HIDE DEF x, q
<1>3. "anthropic" \in Protocols /\ x \in Histories("anthropic") /\ Decode("anthropic") = DecodeAnthropic
  BY <1>1 DEF Protocols, Histories, Decode
<1>4. Decode("anthropic")[x] = Messages("assistant", FlatMap(DecodeBlock, content))
  BY <1>1, <1>2, <1>3, DecodeAnthropicType
<1>5. FlatMap(UpText, Through("anthropic")[x]) =
        FlatMap(UpBlock, FlatMap(EncodeParts, FlatMap(DecodeBlock, content)))
  BY <1>3, <1>4, AssistantThrough
<1>6. FlatMap(CallsIn, Through("anthropic")[x]) = FlatMap(UseCalls, content)
  BY <1>1, <1>2, <1>3, ThroughCalls, AnthropicCalls
<1>7. CASE choices = <<>>
  BY <1>7, <1>5, <1>6, FlatMapNone DEF x
<1>8. CASE choices # <<>>
  <2>1. content = FlatMap(EncodeBlocks, q) /\ q \in Seq(Outputs)
    BY <1>1, <1>8
  <2>2. m \in Upstream /\ (m.content # <<>> => m.content[1] \in Answers)
    BY <1>8, HeadFromUpstream
  <2> HIDE DEF content, m
  <2>3. FlatMap(TextOnly, q) = Said("text", m.content) /\ FlatMap(CallsOut, q) = FlatMap(ReparsedCalls, m.tool_calls)
    BY <2>2, AnthropicOut DEF q
  <2>4. FlatMap(EncodeParts, FlatMap(DecodeBlock, content)) = Said("text", m.content)
        /\ FlatMap(UseCalls, content) = FlatMap(ReparsedCalls, m.tool_calls)
    BY <2>1, <2>3, ManyOut
  <2> DEFINE v == m.content
  <2>5. v \in Seq(Pieces) /\ (v # <<>> => OfUpstream(v))
    BY <2>2, AnswerParts DEF OfUpstream
  <2> HIDE DEF v
  <2>6. FlatMap(UpBlock, Said("text", v)) = IF v = <<>> THEN <<>> ELSE <<v>>
    BY <2>5, SaidUp
  <2>7. v \o <<>> = v
    BY <2>5
  <2>8. TextOf(m, <<>>) = IF v = <<>> THEN <<>> ELSE <<v>>
    BY <2>7 DEF TextOf, v
  <2> QED BY <1>5, <1>6, <1>8, <2>4, <2>6, <2>8 DEF v, m, x
<1> QED BY <1>7, <1>8

LEMMA OpenAIBack ==
  ASSUME NEW choices \in Seq(Upstream), FromUpstream(choices), NEW w \in BOOLEAN, NEW results
  PROVE  LET x == OpenAIAnswer(choices, w, results)
             m == Head(choices)
         IN  /\ FlatMap(UpText, Through("openai")[x]) =
                  IF choices = <<>> THEN <<>> ELSE TextOf(m, FooterOf(w, results))
             /\ FlatMap(CallsIn, Through("openai")[x]) =
                  IF choices = <<>> THEN <<>> ELSE FlatMap(ReparsedCalls, m.tool_calls)
<1> DEFINE x == OpenAIAnswer(choices, w, results)
           m == Head(choices)
           text == IF choices = <<>> THEN <<>> ELSE m.content \o FooterOf(w, results)
           u == Said("text", text)
<1>1. x \in OpenAIMessages
  BY OpenAIAnswerIs
<1>2. x.role = "assistant" /\ x.content = u
      /\ x.tool_calls = IF choices = <<>> THEN <<>> ELSE FlatMap(CallsOf, FlatMap(DecodeCalls, m.tool_calls))
  <2>1. CASE choices = <<>>
    <3>1. u = <<>>
      BY <2>1 DEF Said
    <3>2. x = [role |-> "assistant", content |-> <<>>, thinking |-> <<>>, tool_calls |-> <<>>, tool_call_id |-> Empty]
      BY <2>1, OpenAIAnswerIs
    <3> HIDE DEF x, u
    <3> QED BY <2>1, <3>1, <3>2
  <2>2. CASE choices # <<>>
    BY <2>2, OpenAIAnswerIs
  <2> QED BY <2>1, <2>2
<1>3. text \in Seq(Pieces) /\ (text # <<>> => OfUpstream(text))
  <2>1. CASE choices = <<>>
    BY <2>1
  <2>2. CASE choices # <<>>
    <3>1. m \in Upstream /\ (m.content # <<>> => m.content[1] \in Answers)
      BY <2>2, HeadFromUpstream
    <3> DEFINE v == m.content
               f == FooterOf(w, results)
    <3>2. v \in Seq(Pieces) /\ (f = <<>> \/ f = <<Footer>>) /\ f \in Seq(Pieces)
      BY <3>1, AnswerParts, ConversationAssumption DEF FooterOf
    <3>3. text = v \o f
      BY <2>2
    <3>4. v # <<>> => v[1] \in Answers
      BY <3>1
    <3> HIDE DEF v, f, text
    <3>5. CASE v = <<>>
      BY <3>2, <3>3, <3>5 DEF OfUpstream
    <3>6. CASE v # <<>>
      BY <3>2, <3>3, <3>4 DEF OfUpstream
    <3> QED BY <3>5, <3>6
  <2> QED BY <2>1, <2>2
<1> DEFINE t == x.thinking
           parts == FlatMap(DecodeParts, x.content)
           calls == FlatMap(DecodeCalls, x.tool_calls)
<1>4. /\ parts \in Seq(Parts1) /\ calls \in Seq(Calls1) /\ t \in Seq(Texts("thinking"))
      /\ DecodeOpenAI[x] = Messages("assistant", (t \o parts) \o calls)
  BY <1>2, <1>1, DecodeOpenAIType, OpenAIKinds
<1>5. parts = u
  <2> DEFINE b == Block("text", Empty, text)
  <2>1. u = <<>> \/ (u = <<b>> /\ b \in Texts("text"))
    BY <1>3, SaidOne
  <2> HIDE DEF u, b, x
  <2>2. CASE u = <<>>
    BY <1>2, <2>2, FlatMapNone
  <2>3. CASE u = <<b>> /\ b \in Texts("text")
    <3>1. b \in PartBlocks /\ b.type = "text"
      BY <2>3 DEF PartBlocks, Texts
    <3>2. DecodeParts[b] = <<b>>
      BY <3>1 DEF DecodeParts, DecodePart
    <3>3. DecodeParts \in [PartBlocks -> Seq(Parts1)]
      BY DecodePartType DEF DecodeParts
    <3>4. FlatMap(DecodeParts, <<b>>) = DecodeParts[b]
      BY <3>1, <3>3, FlatMapOne
    <3> QED BY <1>2, <2>3, <3>2, <3>4
  <2> QED BY <2>1, <2>2, <2>3
<1>6. FlatMap(EncodeParts, u) = u
  <2> DEFINE b == Block("text", Empty, text)
  <2>1. u = <<>> \/ (u = <<b>> /\ b \in Texts("text"))
    BY <1>3, SaidOne
  <2> HIDE DEF u, b
  <2>2. CASE u = <<>>
    BY <2>2, FlatMapNone
  <2>3. CASE u = <<b>> /\ b \in Texts("text")
    <3>1. b \in Blocks1 /\ b.type = "text"
      BY <2>3 DEF Blocks1, Parts1, Texts
    <3>2. EncodeParts[b] = <<b>>
      BY <3>1, EncodePartType DEF EncodeParts
    <3>3. <<>> \in Seq(Blocks1)
      OBVIOUS
    <3>4. EncodeParts \in [Blocks1 -> Seq(SentParts)]
      BY <3>3, EncodePartsEach
    <3>5. FlatMap(EncodeParts, <<b>>) = EncodeParts[b]
      BY <3>1, <3>4, FlatMapOne
    <3> QED BY <2>3, <3>2, <3>5
  <2> QED BY <2>1, <2>2, <2>3
<1> HIDE DEF x, m, text
<1> DEFINE content == (t \o parts) \o calls
<1>7. FlatMap(EncodeParts, content) = u
  <2> HIDE DEF t, parts, calls, u
  <2>1. t \in Seq(Blocks1) /\ parts \in Seq(Blocks1) /\ calls \in Seq(Blocks1)
    BY <1>4 DEF Blocks1
  <2>2. EncodeParts \in Maps(Blocks1, SentParts) /\ t \in Lists(Blocks1) /\ parts \in Lists(Blocks1)
        /\ calls \in Lists(Blocks1)
    BY <2>1, EncodePartsEach DEF Maps, Lists
  <2>3. FlatMap(EncodeParts, Three(t, parts, calls))
          = Three(FlatMap(EncodeParts, t), FlatMap(EncodeParts, parts), FlatMap(EncodeParts, calls))
    BY <2>2, FlatMapThree
  <2>4. FlatMap(EncodeParts, t) = <<>> /\ FlatMap(EncodeParts, calls) = <<>>
    <3>1. (\A i \in DOMAIN t : t[i] \in Texts("thinking")) /\ \A i \in DOMAIN calls : calls[i] \in Calls1
      BY <1>4
    <3>2. \A b \in Texts("thinking") \cup Calls1 : EncodeParts[b] = <<>>
      <4> TAKE b \in Texts("thinking") \cup Calls1
      <4>1. b \in Blocks1 /\ b.type \notin {"text", "image"}
        BY DEF Texts, Calls1, Blocks1
      <4> QED BY <4>1, EncodePartType DEF EncodeParts
    <3>3. /\ \A i \in DOMAIN t : EncodeParts[t[i]] = <<>>
          /\ \A i \in DOMAIN calls : EncodeParts[calls[i]] = <<>>
      BY <3>1, <3>2
    <3> QED BY <2>1, <3>3, FlatMapEmpty
  <2>5. FlatMap(EncodeParts, parts) = u /\ u \in Seq(Parts1)
    BY <1>4, <1>5, <1>6
  <2>6. Three(<<>>, u, <<>>) = u
    BY <2>5 DEF Three
  <2>7. content = Three(t, parts, calls)
    BY DEF Three
  <2> QED BY <2>3, <2>4, <2>5, <2>6, <2>7
<1> HIDE DEF t, parts, calls
<1>8. "openai" \in Protocols /\ x \in Histories("openai") /\ Decode("openai") = DecodeOpenAI
  BY <1>1 DEF Protocols, Histories, Decode
<1>9. FlatMap(UpText, Through("openai")[x]) = FlatMap(UpBlock, u)
  BY <1>4, <1>8, <1>7, AssistantThrough
<1>10. FlatMap(UpBlock, u) = IF text = <<>> THEN <<>> ELSE <<text>>
  BY <1>3, SaidUp
<1>11. FlatMap(CallsIn, Through("openai")[x]) = FlatMap(ReparsedCalls, x.tool_calls)
  BY <1>1, <1>8, ThroughCalls, OpenAICalls
<1>12. choices # <<>> => FlatMap(ReparsedCalls, x.tool_calls) = FlatMap(ReparsedCalls, m.tool_calls)
  <2> SUFFICES ASSUME choices # <<>>
               PROVE  FlatMap(ReparsedCalls, x.tool_calls) = FlatMap(ReparsedCalls, m.tool_calls)
    OBVIOUS
  <2>1. m \in Upstream
    BY HeadFromUpstream DEF m
  <2>2. m.tool_calls \in Seq(CallRecords)
    BY <2>1, AnswerParts
  <2>3. x.tool_calls = FlatMap(ReparsedCalls, m.tool_calls)
    BY <1>2, <2>2, DecodedCalls
  <2> QED BY <2>2, <2>3, ReparsedTwice
<1>13. choices = <<>> => FlatMap(ReparsedCalls, x.tool_calls) = <<>>
  BY <1>2, FlatMapNone
<1>14. choices # <<>> => TextOf(m, FooterOf(w, results)) = IF text = <<>> THEN <<>> ELSE <<text>>
  BY DEF TextOf, text
<1>15. choices = <<>> => text = <<>>
  BY DEF text
<1> HIDE DEF u
<1> QED BY <1>9, <1>10, <1>11, <1>12, <1>13, <1>14, <1>15 DEF x, m

\* What the turns of an upstream amount to.
SaidText(p) ==
  [s \in Turns |-> IF s.choices = <<>> THEN <<>>
                   ELSE TextOf(Head(s.choices), IF s.searched /\ p = "openai" THEN <<Footer>> ELSE <<>>)]
SaidCalls ==
  [s \in Turns |-> IF s.choices = <<>> THEN <<>> ELSE FlatMap(ReparsedCalls, Head(s.choices).tool_calls)]

LEMMA TurnHead ==
  ASSUME NEW s \in Turns, s.choices # <<>>
  PROVE  Head(s.choices) \in Upstream
<1>1. s.choices \in Seq(Upstream)
  BY DEF Turns
<1> DEFINE c == s.choices
<1>2. c \in Seq(Upstream) /\ c # <<>>
  BY <1>1
<1> HIDE DEF c
<1>3. Head(c) \in Upstream
  BY <1>2
<1> QED BY <1>3 DEF c

LEMMA SaidTypes ==
  ASSUME NEW p
  PROVE  SaidText(p) \in [Turns -> Seq(SomeTexts)] /\ SaidCalls \in [Turns -> Seq(CallRecords)]
<1>1. ASSUME NEW s \in Turns PROVE SaidText(p)[s] \in Seq(SomeTexts)
  <2>1. CASE s.choices = <<>>
    BY <1>1, <2>1 DEF SaidText
  <2>2. CASE s.choices # <<>>
    <3> DEFINE m == Head(s.choices)
               f == IF s.searched /\ p = "openai" THEN <<Footer>> ELSE <<>>
               v == m.content
               x == v \o f
               S == SomeTexts
    <3>1. v \in Seq(Pieces) /\ f \in Seq(Pieces)
      BY <2>2, TurnHead, AnswerParts, ConversationAssumption
    <3>2. SaidText(p)[s] = IF x = <<>> THEN <<>> ELSE <<x>>
      BY <1>1, <2>2 DEF SaidText, TextOf
    <3> HIDE DEF v, f
    <3>3. x \in S
      BY <3>1 DEF SomeTexts
    <3> HIDE DEF x, S
    <3>4. <<x>> \in Seq(S) /\ <<>> \in Seq(S)
      BY <3>3
    <3> QED BY <3>2, <3>4 DEF S
  <2> QED BY <2>1, <2>2
<1>2. ASSUME NEW s \in Turns PROVE SaidCalls[s] \in Seq(CallRecords)
  <2>1. CASE s.choices = <<>>
    BY <1>2, <2>1 DEF SaidCalls
  <2>2. CASE s.choices # <<>>
    <3> DEFINE c == Head(s.choices).tool_calls
    <3>1. c \in Seq(CallRecords)
      BY <2>2, TurnHead, AnswerParts
    <3>2. SaidCalls[s] = FlatMap(ReparsedCalls, c)
      BY <1>2, <2>2 DEF SaidCalls
    <3> HIDE DEF c
    <3>3. ReparsedCalls \in [CallRecords -> Seq(CallRecords)]
      BY <3>1, DecodedCalls
    <3>4. FlatMap(ReparsedCalls, c) \in Seq(CallRecords)
      BY <3>1, <3>3, FlatMapType
    <3> QED BY <3>2, <3>4
  <2> QED BY <2>1, <2>2
<1>3. SaidText(p) = [s \in Turns |-> SaidText(p)[s]] /\ SaidCalls = [s \in Turns |-> SaidCalls[s]]
  BY DEF SaidText, SaidCalls
<1> QED BY <1>1, <1>2, <1>3

\* What a history brings to the upstream is what the upstream has said.
MuteSystems(h) == \A i \in DOMAIN h : h[i].role = "system" => MuteSeq(h[i].content)
Back(p, h, d) ==
  /\ MuteSystems(h)
  /\ FlatMap(UpText, FlatMap(Through(p), h)) = FlatMap(SaidText(p), d)
  /\ FlatMap(CallsIn, FlatMap(Through(p), h)) = FlatMap(SaidCalls, d)
CameBack == Back(protocol, history, said)

LEMMA NothingSaid ==
  ASSUME NEW p \in Protocols, NEW h \in Seq(Histories(p)), NEW d, Back(p, h, d),
         NEW t \in Seq(Histories(p)), MuteHistory(t), MuteSystems(t),
         FlatMap(CallsIn, FlatMap(Through(p), t)) = <<>>
  PROVE  h \o t \in Seq(Histories(p)) /\ Back(p, h \o t, d)
<1> DEFINE T == Through(p)
           a == FlatMap(T, h)
           b == FlatMap(T, t)
           H == Histories(p)
<1>1. FlatMap(T, h \o t) = a \o b /\ a \in Lists(SentMessages) /\ b \in Lists(SentMessages)
  BY ThroughConcat DEF Lists
<1>2. FlatMap(UpText, b) = <<>>
  BY MuteAdds
<1>3. UpText \in Maps(SentMessages, SomeTexts) /\ CallsIn \in Maps(SentMessages, CallRecords)
  BY UpTextType, CountsAre DEF Maps
<1> HIDE DEF T
<1>4. a \in Seq(SentMessages) /\ UpText \in [SentMessages -> Seq(SomeTexts)]
      /\ CallsIn \in [SentMessages -> Seq(CallRecords)]
  BY <1>1, <1>3 DEF Lists, Maps
<1> HIDE DEF a, b, H
<1>5. FlatMap(UpText, a \o b) = FlatMap(UpText, a)
  <2>1. FlatMap(UpText, a \o b) = FlatMap(UpText, a) \o FlatMap(UpText, b)
    BY <1>1, <1>3, FlatMapConcat
  <2>2. FlatMap(UpText, a) \in Seq(SomeTexts)
    BY <1>4, FlatMapType
  <2> QED BY <1>2, <2>1, <2>2
<1>6. FlatMap(CallsIn, a \o b) = FlatMap(CallsIn, a)
  <2>1. FlatMap(CallsIn, a \o b) = FlatMap(CallsIn, a) \o FlatMap(CallsIn, b)
    BY <1>1, <1>3, FlatMapConcat
  <2>2. FlatMap(CallsIn, a) \in Seq(CallRecords)
    BY <1>4, FlatMapType
  <2>3. FlatMap(CallsIn, b) = <<>>
    BY DEF b, T
  <2> QED BY <2>1, <2>2, <2>3
<1>7. h \o t \in Seq(H) /\ MuteSystems(h \o t)
  <2>1. h \in Seq(H) /\ t \in Seq(H)
    BY DEF H
  <2>2. /\ h \o t \in Seq(H) /\ Len(h \o t) = Len(h) + Len(t)
        /\ \A i \in 1..Len(h) : (h \o t)[i] = h[i]
        /\ \A i \in 1..Len(t) : (h \o t)[Len(h) + i] = t[i]
    BY <2>1, JoinedAt
  <2> DEFINE x == h \o t
  <2>3. Len(h) \in Nat /\ Len(t) \in Nat /\ DOMAIN x = 1..Len(x) /\ DOMAIN h = 1..Len(h) /\ DOMAIN t = 1..Len(t)
    BY <2>1, <2>2
  <2>4. MuteSystems(h) /\ MuteSystems(t)
    BY DEF Back
  <2> HIDE DEF x
  <2>5. \A i \in DOMAIN x : (i \in DOMAIN h /\ x[i] = h[i])
                            \/ (i - Len(h) \in DOMAIN t /\ x[i] = t[i - Len(h)])
    <3> TAKE i \in DOMAIN x
    <3>1. i \in 1..(Len(h) + Len(t))
      BY <2>2, <2>3 DEF x
    <3>2. CASE i <= Len(h)
      BY <2>2, <2>3, <3>1, <3>2 DEF x
    <3>3. CASE i > Len(h)
      <4> DEFINE j == i - Len(h)
      <4>1. j \in 1..Len(t) /\ i = Len(h) + j
        BY <2>3, <3>1, <3>3
      <4> HIDE DEF j
      <4>2. x[i] = t[j]
        BY <2>2, <4>1 DEF x
      <4> QED BY <2>3, <4>1, <4>2 DEF j
    <3> QED BY <2>3, <3>1, <3>2, <3>3
  <2>6. MuteSystems(x)
    BY <2>4, <2>5 DEF MuteSystems
  <2> QED BY <2>2, <2>6 DEF x
<1>8. FlatMap(UpText, FlatMap(T, h \o t)) = FlatMap(UpText, a)
      /\ FlatMap(CallsIn, FlatMap(T, h \o t)) = FlatMap(CallsIn, a)
  BY <1>1, <1>5, <1>6
<1> QED BY <1>7, <1>8 DEF Back, a, T, H

\* Words that call nothing and are not the upstream's.
Plain(p) == {m \in Quiet(p) : MuteContent(m.content) /\ MuteSeq(m.content)}

LEMMA PlainSaysNothing ==
  ASSUME NEW p \in Protocols, NEW h \in Seq(Histories(p)), NEW d, Back(p, h, d), NEW t \in Seq(Plain(p))
  PROVE  h \o t \in Seq(Histories(p)) /\ Back(p, h \o t, d)
BY QuietCalm, CalmCallsNone, NothingSaid DEF Plain, MuteHistory, MuteSystems

LEMMA UserSpeaksBack ==
  ASSUME TypeOK, CameBack, UserSpeaks
  PROVE  CameBack'
<1> DEFINE p == protocol
           Q == Plain(p)
           H == Histories(p)
<1>1. p \in Protocols /\ history \in Seq(H)
  BY TypeOKIs
<1>2. protocol' = protocol /\ said' = said
  BY DEF UserSpeaks
<1>3. Back(p, history, said)
  BY DEF CameBack
<1>4. PICK content \in Contents, prefill \in Prefills \cup {<<>>}, instruction \in Instructions \cup {<<>>} :
        /\ protocol = "anthropic" => instruction = <<>>
        /\ history' = history
             \o (IF instruction = <<>> THEN <<>> ELSE <<Speak("system", instruction)>>)
             \o <<Speak("user", content)>>
             \o (IF prefill = <<>> THEN <<>> ELSE <<Speak("assistant", prefill)>>)
  BY DEF UserSpeaks
<1>5. content \in Seq(UserBlocks) /\ prefill \in Seq(UserBlocks) /\ instruction \in Seq(Texts("text"))
  BY ContentsType
<1>6. instruction \in Seq(UserBlocks)
  BY <1>5 DEF UserBlocks
<1>7. MuteSeq(content) /\ MuteSeq(prefill) /\ MuteSeq(instruction)
  BY ClientsAreMute
<1> DEFINE u == Speak("user", content)
           b == Speak("assistant", prefill)
           i == Speak("system", instruction)
<1>8. u \in Q /\ b \in Q
  BY <1>1, <1>5, <1>7, SpeakType, SpokenQuiet, SpokenMute DEF Plain
<1>9. instruction # <<>> => i \in Q
  BY <1>1, <1>4, <1>5, <1>6, <1>7, SpeakType, SpokenQuiet, SpokenMute DEF Protocols, Plain
<1> HIDE DEF u, b, i, Q
<1> DEFINE x == IF instruction = <<>> THEN <<>> ELSE <<i>>
           y == <<u>>
           z == IF prefill = <<>> THEN <<>> ELSE <<b>>
<1>10. x \in Seq(Q) /\ y \in Seq(Q) /\ z \in Seq(Q)
  BY <1>8, <1>9
<1>11. history' = ((history \o x) \o y) \o z
  BY <1>4 DEF u, b, i
<1> HIDE DEF x, y, z
<1> DEFINE hx == history \o x
           hy == hx \o y
<1>12. hx \in Seq(H) /\ Back(p, hx, said)
  BY <1>1, <1>3, <1>10, PlainSaysNothing DEF Q
<1> HIDE DEF hx
<1>13. hy \in Seq(H) /\ Back(p, hy, said)
  BY <1>1, <1>10, <1>12, PlainSaysNothing DEF Q
<1> HIDE DEF hy
<1>14. Back(p, hy \o z, said)
  BY <1>1, <1>10, <1>13, PlainSaysNothing DEF Q
<1>15. history' = hy \o z
  BY <1>11 DEF hx, hy
<1> QED BY <1>2, <1>14, <1>15 DEF CameBack

LEMMA CallsReturnBack ==
  ASSUME TypeOK, CameBack, CallsReturn
  PROVE  CameBack'
<1> DEFINE p == protocol
           T == Through(p)
           h == history
<1>1. p \in Protocols /\ h \in Seq(Histories(p))
  BY TypeOKIs
<1>2. protocol' = protocol /\ said' = said
  BY DEF CallsReturn
<1>3. PICK outcome \in Outcomes, before \in Contents \cup {<<>>}, after \in Contents \cup {<<>>} :
        history' = h \o Results(outcome, before, after)
  BY DEF CallsReturn
<1>4. before \in Seq(UserBlocks) /\ after \in Seq(UserBlocks)
  BY ContentsType
<1> DEFINE rs == Results(outcome, before, after)
<1>5. rs \in Seq(Histories(p))
      /\ \E r \in Seq(ToolMessages), w \in Seq(Calm) : FlatMap(T, rs) = r \o w
  BY <1>4, ResultsGiven
<1>6. MuteHistory(rs) /\ \A i \in DOMAIN rs : rs[i].role # "system"
  BY ResultsMute
<1> HIDE DEF rs
<1>7. FlatMap(CallsIn, FlatMap(T, rs)) = <<>>
  <2>1. PICK r \in Seq(ToolMessages), w \in Seq(Calm) : FlatMap(T, rs) = r \o w
    BY <1>5
  <2>2. w \in Seq(OwnMessages) /\ FlatMap(CallsIn, w) = <<>>
    BY CalmCallsNone
  <2>3. FlatMap(CallsIn, r \o w) = FlatMap(CallsIn, w)
    BY <2>2, NoCallsIn
  <2> QED BY <2>1, <2>2, <2>3
<1>8. MuteSystems(rs)
  BY <1>6 DEF MuteSystems
<1>9. Back(p, h \o rs, said)
  BY <1>1, <1>5, <1>6, <1>7, <1>8, NothingSaid DEF CameBack
<1> QED BY <1>2, <1>3, <1>9 DEF CameBack, rs

\* What a function makes of a sequence, known only where the sequence is.
LEMMA FlatMapWithin ==
  ASSUME NEW S, NEW B, NEW h, NEW s \in Seq(S), \A a \in S : h[a] \in Seq(B)
  PROVE  FlatMap(h, s) \in Seq(B)
<1> DEFINE g == [a \in S |-> h[a]]
<1>1. \A i \in DOMAIN s : g[s[i]] = h[s[i]]
  OBVIOUS
<1>2. g \in [S -> Seq(B)]
  OBVIOUS
<1> HIDE DEF g
<1>3. FlatMap(g, s) \in Seq(B)
  BY <1>2, FlatMapType
<1>4. FlatMap(g, s) = FlatMap(h, s)
  BY <1>1, FlatMapPointwise
<1> QED BY <1>3, <1>4

LEMMA OneMore ==
  ASSUME NEW p \in Protocols, NEW h \in Seq(Histories(p)), NEW d \in Seq(Turns), Back(p, h, d),
         NEW x \in Histories(p), x.role # "system", NEW turn \in Turns,
         FlatMap(UpText, Through(p)[x]) = SaidText(p)[turn],
         FlatMap(CallsIn, Through(p)[x]) = SaidCalls[turn]
  PROVE  Back(p, Append(h, x), Append(d, turn))
<1> DEFINE T == Through(p)
           H == Histories(p)
           a == FlatMap(T, h)
           b == T[x]
<1>1. T \in [H -> Seq(SentMessages)] /\ h \in Seq(H) /\ x \in H
  BY ThroughType
<1>2. SaidText(p) \in [Turns -> Seq(SomeTexts)] /\ SaidCalls \in [Turns -> Seq(CallRecords)]
  BY SaidTypes
<1>3. UpText \in Maps(SentMessages, SomeTexts) /\ CallsIn \in Maps(SentMessages, CallRecords)
  BY UpTextType, CountsAre DEF Maps
<1> HIDE DEF T, H
<1>4. FlatMap(T, Append(h, x)) = a \o b
  BY <1>1, FlatMapAppend
<1>5. a \in Seq(SentMessages)
  BY <1>1, FlatMapType
<1>6. b \in Seq(SentMessages)
  BY <1>1
<1> HIDE DEF a, b
<1>7. a \in Lists(SentMessages) /\ b \in Lists(SentMessages)
  BY <1>5, <1>6 DEF Lists
<1>8. FlatMap(UpText, a \o b) = FlatMap(UpText, a) \o FlatMap(UpText, b)
  BY <1>3, <1>7, FlatMapConcat
<1>9. FlatMap(CallsIn, a \o b) = FlatMap(CallsIn, a) \o FlatMap(CallsIn, b)
  BY <1>3, <1>7, FlatMapConcat
<1>10. FlatMap(SaidText(p), Append(d, turn)) = FlatMap(SaidText(p), d) \o SaidText(p)[turn]
  BY <1>2, FlatMapAppend
<1>11. FlatMap(SaidCalls, Append(d, turn)) = FlatMap(SaidCalls, d) \o SaidCalls[turn]
  BY <1>2, FlatMapAppend
<1>12. /\ FlatMap(UpText, a) = FlatMap(SaidText(p), d) /\ FlatMap(CallsIn, a) = FlatMap(SaidCalls, d)
       /\ MuteSystems(h)
  BY DEF Back, a, T
<1>13. FlatMap(UpText, b) = SaidText(p)[turn] /\ FlatMap(CallsIn, b) = SaidCalls[turn]
  BY DEF b, T
<1>14. MuteSystems(Append(h, x))
  <2> DEFINE y == Append(h, x)
  <2>1. \A A : \A s \in Seq(A) : \A e \in A :
          \A i \in DOMAIN Append(s, e) : Append(s, e)[i] = e \/ (i \in DOMAIN s /\ Append(s, e)[i] = s[i])
    OBVIOUS
  <2>2. \A i \in DOMAIN y : y[i] = x \/ (i \in DOMAIN h /\ y[i] = h[i])
    BY <1>1, <2>1
  <2> HIDE DEF y
  <2>3. MuteSystems(y)
    BY <1>12, <2>2 DEF MuteSystems
  <2> QED BY <2>3 DEF y
<1>15. /\ FlatMap(UpText, FlatMap(T, Append(h, x))) = FlatMap(SaidText(p), Append(d, turn))
       /\ FlatMap(CallsIn, FlatMap(T, Append(h, x))) = FlatMap(SaidCalls, Append(d, turn))
  BY <1>4, <1>8, <1>9, <1>10, <1>11, <1>12, <1>13
<1> QED BY <1>14, <1>15 DEF Back, T

LEMMA AnswerGivesBack ==
  ASSUME TypeOK, CameBack, Answer
  PROVE  CameBack'
<1> DEFINE p == protocol
           w == sent.web_search
<1>1. p \in Protocols /\ history \in Seq(Histories(p)) /\ said \in Seq(Turns) /\ w \in BOOLEAN
  BY TypeOKIs DEF SentOK
<1>2. protocol' = protocol
  BY DEF Answer
<1>3. PICK answer \in Seq(Upstream), results \in SourceLists :
        /\ FromUpstream(answer)
        /\ said' = Append(said, [choices |-> answer, searched |-> w /\ results # <<>>])
        /\ history' = Append(history,
             IF protocol = "anthropic" THEN AnthropicAnswer(answer, w, results)
             ELSE OpenAIAnswer(answer, w, results))
  BY AnswerSays
<1> DEFINE turn == [choices |-> answer, searched |-> w /\ results # <<>>]
           m == Head(answer)
           f == IF turn.searched /\ p = "openai" THEN <<Footer>> ELSE <<>>
           text == IF answer = <<>> THEN <<>> ELSE TextOf(m, f)
           calls == IF answer = <<>> THEN <<>> ELSE FlatMap(ReparsedCalls, m.tool_calls)
<1>4. turn \in Turns /\ turn.choices = answer
  BY <1>1 DEF Turns
<1>5. SaidText(p)[turn] = text /\ SaidCalls[turn] = calls
  BY <1>4 DEF SaidText, SaidCalls
<1>6. CASE p = "anthropic"
  <2> DEFINE x == AnthropicAnswer(answer, w, results)
  <2>1. x \in Histories(p)
    BY <1>1, <1>6, AnthropicAnswerType DEF Histories
  <2>2. x.role # "system"
    BY DEF AnthropicAnswer, Message
  <2>3. f = <<>>
    BY <1>6
  <2>4. FlatMap(UpText, Through(p)[x]) = text /\ FlatMap(CallsIn, Through(p)[x]) = calls
    BY <1>1, <1>3, <1>6, AnthropicBack
  <2>5. history' = Append(history, x) /\ said' = Append(said, turn)
    BY <1>3, <1>6
  <2> HIDE DEF x, turn, text, calls
  <2>6. Back(p, Append(history, x), Append(said, turn))
    BY <1>1, <1>4, <1>5, <2>1, <2>2, <2>4, OneMore DEF CameBack
  <2> QED BY <1>2, <2>5, <2>6 DEF CameBack
<1>7. CASE p = "openai"
  <2> DEFINE x == OpenAIAnswer(answer, w, results)
  <2>1. x \in Histories(p)
    BY <1>1, <1>7, OpenAIAnswerIs DEF Histories
  <2>2. x.role # "system"
    BY DEF OpenAIAnswer
  <2>3. f = FooterOf(w, results)
    BY <1>7 DEF FooterOf
  <2>4. FlatMap(UpText, Through(p)[x]) = text /\ FlatMap(CallsIn, Through(p)[x]) = calls
    BY <1>1, <1>3, <1>7, <2>3, OpenAIBack
  <2>5. history' = Append(history, x) /\ said' = Append(said, turn)
    BY <1>3, <1>7
  <2> HIDE DEF x, turn, text, calls
  <2>6. Back(p, Append(history, x), Append(said, turn))
    BY <1>1, <1>4, <1>5, <2>1, <2>2, <2>4, OneMore DEF CameBack
  <2> QED BY <1>2, <2>5, <2>6 DEF CameBack
<1> QED BY <1>1, <1>6, <1>7 DEF Protocols

LEMMA NextCameBack ==
  ASSUME TypeOK, CameBack, [Next]_vars
  PROVE  CameBack'
BY UserSpeaksBack, CallsReturnBack, AnswerGivesBack DEF Forward, vars, Done, CameBack, Next

\* What a request tells of the upstream's turns.
AsItSaid(ms, p, d) ==
  /\ FlatMap(UpText, ms) = FlatMap(SaidText(p), d)
  /\ FlatMap(CallsIn, ms) = FlatMap(SaidCalls, d)

LEMMA SystemsSayNothing ==
  ASSUME NEW s \in Seq(Texts("text")), MuteSeq(s)
  PROVE  /\ FlatMap(UpText, FlatMap(SystemMessages, s)) = <<>>
         /\ FlatMap(CallsIn, FlatMap(SystemMessages, s)) = <<>>
<1> DEFINE T == Muted(Texts("text"))
           x == FlatMap(SystemMessages, s)
<1>1. s \in Seq(T)
  BY MutedSeq
<1>2. \A b \in T : SystemMessages[b] \in Seq(MuteMessages)
  <2> SUFFICES ASSUME NEW b \in T PROVE SystemMessages[b] \in Seq(MuteMessages)
    OBVIOUS
  <2> DEFINE one == <<b>>
             c == ChatMessage("system", one, <<>>, Empty)
             M == MuteMessages
  <2>1. b \in Texts("text") /\ MuteBlock(b) /\ b \in SentParts /\ b \in AllParts
    BY DEF Muted, SentParts, AllParts
  <2>2. SystemMessages[b] = <<c>>
    BY <2>1 DEF SystemMessages
  <2>3. one \in Seq(SentParts) /\ one \in Seq(AllParts) /\ one # <<>> /\ MuteSeq(one)
    <3> DEFINE A == SentParts
               B == AllParts
    <3> HIDE DEF A, B
    <3>1. b \in A /\ b \in B
      BY <2>1 DEF A, B
    <3>2. <<b>> \in Seq(A) /\ <<b>> \in Seq(B)
      BY <3>1
    <3> QED BY <2>1, <3>2 DEF A, B, MuteSeq
  <2>4. c = [role |-> "system", content |-> one, tool_calls |-> <<>>, tool_call_id |-> Empty]
    BY DEF ChatMessage
  <2> HIDE DEF one, c
  <2>5. <<>> \in Seq(CallRecords)
    OBVIOUS
  <2>6. c \in OwnMessages /\ c.content = one
    BY <2>3, <2>4, <2>5 DEF OwnMessages
  <2>7. c \in M
    BY <2>3, <2>6 DEF MuteMessages, SentMessages
  <2> HIDE DEF M
  <2>8. <<c>> \in Seq(M)
    BY <2>7
  <2> QED BY <2>2, <2>8 DEF M
<1> HIDE DEF T
<1>3. x \in Seq(MuteMessages)
  BY <1>1, <1>2, FlatMapWithin
<1>4. x \in Seq(Calm)
  BY SystemCalm
<1> HIDE DEF x
<1>5. FlatMap(UpText, x) = <<>> /\ FlatMap(CallsIn, x) = <<>>
  BY <1>3, <1>4, MuteSaysNone, CalmCallsNone
<1> QED BY <1>5 DEF x

LEMMA SystemTextsMute ==
  ASSUME TypeOK, CameBack, Forward
  PROVE  MuteSeq(SystemTexts(protocol, asked'.system, history))
<1> DEFINE h == history
<1>1. protocol \in Protocols /\ h \in Seq(Histories(protocol)) /\ MuteSystems(h)
  BY TypeOKIs DEF CameBack, Back
<1>2. CASE protocol = "anthropic"
  BY <1>2, ClientsAreMute DEF Forward, SystemTexts
<1>3. CASE protocol = "openai"
  <2> DEFINE S == {m \in OpenAIMessages : m.role = "system" => MuteSeq(m.content)}
             T == Muted(Texts("text"))
  <2>1. h \in Seq(OpenAIMessages)
    BY <1>1, <1>3 DEF Histories
  <2>2. h \in Seq(S)
    <3> DEFINE O == OpenAIMessages
    <3>1. \A i \in DOMAIN h : h[i] \in S
      BY <1>1, <2>1 DEF MuteSystems
    <3> HIDE DEF S, O
    <3>2. h \in Seq(O)
      BY <2>1 DEF O
    <3>3. Len(h) \in Nat /\ DOMAIN h = 1..Len(h) /\ h \in [1..Len(h) -> O]
      BY <3>2
    <3>4. h \in [1..Len(h) -> S]
      BY <3>1, <3>3
    <3> QED BY <3>3, <3>4
  <2>3. \A m \in S : SystemOf[m] \in Seq(T)
    <3> SUFFICES ASSUME NEW m \in S PROVE SystemOf[m] \in Seq(T)
      OBVIOUS
    <3>1. CASE m.role = "system"
      BY <3>1, SystemOfType, MutedSeq
    <3>2. CASE m.role # "system"
      BY <3>2 DEF SystemOf
    <3> QED BY <3>1, <3>2
  <2> HIDE DEF S, T
  <2>4. FlatMap(SystemOf, h) \in Seq(T)
    BY <2>2, <2>3, FlatMapWithin
  <2> DEFINE s == FlatMap(SystemOf, h)
  <2>5. SystemTexts(protocol, asked'.system, h) = s
    BY <1>3 DEF SystemTexts
  <2>6. s \in Seq(T)
    BY <2>4
  <2> HIDE DEF s
  <2>7. T \subseteq Texts("text")
    BY DEF T, Muted
  <2>8. s \in Seq(Texts("text"))
    BY <2>6, <2>7
  <2>9. MuteSeq(s)
    BY <2>6, <2>8, MutedSeq DEF T
  <2> QED BY <2>5, <2>9
<1> QED BY <1>1, <1>2, <1>3 DEF Protocols

LEMMA ForwardSaysBack ==
  ASSUME TypeOK, CameBack, Forward
  PROVE  AsItSaid(sent'.messages, protocol, said) /\ sent'.messages \in Seq(SentMessages)
<1> DEFINE p == protocol
           h == history
           texts == SystemTexts(p, asked'.system, h)
           x == FlatMap(SystemMessages, texts)
           y == FlatMap(Through(p), h)
<1>1. p \in Protocols /\ h \in Seq(Histories(p)) /\ asked'.system \in Seq(Texts("text"))
      /\ sent'.messages = ReRole(Unroled(p, asked'.system, h))
  BY ForwardSends DEF Requests
<1>2. /\ FlatMap(UpText, y) = FlatMap(SaidText(p), said)
      /\ FlatMap(CallsIn, y) = FlatMap(SaidCalls, said)
  BY DEF CameBack, Back
<1>3. y \in Seq(SentMessages) /\ y = FlatMap(Encode, FlatMap(Decode(p), h))
  BY <1>1, ThroughType, ThroughConcat
<1>4. texts \in Seq(Texts("text")) /\ x \in Seq(SentMessages)
  BY <1>1, UnroledType
<1>5. MuteSeq(texts)
  BY SystemTextsMute
<1>6. FlatMap(UpText, x) = <<>> /\ FlatMap(CallsIn, x) = <<>>
  BY <1>4, <1>5, SystemsSayNothing
<1>7. Unroled(p, asked'.system, h) = x \o y
  BY <1>3 DEF Unroled
<1> HIDE DEF x, y
<1> DEFINE ms == x \o y
           rs == ReRole(ms)
<1>8. x \in Lists(SentMessages) /\ y \in Lists(SentMessages)
  BY <1>3, <1>4 DEF Lists
<1>9. UpText \in Maps(SentMessages, SomeTexts) /\ CallsIn \in Maps(SentMessages, CallRecords)
  BY UpTextType, CountsAre DEF Maps
<1>10. FlatMap(UpText, y) \in Seq(SomeTexts) /\ FlatMap(CallsIn, y) \in Seq(CallRecords)
  BY <1>9, <1>3, FlatMapType DEF Maps
<1>11. FlatMap(UpText, ms) = FlatMap(UpText, y)
  <2>1. FlatMap(UpText, x \o y) = FlatMap(UpText, x) \o FlatMap(UpText, y)
    BY <1>8, <1>9, FlatMapConcat
  <2> QED BY <1>6, <1>10, <2>1
<1>12. FlatMap(CallsIn, ms) = FlatMap(CallsIn, y)
  <2>1. FlatMap(CallsIn, x \o y) = FlatMap(CallsIn, x) \o FlatMap(CallsIn, y)
    BY <1>8, <1>9, FlatMapConcat
  <2> QED BY <1>6, <1>10, <2>1
<1>13. ms \in Seq(SentMessages)
  BY <1>3, <1>4, JoinedAt
<1> HIDE DEF ms
<1>14. /\ rs \in Seq(SentMessages) /\ DOMAIN rs = DOMAIN ms
       /\ \A i \in DOMAIN ms : rs[i].content = ms[i].content /\ rs[i].tool_calls = ms[i].tool_calls
  BY <1>13, ReRoleType
<1>15. \A i \in DOMAIN ms : ms[i] \in SentMessages /\ rs[i] \in SentMessages
  BY <1>13, <1>14
<1> HIDE DEF rs
<1>16. \A i \in DOMAIN rs : UpText[rs[i]] = UpText[ms[i]] /\ CallsIn[rs[i]] = CallsIn[ms[i]]
  BY <1>14, <1>15 DEF UpText, CallsIn
<1>17. FlatMap(UpText, rs) = FlatMap(UpText, ms)
  BY <1>14, <1>16, FlatMapPointwise
<1>18. FlatMap(CallsIn, rs) = FlatMap(CallsIn, ms)
  BY <1>14, <1>16, FlatMapPointwise
<1>19. sent'.messages = rs
  BY <1>1, <1>7 DEF ms, rs
<1> QED BY <1>2, <1>11, <1>12, <1>14, <1>17, <1>18, <1>19 DEF AsItSaid

\* A request, as the property reads it.
AsItReads(ms, p, d) ==
  LET answers == Each(LAMBDA s : IF s.choices = <<>> THEN <<>>
                                 ELSE <<[m |-> Head(s.choices), searched |-> s.searched]>>, d)
      Text(a) == a.m.content \o (IF a.searched /\ p = "openai" THEN <<Footer>> ELSE <<>>)
      texts == Each(LAMBDA v : IF OfUpstream(v) THEN <<v>> ELSE <<>>,
                    Each(LAMBDA m : Each(LAMBDA b : <<b.val>>, OfType("text", m.content)), ms))
  IN  /\ texts = Each(LAMBDA a : IF Text(a) = <<>> THEN <<>> ELSE <<Text(a)>>, answers)
      /\ Each(LAMBDA m : m.tool_calls, ms) =
           Each(LAMBDA a : [k \in DOMAIN a.m.tool_calls |->
                              [a.m.tool_calls[k] EXCEPT !.args = Reparsed[@]]], answers)

\* The texts of a message, and those of the upstream among texts.
TextParts == [b \in AllParts |-> IF b.type = "text" THEN <<b>> ELSE <<>>]
Values == {b \in AllParts : b.type = "text"}
TextVals == [b \in Values |-> <<b.val>>]
MessageTexts ==
  [m \in SentMessages |-> FlatMap(TextVals, FlatMap(TextParts, m.content))]
UpOnly == [v \in SomeTexts |-> IF OfUpstream(v) THEN <<v>> ELSE <<>>]

LEMMA OneOf ==
  ASSUME NEW A, NEW a \in A
  PROVE  <<a>> \in Seq(A)
OBVIOUS

LEMMA TextMaps ==
  /\ TextParts \in Maps(AllParts, Values) /\ TextVals \in Maps(Values, SomeTexts)
  /\ UpOnly \in Maps(SomeTexts, SomeTexts)
  /\ UpBlock \in Maps(AllParts, SomeTexts)
<1>1. TextParts \in [AllParts -> Seq(Values)]
  <2>1. ASSUME NEW b \in AllParts PROVE TextParts[b] \in Seq(Values)
    <3>1. CASE b.type = "text"
      BY <3>1, OneOf DEF Values, TextParts
    <3>2. CASE b.type # "text"
      BY <3>2 DEF TextParts
    <3> QED BY <3>1, <3>2
  <2>2. TextParts = [b \in AllParts |-> TextParts[b]]
    BY DEF TextParts
  <2> QED BY <2>1, <2>2
<1>2. TextVals \in [Values -> Seq(SomeTexts)]
  <2>1. ASSUME NEW b \in Values PROVE TextVals[b] \in Seq(SomeTexts)
    <3>1. b.val \in SomeTexts
      BY DEF Values, AllParts, SentParts, Errors, Texts, Images, SomeTexts
    <3>2. TextVals[b] = <<b.val>>
      BY DEF TextVals
    <3> QED BY <3>1, <3>2, OneOf
  <2>2. TextVals = [b \in Values |-> TextVals[b]]
    BY DEF TextVals
  <2> QED BY <2>1, <2>2
<1>3. UpOnly \in [SomeTexts -> Seq(SomeTexts)]
  <2>1. ASSUME NEW v \in SomeTexts PROVE UpOnly[v] \in Seq(SomeTexts)
    <3> DEFINE S == SomeTexts
    <3>1. UpOnly[v] = IF OfUpstream(v) THEN <<v>> ELSE <<>>
      BY DEF UpOnly
    <3>2. v \in S
      OBVIOUS
    <3> HIDE DEF S
    <3>3. <<v>> \in Seq(S) /\ <<>> \in Seq(S)
      BY <3>2
    <3> QED BY <3>1, <3>3 DEF S
  <2>2. UpOnly = [v \in SomeTexts |-> UpOnly[v]]
    BY DEF UpOnly
  <2> QED BY <2>1, <2>2
<1> QED BY <1>1, <1>2, <1>3, UpTextType DEF Maps

\* One part, and all of a message's.
LEMMA UpTextIs ==
  ASSUME NEW m \in SentMessages
  PROVE  /\ UpText[m] = FlatMap(UpOnly, MessageTexts[m])
         /\ MessageTexts[m] \in Seq(SomeTexts)
<1> DEFINE c == m.content
           x == FlatMap(TextParts, c)
           V == [b \in Values |-> FlatMap(UpOnly, TextVals[b])]
<1>1. c \in Seq(AllParts)
  BY UpTextType
<1>2. /\ TextParts \in [AllParts -> Seq(Values)] /\ TextVals \in [Values -> Seq(SomeTexts)]
      /\ UpOnly \in [SomeTexts -> Seq(SomeTexts)]
  BY TextMaps DEF Maps
<1>3. MessageTexts[m] = FlatMap(TextVals, x)
  BY DEF MessageTexts
<1> HIDE DEF c, x
<1>4. x \in Seq(Values)
  BY <1>1, <1>2, FlatMapType DEF x
<1>5. FlatMap(TextVals, x) \in Seq(SomeTexts)
  BY <1>2, <1>4, FlatMapType
<1>6. V \in [Values -> Seq(SomeTexts)] /\ \A b \in Values : V[b] = UpBlock[b]
  <2>1. ASSUME NEW b \in Values
        PROVE  FlatMap(UpOnly, TextVals[b]) = UpBlock[b] /\ UpBlock[b] \in Seq(SomeTexts)
    <3> DEFINE v == b.val
    <3>1. v \in SomeTexts /\ b \in AllParts /\ b.type = "text"
      BY DEF Values, AllParts, SentParts, Errors, Texts, Images, SomeTexts
    <3>2. TextVals[b] = <<v>> /\ UpBlock[b] = IF OfUpstream(v) THEN <<v>> ELSE <<>>
      BY <3>1 DEF TextVals, UpBlock
    <3> HIDE DEF v
    <3>3. FlatMap(UpOnly, <<v>>) = UpOnly[v]
      BY <1>2, <3>1, FlatMapOne
    <3>4. UpOnly[v] = IF OfUpstream(v) THEN <<v>> ELSE <<>>
      BY <3>1 DEF UpOnly
    <3>5. UpBlock[b] \in Seq(SomeTexts)
      BY <3>1, UpTextType
    <3> QED BY <3>2, <3>3, <3>4, <3>5
  <2> QED BY <2>1
<1> HIDE DEF V
<1>7. FlatMap(UpOnly, FlatMap(TextVals, x)) = FlatMap(V, x)
  <2>1. V \in Maps(Values, SomeTexts) /\ x \in Lists(Values)
    BY <1>4, <1>6 DEF Maps, Lists
  <2>2. \A b \in Values : V[b] = FlatMap(UpOnly, TextVals[b])
    BY DEF V
  <2> QED BY <2>1, <2>2, TextMaps, FlatMapTwice
<1>8. FlatMap(V, FlatMap(TextParts, c)) = FlatMap(UpBlock, c)
  <2>1. \A b \in AllParts : UpBlock[b] = FlatMap(V, TextParts[b])
    <3> TAKE b \in AllParts
    <3>1. CASE b.type = "text"
      BY <3>1, <1>6, FlatMapOne DEF Values, TextParts
    <3>2. CASE b.type # "text"
      BY <3>2, FlatMapNone DEF TextParts, UpBlock
    <3> QED BY <3>1, <3>2
  <2>2. V \in Maps(Values, SomeTexts) /\ c \in Lists(AllParts)
    BY <1>1, <1>6 DEF Maps, Lists
  <2> QED BY <2>1, <2>2, TextMaps, FlatMapTwice
<1>9. UpText[m] = FlatMap(UpBlock, c)
  BY DEF UpText, c
<1> QED BY <1>3, <1>5, <1>7, <1>8, <1>9 DEF x

\* The texts of a request, as the property reads them.
LEMMA TextsRead ==
  ASSUME NEW ms \in Seq(SentMessages)
  PROVE  Each(LAMBDA v : IF OfUpstream(v) THEN <<v>> ELSE <<>>,
              Each(LAMBDA m : Each(LAMBDA b : <<b.val>>, OfType("text", m.content)), ms))
           = FlatMap(UpText, ms)
<1> DEFINE vs == FlatMap(MessageTexts, ms)
           Read(c) == Each(LAMBDA b : <<b.val>>, OfType("text", c))
<1>1. \A i \in DOMAIN ms : ms[i] \in SentMessages
  OBVIOUS
<1>2. ASSUME NEW m \in SentMessages
      PROVE  Read(m.content) = MessageTexts[m]
  <2> DEFINE c == m.content
             x == FlatMap(TextParts, c)
  <2>1. c \in Seq(AllParts)
    BY <1>2, UpTextType
  <2>2. TextParts \in [AllParts -> Seq(Values)]
    BY TextMaps DEF Maps
  <2>3. MessageTexts[m] = FlatMap(TextVals, x)
    BY <1>2 DEF MessageTexts
  <2> HIDE DEF c
  <2>4. OfType("text", c) = x
    <3>1. \A i \in DOMAIN c : c[i] \in AllParts
      BY <2>1
    <3>2. [i \in DOMAIN c |-> IF c[i].type = "text" THEN <<c[i]>> ELSE <<>>] = [i \in DOMAIN c |-> TextParts[c[i]]]
      BY <3>1 DEF TextParts
    <3> QED BY <3>2 DEF OfType, Each, FlatMap
  <2> HIDE DEF x
  <2>5. x \in Seq(Values)
    BY <2>1, <2>2, FlatMapType DEF x
  <2>6. Each(LAMBDA b : <<b.val>>, x) = FlatMap(TextVals, x)
    <3>1. \A i \in DOMAIN x : x[i] \in Values
      BY <2>5
    <3>2. [i \in DOMAIN x |-> <<x[i].val>>] = [i \in DOMAIN x |-> TextVals[x[i]]]
      BY <3>1 DEF TextVals
    <3> QED BY <3>2 DEF Each, FlatMap
  <2> QED BY <2>3, <2>4, <2>6 DEF c
<1>3. Each(LAMBDA m : Read(m.content), ms) = vs
  BY <1>1, <1>2 DEF Each, FlatMap
<1>4. MessageTexts \in [SentMessages -> Seq(SomeTexts)]
  BY UpTextIs DEF MessageTexts
<1>5. vs \in Seq(SomeTexts)
  BY <1>4, FlatMapType
<1> HIDE DEF vs
<1>6. Each(LAMBDA v : IF OfUpstream(v) THEN <<v>> ELSE <<>>, vs) = FlatMap(UpOnly, vs)
  <2>1. \A i \in DOMAIN vs : vs[i] \in SomeTexts
    BY <1>5
  <2>2. [i \in DOMAIN vs |-> IF OfUpstream(vs[i]) THEN <<vs[i]>> ELSE <<>>] = [i \in DOMAIN vs |-> UpOnly[vs[i]]]
    BY <2>1 DEF UpOnly
  <2> QED BY <2>2 DEF Each, FlatMap
<1>7. FlatMap(UpOnly, FlatMap(MessageTexts, ms)) = FlatMap(UpText, ms)
  <2>1. /\ MessageTexts \in Maps(SentMessages, SomeTexts) /\ UpText \in Maps(SentMessages, SomeTexts)
        /\ ms \in Lists(SentMessages)
    BY <1>4, UpTextType DEF Maps, Lists
  <2>2. \A m \in SentMessages : UpText[m] = FlatMap(UpOnly, MessageTexts[m])
    BY UpTextIs
  <2> QED BY <2>1, <2>2, TextMaps, FlatMapTwice
<1> QED BY <1>3, <1>6, <1>7 DEF vs

\* The answers among the turns, and what each tells.
Firsts == [m : Upstream, searched : BOOLEAN]
FirstOf ==
  [s \in Turns |-> IF s.choices = <<>> THEN <<>> ELSE <<[m |-> Head(s.choices), searched |-> s.searched]>>]
FirstText(p) == [a \in Firsts |-> TextOf(a.m, IF a.searched /\ p = "openai" THEN <<Footer>> ELSE <<>>)]
FirstCalls == [a \in Firsts |-> FlatMap(ReparsedCalls, a.m.tool_calls)]

LEMMA FirstIs ==
  ASSUME NEW s \in Turns, s.choices # <<>>, NEW p
  PROVE  LET a == [m |-> Head(s.choices), searched |-> s.searched]
         IN  /\ a \in Firsts /\ FirstOf[s] = <<a>>
             /\ SaidText(p)[s] = FirstText(p)[a] /\ SaidCalls[s] = FirstCalls[a]
<1> DEFINE a == [m |-> Head(s.choices), searched |-> s.searched]
<1>1. Head(s.choices) \in Upstream /\ s.searched \in BOOLEAN
  BY TurnHead DEF Turns
<1>2. a \in Firsts /\ a.m = Head(s.choices) /\ a.searched = s.searched
  BY <1>1 DEF Firsts
<1>3. FirstOf[s] = <<a>>
  BY DEF FirstOf
<1> HIDE DEF a
<1>4. SaidText(p)[s] = FirstText(p)[a] /\ SaidCalls[s] = FirstCalls[a]
  BY <1>2 DEF SaidText, SaidCalls, FirstText, FirstCalls
<1> QED BY <1>2, <1>3, <1>4 DEF a

LEMMA FirstTypes ==
  ASSUME NEW p
  PROVE  /\ FirstOf \in Maps(Turns, Firsts)
         /\ FirstText(p) \in Maps(Firsts, SomeTexts) /\ FirstCalls \in Maps(Firsts, CallRecords)
<1>1. ASSUME NEW s \in Turns PROVE FirstOf[s] \in Seq(Firsts)
  <2>1. CASE s.choices = <<>>
    BY <2>1 DEF FirstOf
  <2>2. CASE s.choices # <<>>
    BY <2>2, FirstIs, OneOf
  <2> QED BY <2>1, <2>2
<1>2. ASSUME NEW a \in Firsts
      PROVE  FirstText(p)[a] \in Seq(SomeTexts) /\ FirstCalls[a] \in Seq(CallRecords)
  <2> DEFINE m == a.m
             c == <<m>>
             s == [choices |-> c, searched |-> a.searched]
  <2>1. m \in Upstream /\ a.searched \in BOOLEAN
    BY DEF Firsts
  <2> HIDE DEF m
  <2>2. c \in Seq(Upstream) /\ c # <<>> /\ Head(c) = m
    BY <2>1, OneOf
  <2> HIDE DEF c
  <2>3. s \in Turns /\ s.choices = c /\ s.searched = a.searched
    BY <2>1, <2>2 DEF Turns
  <2> HIDE DEF s
  <2>4. [m |-> Head(s.choices), searched |-> s.searched] = a
    BY <2>2, <2>3 DEF Firsts, m
  <2>5. SaidText(p)[s] = FirstText(p)[a] /\ SaidCalls[s] = FirstCalls[a]
    BY <2>2, <2>3, <2>4, FirstIs
  <2>6. SaidText(p)[s] \in Seq(SomeTexts) /\ SaidCalls[s] \in Seq(CallRecords)
    BY <2>3, SaidTypes
  <2> QED BY <2>5, <2>6
<1>3. /\ FirstOf = [s \in Turns |-> FirstOf[s]]
      /\ FirstText(p) = [a \in Firsts |-> FirstText(p)[a]] /\ FirstCalls = [a \in Firsts |-> FirstCalls[a]]
  BY DEF FirstOf, FirstText, FirstCalls
<1> QED BY <1>1, <1>2, <1>3 DEF Maps

LEMMA AnswersRead ==
  ASSUME NEW p, NEW d \in Seq(Turns)
  PROVE  LET answers == Each(LAMBDA s : IF s.choices = <<>> THEN <<>>
                                        ELSE <<[m |-> Head(s.choices), searched |-> s.searched]>>, d)
             Text(a) == a.m.content \o (IF a.searched /\ p = "openai" THEN <<Footer>> ELSE <<>>)
         IN  /\ Each(LAMBDA a : IF Text(a) = <<>> THEN <<>> ELSE <<Text(a)>>, answers)
                  = FlatMap(SaidText(p), d)
             /\ Each(LAMBDA a : [k \in DOMAIN a.m.tool_calls |->
                                   [a.m.tool_calls[k] EXCEPT !.args = Reparsed[@]]], answers)
                  = FlatMap(SaidCalls, d)
<1> DEFINE Text(a) == a.m.content \o (IF a.searched /\ p = "openai" THEN <<Footer>> ELSE <<>>)
           CallsRead(a) == [k \in DOMAIN a.m.tool_calls |-> [a.m.tool_calls[k] EXCEPT !.args = Reparsed[@]]]
           F == FirstOf
           x == FlatMap(F, d)
<1>1. /\ FirstOf \in [Turns -> Seq(Firsts)] /\ FirstText(p) \in [Firsts -> Seq(SomeTexts)]
      /\ FirstCalls \in [Firsts -> Seq(CallRecords)]
  BY FirstTypes DEF Maps
<1>2. Each(LAMBDA s : IF s.choices = <<>> THEN <<>>
                      ELSE <<[m |-> Head(s.choices), searched |-> s.searched]>>, d) = x
  <2>1. \A i \in DOMAIN d : d[i] \in Turns
    OBVIOUS
  <2>2. [i \in DOMAIN d |-> IF d[i].choices = <<>> THEN <<>>
                            ELSE <<[m |-> Head(d[i].choices), searched |-> d[i].searched]>>]
          = [i \in DOMAIN d |-> FirstOf[d[i]]]
    BY <2>1 DEF FirstOf
  <2> QED BY <2>2 DEF Each, FlatMap
<1>3. x \in Seq(Firsts)
  BY <1>1, FlatMapType
<1> HIDE DEF x
<1>4. \A i \in DOMAIN x : x[i] \in Firsts
  BY <1>3
<1>5. Each(LAMBDA a : IF Text(a) = <<>> THEN <<>> ELSE <<Text(a)>>, x) = FlatMap(FirstText(p), x)
  BY <1>4 DEF FirstText, TextOf, Each, FlatMap
<1>6. Each(LAMBDA a : CallsRead(a), x) = FlatMap(FirstCalls, x)
  <2>1. ASSUME NEW a \in Firsts PROVE FirstCalls[a] = CallsRead(a)
    <3> DEFINE s == a.m.tool_calls
    <3>1. s \in Seq(CallRecords)
      BY AnswerParts DEF Firsts
    <3>2. FirstCalls[a] = FlatMap(ReparsedCalls, s)
      BY DEF FirstCalls
    <3>3. CallsRead(a) = [i \in DOMAIN s |-> [s[i] EXCEPT !.args = Reparsed[@]]]
      OBVIOUS
    <3> HIDE DEF s, CallsRead
    <3> QED BY <3>1, <3>2, <3>3, DecodedCalls
  <2> HIDE DEF CallsRead
  <2>2. [i \in DOMAIN x |-> CallsRead(x[i])] = [i \in DOMAIN x |-> FirstCalls[x[i]]]
    BY <1>4, <2>1
  <2> QED BY <2>2 DEF Each, FlatMap
<1>7. FlatMap(FirstText(p), FlatMap(FirstOf, d)) = FlatMap(SaidText(p), d)
      /\ FlatMap(FirstCalls, FlatMap(FirstOf, d)) = FlatMap(SaidCalls, d)
  <2>1. ASSUME NEW s \in Turns
        PROVE  SaidText(p)[s] = FlatMap(FirstText(p), FirstOf[s]) /\ SaidCalls[s] = FlatMap(FirstCalls, FirstOf[s])
    <3>1. CASE s.choices = <<>>
      BY <3>1, FlatMapNone DEF FirstOf, SaidText, SaidCalls
    <3>2. CASE s.choices # <<>>
      <4> DEFINE a == [m |-> Head(s.choices), searched |-> s.searched]
      <4>1. /\ a \in Firsts /\ FirstOf[s] = <<a>>
            /\ SaidText(p)[s] = FirstText(p)[a] /\ SaidCalls[s] = FirstCalls[a]
        BY <3>2, FirstIs
      <4> HIDE DEF a
      <4>2. FlatMap(FirstText(p), <<a>>) = FirstText(p)[a]
        BY <1>1, <4>1, FlatMapOne
      <4>3. FlatMap(FirstCalls, <<a>>) = FirstCalls[a]
        BY <1>1, <4>1, FlatMapOne
      <4> QED BY <4>1, <4>2, <4>3
    <3> QED BY <3>1, <3>2
  <2>2. d \in Lists(Turns)
    BY DEF Lists
  <2>3. SaidText(p) \in Maps(Turns, SomeTexts) /\ SaidCalls \in Maps(Turns, CallRecords)
    BY SaidTypes DEF Maps
  <2>4. \A s \in Turns : SaidText(p)[s] = FlatMap(FirstText(p), FirstOf[s])
    BY <2>1
  <2>5. \A s \in Turns : SaidCalls[s] = FlatMap(FirstCalls, FirstOf[s])
    BY <2>1
  <2>6. FlatMap(FirstText(p), FlatMap(FirstOf, d)) = FlatMap(SaidText(p), d)
    BY <2>2, <2>3, <2>4, FirstTypes, FlatMapTwice
  <2>7. FlatMap(FirstCalls, FlatMap(FirstOf, d)) = FlatMap(SaidCalls, d)
    BY <2>2, <2>3, <2>5, FirstTypes, FlatMapTwice
  <2> QED BY <2>6, <2>7
<1> QED BY <1>2, <1>5, <1>6, <1>7 DEF x

LEMMA AsItReadsIs ==
  ASSUME NEW p, NEW d \in Seq(Turns), NEW ms \in Seq(SentMessages), AsItSaid(ms, p, d)
  PROVE  AsItReads(ms, p, d)
<1>1. Each(LAMBDA m : m.tool_calls, ms) = FlatMap(CallsIn, ms)
  BY InferIs
<1> QED BY <1>1, TextsRead, AnswersRead DEF AsItReads, AsItSaid

LEMMA ForwardComesBack ==
  ASSUME TypeOK, CameBack, Forward
  PROVE  WhatWasSaidComesBack'
<1>1. AsItSaid(sent'.messages, protocol, said) /\ sent'.messages \in Seq(SentMessages)
  BY ForwardSaysBack
<1>2. said \in Seq(Turns) /\ protocol' = protocol /\ said' = said
  BY TypeOKIs DEF Forward
<1>3. AsItReads(sent'.messages, protocol, said)
  BY <1>1, <1>2, AsItReadsIs
<1>4. AsItReads(sent'.messages, protocol', said')
  BY <1>2, <1>3
<1> QED BY <1>4 DEF AsItReads, WhatWasSaidComesBack, Each, OfType, OfUpstream

LEMMA ComesBackStays ==
  ASSUME WhatWasSaidComesBack, UNCHANGED <<phase, sent, protocol, said>>
  PROVE  WhatWasSaidComesBack'
<1>1. IsSent' <=> IsSent
  BY DEF IsSent
<1>2. CASE IsSent
  <2>1. AsItReads(sent.messages, protocol, said)
    BY <1>2 DEF WhatWasSaidComesBack, AsItReads
  <2>2. AsItReads(sent'.messages, protocol', said')
    BY <2>1
  <2> QED BY <2>2 DEF AsItReads, WhatWasSaidComesBack, Each, OfType, OfUpstream
<1>3. CASE ~IsSent
  BY <1>1, <1>3 DEF WhatWasSaidComesBack
<1> QED BY <1>2, <1>3

\* WhatWasSaidComesBack: however long the conversation, every request brings back
\* to the upstream what it has said so far: the texts in their order, with the
\* sources where the client's protocol has no other place for them, and the
\* calls with their ids, names and arguments.  The decoders and encoders of both
\* protocols are inverse to each other as far as that goes.
THEOREM AnswersComeBack == Spec => []WhatWasSaidComesBack
<1>1. Init => CameBack /\ WhatWasSaidComesBack
  <2> SUFFICES ASSUME Init PROVE CameBack /\ WhatWasSaidComesBack
    OBVIOUS
  <2>1. history = <<>> /\ said = <<>> /\ phase = "client"
    BY DEF Init
  <2>2. /\ FlatMap(Through(protocol), <<>>) = <<>> /\ FlatMap(UpText, <<>>) = <<>>
        /\ FlatMap(CallsIn, <<>>) = <<>> /\ FlatMap(SaidText(protocol), <<>>) = <<>>
        /\ FlatMap(SaidCalls, <<>>) = <<>>
    BY FlatMapNone
  <2>3. MuteSystems(<<>>)
    BY DEF MuteSystems
  <2> QED BY <2>1, <2>2, <2>3 DEF CameBack, Back, WhatWasSaidComesBack, IsSent
<1>2. TypeOK /\ CameBack /\ WhatWasSaidComesBack /\ [Next]_vars
        => CameBack' /\ WhatWasSaidComesBack'
  <2> SUFFICES ASSUME TypeOK, CameBack, WhatWasSaidComesBack, [Next]_vars
               PROVE  CameBack' /\ WhatWasSaidComesBack'
    OBVIOUS
  <2>1. CameBack'
    BY NextCameBack
  <2>2. CASE Forward
    BY <2>1, <2>2, ForwardComesBack
  <2>3. CASE UNCHANGED vars \/ Done
    BY <2>3, <2>1, ComesBackStays DEF vars, Done
  <2>4. CASE UserSpeaks \/ CallsReturn \/ Answer
    <3>1. phase' # "upstream"
      BY <2>4 DEF UserSpeaks, CallsReturn, Answer
    <3> QED BY <2>1, <3>1 DEF WhatWasSaidComesBack, IsSent
  <2> QED BY <2>2, <2>3, <2>4 DEF Next
<1> QED BY <1>1, <1>2, ConversationTypes, PTL DEF Spec

===============================================================================
