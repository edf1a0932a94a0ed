---------------------------- MODULE Routing_proofs ----------------------------
(***************************************************************************)
(* Proofs about Routing, for every configuration: its types, and the two   *)
(* facts the handlers take for granted of a configuration that was         *)
(* accepted.  Both rest on what Validate's loops have established of the   *)
(* entries they are done with (DistinctIDs, BestOf).                       *)
(***************************************************************************)
EXTENDS Routing, TLAPS, FiniteSetTheorems

\* The first n tokens have ids of their own.
DistinctIDs(n) == \A i, j \in 1..n : tokens[i].id = tokens[j].id => i = j

IDsInv ==
  /\ phase = "tokens" =>
       DistinctIDs(checked) /\ seenTokenIDs = {tokens[i].id : i \in 1..checked}
  /\ phase \in {"providers", "keys", "serving"} => DistinctIDs(Len(tokens))

\* bestPerModel is right about the first n providers: the best of those that
\* serve m, and better than all the others.
BestOf(m, n) ==
  /\ bestPerModel[m] = 0 => Serving(m, n) = {}
  /\ bestPerModel[m] # 0 =>
       /\ bestPerModel[m] \in Serving(m, n)
       /\ \A p \in Serving(m, n) \ {bestPerModel[m]} :
            providers[p].priority < providers[bestPerModel[m]].priority

BestInv ==
  \A m \in Models :
    /\ phase = "tokens" => bestPerModel[m] = 0
    /\ phase = "providers" => BestOf(m, checked)
    /\ phase \in {"keys", "serving"} => BestOf(m, Len(providers))

\* A stored key is the key of the token it stands for.
KeysInv ==
  /\ phase \notin {"keys", "serving"} => \A k \in Keys : byKey[k] = Nobody
  /\ \A k \in Keys : byKey[k] # Nobody =>
       \E i \in 1..Len(tokens) : tokens[i].key = k /\ tokens[i].id = byKey[k]

RouteInv ==
  /\ phase # "serving" => \A m \in Models : route[m] = <<>>
  /\ FirstChoiceIsClear

IInv == TypeOK /\ IDsInv /\ BestInv /\ KeysInv /\ RouteInv

(* ------------------------------- types --------------------------------- *)

LEMMA InitType == Init => TypeOK
BY RoutingAssumption DEF Init, TypeOK, Phases

\* The providers stay what they are, and with them those of a model.
LEMMA ProvidersStay ==
  ASSUME [Next]_vars
  PROVE  /\ tokens' = tokens /\ providers' = providers
         /\ \A m, n : Serving(m, n)' = Serving(m, n)
         /\ \A m : Candidates(m)' = Candidates(m)
<1>1. tokens' = tokens /\ providers' = providers
  BY DEF Next, FieldRefused, DuplicateID, AcceptToken, TokensChecked, AmbiguousPriority,
         AcceptProvider, ProvidersChecked, StoreToken, Serve, SelectAll, Idle, Refuse, vars
<1> QED
  BY <1>1 DEF Candidates, Serving

\* Every other action leaves the routes alone.
LEMMA RouteStays ==
  ASSUME TypeOK, [Next]_vars, ~(\E m \in Models : SelectAll(m))
  PROVE  route' = route
  BY DEF Next, FieldRefused, DuplicateID, AcceptToken, TokensChecked, AmbiguousPriority,
         AcceptProvider, ProvidersChecked, StoreToken, Serve, Idle, Refuse, vars

\* The providers of a model are finitely many indices of the list.
LEMMA CandidatesFinite ==
  ASSUME TypeOK, NEW m
  PROVE  /\ Candidates(m) \subseteq 1..Len(providers)
         /\ Cardinality(Candidates(m)) \in Nat
<1>1. Candidates(m) \subseteq 1..Len(providers) /\ Len(providers) \in Nat
  BY DEF TypeOK, Candidates, Serving
<1>2. IsFiniteSet(1..Len(providers))
  BY <1>1, FS_Interval
<1>3. IsFiniteSet(Candidates(m))
  BY <1>1, <1>2, FS_Subset
<1> QED
  BY <1>1, <1>3, FS_CardinalityType

\* A token of the list, and its fields.
LEMMA TokenInHand ==
  ASSUME TypeOK, phase \in {"tokens", "keys"}, checked < Len(tokens)
  PROVE  /\ checked + 1 \in 1..Len(tokens)
         /\ tokens[checked + 1].id \in TokenIDs
         /\ tokens[checked + 1].key \in Keys
<1>1. checked + 1 \in 1..Len(tokens)
  BY DEF TypeOK
<1>2. tokens[checked + 1] \in Token
  BY <1>1 DEF TypeOK
<1> QED
  BY <1>1, <1>2 DEF Token

LEMMA StepType == TypeOK /\ [Next]_vars => TypeOK'
<1> SUFFICES ASSUME TypeOK, [Next]_vars PROVE TypeOK'
  OBVIOUS
<1>1. tokens' \in Seq(Token) /\ providers' \in Seq(Provider)
  BY ProvidersStay DEF TypeOK
<1>2. route' \in [Models -> Seq(1..Len(providers))]
  <2>1. CASE \E m \in Models : SelectAll(m)
    <3> PICK m \in Models : SelectAll(m)
      BY <2>1
    <3>1. PICK order \in [1..Cardinality(Candidates(m)) -> Candidates(m)] :
            route' = [route EXCEPT ![m] = order]
      BY DEF SelectAll
    <3>2. order \in Seq(1..Len(providers))
      BY <3>1, CandidatesFinite
    <3> QED
      BY <3>1, <3>2 DEF TypeOK
  <2>2. CASE ~(\E m \in Models : SelectAll(m))
    BY <2>2, RouteStays DEF TypeOK
  <2> QED
    BY <2>1, <2>2
<1>3. /\ phase' \in Phases
      /\ checked' \in Nat
      /\ phase' \in {"tokens", "keys", "serving"} => checked' <= Len(tokens)
      /\ phase' = "providers" => checked' <= Len(providers)
      /\ seenTokenIDs' \subseteq TokenIDs
      /\ bestPerModel' \in [Models -> 0..Len(providers)]
      /\ byKey' \in [Keys -> TokenIDs \cup {Nobody}]
  <2> USE DEF TypeOK, Phases, Refuse
  <2>1. CASE FieldRefused \/ DuplicateID \/ AmbiguousPriority \/ Idle \/ UNCHANGED vars
    BY <2>1 DEF FieldRefused, DuplicateID, AmbiguousPriority, Idle, vars
  <2>2. CASE AcceptToken
    BY <2>2, TokenInHand DEF AcceptToken
  <2>3. CASE TokensChecked
    BY <2>3 DEF TokensChecked
  <2>4. CASE AcceptProvider
    BY <2>4 DEF AcceptProvider
  <2>5. CASE ProvidersChecked
    BY <2>5 DEF ProvidersChecked
  <2>6. CASE StoreToken
    BY <2>6, TokenInHand DEF StoreToken
  <2>7. CASE Serve \/ \E m \in Models : SelectAll(m)
    BY <2>7 DEF Serve, SelectAll
  <2> QED
    BY <2>1, <2>2, <2>3, <2>4, <2>5, <2>6, <2>7 DEF Next
<1>4. Len(tokens') = Len(tokens) /\ Len(providers') = Len(providers)
  BY ProvidersStay
<1> QED
  BY <1>1, <1>2, <1>3, <1>4 DEF TypeOK

\* Every variable keeps its type, and the loops of main stay in their lists.
THEOREM RoutingTypes == Spec => []TypeOK
BY InitType, StepType, PTL DEF Spec

(* -------------------- what Validate has established --------------------- *)

LEMMA InitIInv == Init => IInv
<1> SUFFICES ASSUME Init PROVE IInv
  OBVIOUS
<1>1. TypeOK
  BY InitType
<1>2. IDsInv
  BY DEF Init, IDsInv, DistinctIDs
<1>3. BestInv /\ KeysInv
  BY DEF Init, BestInv, KeysInv
<1>4. RouteInv
  BY DEF Init, RouteInv, FirstChoiceIsClear
<1> QED
  BY <1>1, <1>2, <1>3, <1>4 DEF IInv

\* The ids stay apart: AcceptToken extends the tokens looked at by one whose id
\* was not among them.
LEMMA StepIDs == TypeOK /\ IDsInv /\ [Next]_vars => IDsInv'
<1> SUFFICES ASSUME TypeOK, IDsInv, [Next]_vars PROVE IDsInv'
  OBVIOUS
<1>0. tokens' = tokens
  BY ProvidersStay
<1>1. CASE AcceptToken
  <2>1. /\ checked + 1 \in 1..Len(tokens) /\ checked \in Nat
        /\ phase' = "tokens" /\ checked' = checked + 1
    BY <1>1, TokenInHand DEF AcceptToken, TypeOK
  <2>2. \A i \in 1..checked : tokens[i].id # tokens[checked + 1].id
    BY <1>1 DEF AcceptToken, IDsInv
  <2>3. DistinctIDs(checked)
    BY <1>1 DEF AcceptToken, IDsInv
  <2>4. 1..(checked + 1) = (1..checked) \cup {checked + 1}
    BY <2>1
  <2>5. DistinctIDs(checked + 1)
    BY <2>2, <2>3, <2>4 DEF DistinctIDs
  <2>6. seenTokenIDs' = {tokens[i].id : i \in 1..(checked + 1)}
    BY <1>1, <2>4 DEF AcceptToken, IDsInv
  <2> QED
    BY <1>0, <2>1, <2>5, <2>6 DEF IDsInv, DistinctIDs
<1>2. CASE TokensChecked
  BY <1>0, <1>2 DEF TokensChecked, Refuse, IDsInv, DistinctIDs
<1>3. CASE FieldRefused \/ DuplicateID \/ AmbiguousPriority
  BY <1>0, <1>3 DEF FieldRefused, DuplicateID, AmbiguousPriority, Refuse, IDsInv
<1>4. CASE AcceptProvider \/ ProvidersChecked \/ StoreToken \/ Serve
  BY <1>0, <1>4 DEF AcceptProvider, ProvidersChecked, StoreToken, Serve, Refuse, IDsInv, DistinctIDs
<1>5. CASE (\E m \in Models : SelectAll(m)) \/ Idle \/ UNCHANGED vars
  BY <1>0, <1>5 DEF SelectAll, Idle, vars, IDsInv, DistinctIDs
<1> QED
  BY <1>1, <1>2, <1>3, <1>4, <1>5 DEF Next

\* One turn of the loop over the providers: the new provider is not as good as
\* the best one so far, or better than it and so than all before.
LEMMA BestOfNext ==
  ASSUME TypeOK, AcceptProvider, NEW m \in Models, BestOf(m, checked)
  PROVE  BestOf(m, checked)'
<1> DEFINE next == checked + 1
           best == bestPerModel[m]
<1>1. /\ next \in 1..Len(providers) /\ checked \in Nat
      /\ best \in 0..Len(providers)
      /\ \A p \in 1..Len(providers) : providers[p].priority \in Int
  <2>1. \A p \in 1..Len(providers) : providers[p] \in Provider
    BY DEF TypeOK
  <2>2. \A p \in 1..Len(providers) : providers[p].priority \in Int
    BY <2>1, RoutingAssumption DEF Provider
  <2> QED
    BY <2>2 DEF TypeOK, AcceptProvider
<1>2. /\ bestPerModel'[m] = (IF Better(next, m) THEN next ELSE best)
      /\ providers' = providers /\ ~Ambiguous(next)
  BY DEF TypeOK, AcceptProvider
<1>3. 1..next = (1..checked) \cup {next}
  BY <1>1
<1>4. Serving(m, next) = IF m \in providers[next].models
                         THEN Serving(m, checked) \cup {next} ELSE Serving(m, checked)
  BY <1>3 DEF Serving
<1>5. Serving(m, checked)' = Serving(m, next)
  BY <1>2 DEF Serving, AcceptProvider
<1> HIDE DEF next, best
<1>6. CASE Better(next, m)
  <2>1. \A p \in Serving(m, checked) : providers[p].priority < providers[next].priority
    <3> SUFFICES ASSUME NEW p \in Serving(m, checked)
                 PROVE  providers[p].priority < providers[next].priority
      OBVIOUS
    <3>1. p \in 1..Len(providers) /\ best # 0
      BY <1>1 DEF Serving, BestOf, best, next
    <3>2. providers[next].priority > providers[best].priority
      BY <1>6, <3>1 DEF Better, best
    <3>3. p = best \/ providers[p].priority < providers[best].priority
      BY <3>1 DEF BestOf, best
    <3> QED
      BY <1>1, <3>1, <3>2, <3>3
  <2>2. Serving(m, next) = Serving(m, checked) \cup {next} /\ next \in Serving(m, next)
    BY <1>4, <1>6 DEF Better
  <2>3. bestPerModel'[m] = next /\ next # 0
    BY <1>1, <1>2, <1>6
  <2> QED
    BY <1>2, <1>5, <2>1, <2>2, <2>3 DEF BestOf
<1>7. CASE ~Better(next, m)
  <2>1. bestPerModel'[m] = best
    BY <1>2, <1>7
  <2>2. CASE m \notin providers[next].models
    BY <1>2, <1>4, <1>5, <2>1, <2>2 DEF BestOf, best
  <2>3. CASE m \in providers[next].models
    <3>1. best # 0 /\ ~(providers[next].priority > providers[best].priority)
      BY <1>7, <2>3 DEF Better, best
    <3>2. providers[best].priority # providers[next].priority
      BY <1>2, <2>3, <3>1 DEF Ambiguous, best
    <3>3. providers[next].priority < providers[best].priority
      BY <1>1, <3>1, <3>2
    <3>4. best \in Serving(m, next) /\ Serving(m, next) = Serving(m, checked) \cup {next}
      BY <1>4, <2>3, <3>1 DEF BestOf, best
    <3> QED
      BY <1>2, <1>5, <2>1, <3>1, <3>3, <3>4 DEF BestOf, best
  <2> QED
    BY <2>2, <2>3
<1> QED
  BY <1>6, <1>7

LEMMA StepBest == TypeOK /\ BestInv /\ [Next]_vars => BestInv'
<1> SUFFICES ASSUME TypeOK, BestInv, [Next]_vars, NEW m \in Models
             PROVE  /\ phase' = "tokens" => bestPerModel'[m] = 0
                    /\ phase' = "providers" => BestOf(m, checked)'
                    /\ phase' \in {"keys", "serving"} => BestOf(m, Len(providers))'
  BY DEF BestInv
<1>0. providers' = providers /\ \A n : Serving(m, n)' = Serving(m, n)
  BY ProvidersStay
<1>1. CASE AcceptProvider
  BY <1>1, BestOfNext DEF AcceptProvider, BestInv
<1>2. CASE TokensChecked
  <2>1. Serving(m, 0) = {}
    BY DEF Serving
  <2> QED
    BY <1>0, <1>2, <2>1 DEF TokensChecked, Refuse, BestInv, BestOf
<1>3. CASE ProvidersChecked
  BY <1>0, <1>3 DEF ProvidersChecked, Refuse, BestInv, BestOf
<1>4. CASE AcceptToken \/ StoreToken \/ Serve \/ \E n \in Models : SelectAll(n)
  BY <1>0, <1>4 DEF AcceptToken, StoreToken, Serve, SelectAll, BestInv, BestOf
<1>5. CASE FieldRefused \/ DuplicateID \/ AmbiguousPriority \/ Idle \/ UNCHANGED vars
  BY <1>0, <1>5 DEF FieldRefused, DuplicateID, AmbiguousPriority, Refuse, Idle, vars, BestInv, BestOf
<1> QED
  BY <1>1, <1>2, <1>3, <1>4, <1>5 DEF Next

(* ---------------------- what the handlers rely on ----------------------- *)

\* StoreToken writes a token under its own key.
LEMMA StepKeys == TypeOK /\ KeysInv /\ [Next]_vars => KeysInv'
<1> SUFFICES ASSUME TypeOK, KeysInv, [Next]_vars PROVE KeysInv'
  OBVIOUS
<1>0. tokens' = tokens
  BY ProvidersStay
<1>1. CASE StoreToken
  <2>1. /\ checked + 1 \in 1..Len(tokens) /\ phase' = "keys"
        /\ tokens[checked + 1].key \in Keys
    BY <1>1, TokenInHand DEF StoreToken
  <2>2. \A k \in Keys : byKey'[k] = IF k = tokens[checked + 1].key
                                     THEN tokens[checked + 1].id ELSE byKey[k]
    BY <1>1 DEF StoreToken, TypeOK
  <2>3. ASSUME NEW k \in Keys, byKey'[k] # Nobody
        PROVE  \E i \in 1..Len(tokens) : tokens[i].key = k /\ tokens[i].id = byKey'[k]
    BY <2>1, <2>2, <2>3 DEF KeysInv
  <2> QED
    BY <1>0, <1>1, <2>1, <2>3 DEF KeysInv
<1>2. CASE ~StoreToken
  <2>1. byKey' = byKey /\ (phase' \notin {"keys", "serving"} => phase \notin {"keys", "serving"})
    BY <1>2 DEF Next, FieldRefused, DuplicateID, AcceptToken, TokensChecked, AmbiguousPriority,
         AcceptProvider, ProvidersChecked, Serve, SelectAll, Idle, Refuse, vars
  <2> QED
    BY <1>0, <2>1 DEF KeysInv
<1> QED
  BY <1>1, <1>2

\* What SelectAll sorts begins with the best provider, and nothing ties with it.
LEMMA FirstIsBest ==
  ASSUME TypeOK, BestInv, NEW m \in Models, SelectAll(m)
  PROVE  /\ \A n \in Models \ {m} : route'[n] = route[n]
         /\ \A p \in Candidates(m) \ {route'[m][1]} :
              providers[p].priority < providers[route'[m][1]].priority
<1>1. PICK order \in [1..Cardinality(Candidates(m)) -> Candidates(m)] :
        /\ {order[i] : i \in DOMAIN order} = Candidates(m)
        /\ \A i, j \in DOMAIN order :
             i < j => providers[order[i]].priority >= providers[order[j]].priority
        /\ route' = [route EXCEPT ![m] = order]
  BY DEF SelectAll
<1>2. route'[m] = order /\ \A n \in Models \ {m} : route'[n] = route[n]
  BY <1>1 DEF TypeOK
<1>3. /\ bestPerModel[m] \in Candidates(m)
      /\ \A p \in Candidates(m) \ {bestPerModel[m]} :
           providers[p].priority < providers[bestPerModel[m]].priority
  BY DEF BestInv, BestOf, Candidates, SelectAll
<1>4. /\ Cardinality(Candidates(m)) \in Nat
      /\ \A p \in Candidates(m) : providers[p].priority \in Int
  <2>1. \A p \in 1..Len(providers) : providers[p] \in Provider
    BY DEF TypeOK
  <2>2. \A p \in Candidates(m) : providers[p] \in Provider
    BY <2>1, CandidatesFinite
  <2> QED
    BY <2>2, CandidatesFinite, RoutingAssumption DEF Provider
<1>5. PICK i \in 1..Cardinality(Candidates(m)) : order[i] = bestPerModel[m]
  BY <1>1, <1>3
<1>6. 1 \in DOMAIN order /\ order[1] \in Candidates(m)
  BY <1>1, <1>4, <1>5
<1>7. order[1] = bestPerModel[m]
  <2> SUFFICES ASSUME order[1] # bestPerModel[m] PROVE FALSE
    OBVIOUS
  <2>1. 1 < i
    BY <1>4, <1>5
  <2>2. providers[order[1]].priority >= providers[bestPerModel[m]].priority
    BY <1>1, <1>5, <1>6, <2>1
  <2>3. providers[order[1]].priority < providers[bestPerModel[m]].priority
    BY <1>3, <1>6
  <2> QED
    BY <1>3, <1>4, <1>6, <2>2, <2>3
<1> QED
  BY <1>2, <1>3, <1>7

LEMMA StepRoute == TypeOK /\ BestInv /\ RouteInv /\ [Next]_vars => RouteInv'
<1> SUFFICES ASSUME TypeOK, BestInv, RouteInv, [Next]_vars PROVE RouteInv'
  OBVIOUS
<1>0. providers' = providers /\ \A m : Candidates(m)' = Candidates(m)
  BY ProvidersStay
<1>1. CASE \E m \in Models : SelectAll(m)
  <2> PICK m \in Models : SelectAll(m)
    BY <1>1
  <2>1. FirstChoiceIsClear'
    BY <1>0, FirstIsBest DEF FirstChoiceIsClear, RouteInv
  <2>2. phase' = "serving"
    BY DEF SelectAll
  <2> QED
    BY <2>1, <2>2 DEF RouteInv
<1>2. CASE ~(\E m \in Models : SelectAll(m))
  <2>1. route' = route
    BY <1>2, RouteStays
  <2>2. phase' # "serving" => phase # "serving"
    BY <1>2 DEF Next, FieldRefused, DuplicateID, AcceptToken, TokensChecked, AmbiguousPriority,
         AcceptProvider, ProvidersChecked, StoreToken, Serve, Idle, Refuse, vars
  <2> QED
    BY <1>0, <2>1, <2>2 DEF RouteInv, FirstChoiceIsClear
<1> QED
  BY <1>1, <1>2

LEMMA IInvHolds == Spec => []IInv
<1>1. IInv /\ [Next]_vars => IInv'
  BY StepType, StepIDs, StepBest, StepKeys, StepRoute DEF IInv
<1> QED
  BY <1>1, InitIInv, PTL DEF Spec

\* Whatever the providers and their order in the file, a configuration that is
\* served leaves no doubt about the provider tried first.
THEOREM FirstChoice == Spec => []FirstChoiceIsClear
<1>1. IInv => FirstChoiceIsClear
  BY DEF IInv, RouteInv
<1> QED
  BY <1>1, IInvHolds, PTL

\* Two keys stand for two token ids.
THEOREM KeysApart == Spec => []KeysAreApart
<1>1. IInv => KeysAreApart
  <2> SUFFICES ASSUME IInv, NEW k \in Keys, NEW l \in Keys,
                      k # l, byKey[k] # Nobody, byKey[k] = byKey[l]
               PROVE  FALSE
    BY DEF KeysAreApart
  <2>1. PICK i \in 1..Len(tokens) : tokens[i].key = k /\ tokens[i].id = byKey[k]
    BY DEF IInv, KeysInv
  <2>2. PICK j \in 1..Len(tokens) : tokens[j].key = l /\ tokens[j].id = byKey[l]
    BY DEF IInv, KeysInv
  <2>3. DistinctIDs(Len(tokens))
    BY DEF IInv, KeysInv, IDsInv
  <2> QED
    BY <2>1, <2>2, <2>3 DEF DistinctIDs
<1> QED
  BY <1>1, IInvHolds, PTL

=============================================================================
