------------------------------- MODULE Routing -------------------------------
(***************************************************************************)
(* From the configuration to the provider of a request: Validate goes over *)
(* the tokens and the providers, NewTokenService stores the keys, and      *)
(* SelectAll orders the providers of a model for the loop of the handler.  *)
(* What the rest of the gateway takes for granted of a configuration is    *)
(* what these loops, together, let through.                                *)
(*                                                                         *)
(* Of an entry only the fields are kept that are compared with those of    *)
(* other entries; that one of the others is empty or malformed may be      *)
(* found at every entry (FieldRefused).                                    *)
(***************************************************************************)
EXTENDS Integers, Sequences, FiniteSets

CONSTANTS
  Models,       \* client model names
  TokenIDs,     \* ids of tokens
  Keys,         \* keys of tokens
  Priorities,   \* the priorities a provider may have
  TokenLists,   \* the lists of tokens a configuration may have
  ProviderLists, \* the lists of providers a configuration may have
  Nobody        \* the id of a key that is not configured

Token == [id : TokenIDs, key : Keys]

\* config.Providers[i]: the models it serves, and its priority.
Provider == [models : SUBSET Models, priority : Priorities]

ASSUME RoutingAssumption ==
  /\ Priorities \subseteq Int
  /\ TokenLists \subseteq Seq(Token)
  /\ ProviderLists \subseteq Seq(Provider)
  /\ Nobody \notin TokenIDs

VARIABLES
  tokens,        \* Config.Tokens
  providers,     \* Config.Providers
  phase,         \* how far main is
  checked,       \* entries of the list in hand that are done
  seenTokenIDs,  \* Validate's set of ids
  bestPerModel,  \* Validate's best provider of each model, 0 for none
  byKey,         \* TokenService.byKey
  route          \* what SelectAll returned last for each model

vars == <<tokens, providers, phase, checked, seenTokenIDs, bestPerModel, byKey, route>>

Phases == {"tokens", "providers", "keys", "serving", "refused"}

\* The providers whose model map has an entry for m, among the first n.
Serving(m, n) == {p \in 1..n : m \in providers[p].models}

Candidates(m) == Serving(m, Len(providers))

(* ------------------------------ actions -------------------------------- *)

Init ==
  /\ tokens \in TokenLists
  /\ providers \in ProviderLists
  /\ phase = "tokens"
  /\ checked = 0
  /\ seenTokenIDs = {}
  /\ bestPerModel = [m \in Models |-> 0]
  /\ byKey = [k \in Keys |-> Nobody]
  /\ route = [m \in Models |-> <<>>]

Refuse ==
  /\ phase' = "refused"
  /\ UNCHANGED <<tokens, providers, checked, seenTokenIDs, bestPerModel, byKey, route>>

\* A check of one field alone fails, of the server, of a token or of a provider.
FieldRefused ==
  /\ phase \in {"tokens", "providers"}
  /\ Refuse

\* "duplicate id"
DuplicateID ==
  /\ phase = "tokens" /\ checked < Len(tokens)
  /\ tokens[checked + 1].id \in seenTokenIDs
  /\ Refuse

\* Mutant of AcceptToken: only the token before is looked at.
AcceptTokenForgetful ==
  /\ phase = "tokens" /\ checked < Len(tokens)
  /\ tokens[checked + 1].id \notin seenTokenIDs
  /\ seenTokenIDs' = {tokens[checked + 1].id}
  /\ checked' = checked + 1
  /\ UNCHANGED <<tokens, providers, phase, bestPerModel, byKey, route>>

AcceptToken ==
  /\ phase = "tokens" /\ checked < Len(tokens)
  /\ tokens[checked + 1].id \notin seenTokenIDs
  /\ seenTokenIDs' = seenTokenIDs \cup {tokens[checked + 1].id}
  /\ checked' = checked + 1
  /\ UNCHANGED <<tokens, providers, phase, bestPerModel, byKey, route>>

\* All tokens are accepted, and there is at least one.
TokensChecked ==
  /\ phase = "tokens" /\ checked = Len(tokens)
  /\ IF tokens = <<>>
     THEN Refuse
     ELSE /\ phase' = "providers"
          /\ checked' = 0
          /\ UNCHANGED <<tokens, providers, seenTokenIDs, bestPerModel, byKey, route>>

\* Provider p has a model whose best provider so far has the same priority.
Ambiguous(p) ==
  \E m \in providers[p].models :
    bestPerModel[m] # 0 /\ providers[bestPerModel[m]].priority = providers[p].priority

\* "ambiguous priority", or "models must not be empty".
AmbiguousPriority ==
  /\ phase = "providers" /\ checked < Len(providers)
  /\ Ambiguous(checked + 1) \/ providers[checked + 1].models = {}
  /\ Refuse

\* Mutant of Better: the best provider is the last one.
BetterLast(p, m) == m \in providers[p].models

\* Provider p becomes the best one of model m.
Better(p, m) ==
  /\ m \in providers[p].models
  /\ bestPerModel[m] = 0 \/ providers[p].priority > providers[bestPerModel[m]].priority

\* One turn of the loop over the providers.  A provider has a model once, so
\* that the order in which its map is gone through does not matter.
AcceptProvider ==
  /\ phase = "providers" /\ checked < Len(providers)
  /\ providers[checked + 1].models # {}
  /\ ~Ambiguous(checked + 1)
  /\ bestPerModel' = [m \in Models |->
       IF Better(checked + 1, m) THEN checked + 1 ELSE bestPerModel[m]]
  /\ checked' = checked + 1
  /\ UNCHANGED <<tokens, providers, phase, seenTokenIDs, byKey, route>>

\* Mutant of ProvidersChecked: the next loop starts where this one ended.
ProvidersCheckedNoReset ==
  /\ phase = "providers" /\ checked = Len(providers)
  /\ phase' = "keys"
  /\ UNCHANGED <<tokens, providers, checked, seenTokenIDs, bestPerModel, byKey, route>>

ProvidersChecked ==
  /\ phase = "providers" /\ checked = Len(providers)
  /\ IF providers = <<>>
     THEN Refuse
     ELSE /\ phase' = "keys"
          /\ checked' = 0
          /\ UNCHANGED <<tokens, providers, seenTokenIDs, bestPerModel, byKey, route>>

\* One turn of NewTokenService's loop: a later token takes over its key.
StoreToken ==
  /\ phase = "keys" /\ checked < Len(tokens)
  /\ byKey' = [byKey EXCEPT ![tokens[checked + 1].key] = tokens[checked + 1].id]
  /\ checked' = checked + 1
  /\ UNCHANGED <<tokens, providers, phase, seenTokenIDs, bestPerModel, route>>

\* main serves.
Serve ==
  /\ phase = "keys" /\ checked = Len(tokens)
  /\ phase' = "serving"
  /\ UNCHANGED <<tokens, providers, checked, seenTokenIDs, bestPerModel, byKey, route>>

\* The providers of m, those of higher priority first; sort.Slice is not
\* stable and leaves the order of equal priorities open.
SelectAll(m) ==
  /\ phase = "serving"
  /\ Candidates(m) # {}
  /\ \E order \in [1..Cardinality(Candidates(m)) -> Candidates(m)] :
       /\ {order[i] : i \in DOMAIN order} = Candidates(m)
       /\ \A i, j \in DOMAIN order :
            i < j => providers[order[i]].priority >= providers[order[j]].priority
       /\ route' = [route EXCEPT ![m] = order]
  /\ UNCHANGED <<tokens, providers, phase, checked, seenTokenIDs, bestPerModel, byKey>>

\* log.Fatalf, or a gateway whose clients ask for nothing it serves.
Idle ==
  /\ phase \in {"refused", "serving"}
  /\ UNCHANGED vars

Next ==
  \/ FieldRefused
  \/ DuplicateID \/ AcceptToken \/ TokensChecked
  \/ AmbiguousPriority \/ AcceptProvider \/ ProvidersChecked
  \/ StoreToken \/ Serve
  \/ \E m \in Models : SelectAll(m)
  \/ Idle

Spec == Init /\ [][Next]_vars

(* ----------------------------- properties ------------------------------ *)

\* The types; a counter stays within its list.
TypeOK ==
  /\ tokens \in Seq(Token)
  /\ providers \in Seq(Provider)
  /\ phase \in Phases
  /\ checked \in Nat
  /\ phase \in {"tokens", "keys", "serving"} => checked <= Len(tokens)
  /\ phase = "providers" => checked <= Len(providers)
  /\ seenTokenIDs \subseteq TokenIDs
  /\ bestPerModel \in [Models -> 0..Len(providers)]
  /\ byKey \in [Keys -> TokenIDs \cup {Nobody}]
  /\ route \in [Models -> Seq(1..Len(providers))]

\* The provider a request is tried with first is better than every other one
\* that serves its model: the ties Validate lets through (validate.go:89) never
\* leave the first choice to the unstable sort of SelectAll (provider.go:46).
FirstChoiceIsClear ==
  \A m \in Models : route[m] # <<>> =>
    \A p \in Candidates(m) \ {route[m][1]} :
      providers[p].priority < providers[route[m][1]].priority

\* Two keys never stand for one token id, by which usage is recorded and read:
\* Validate's look at the ids (validate.go:36) is what keeps apart the clients
\* of NewTokenService (auth.go:28).
KeysAreApart ==
  \A k, l \in Keys : k # l /\ byKey[k] # Nobody => byKey[k] # byKey[l]

(* ------------------- what the repository says of it --------------------- *)

\* A configuration in which a "client model ... is served by providers ... at
\* the same priority" is refused (config/validate.go:92, and
\* TestValidate_PriorityAmbiguity).
TiesAreRefused ==
  phase = "serving" =>
    \A m \in Models : \A p, q \in Candidates(m) :
      p # q => providers[p].priority # providers[q].priority

=============================================================================
