--------------------------- MODULE Overrides_proofs ---------------------------
(***************************************************************************)
(* Proofs about Overrides, for every request and every list of providers:  *)
(* its types, and what each provider is sent.  The invariant follows the   *)
(* override of a provider from layer to layer (ResolvedInv), and says why  *)
(* no turn of the handler's loop sees what an earlier one did: the         *)
(* Reasoning that originalParams refers to is never written (OriginalInv). *)
(***************************************************************************)
EXTENDS Overrides, TLAPS

AllFields == Fields \cup {ReasoningEffort}

\* The first n layers of p leave r.
After(p, n, r) == \A f \in AllFields : LastSet(p, n, f, r[f], Unset)

ResolvedInv ==
  /\ phase = "resolving" =>
       /\ After(at, layer, resolved[at])
       /\ \A p \in 1..(at - 1) : After(p, Len(Layers(p)), resolved[p])
       /\ \A p \in (at + 1)..Len(providers) : resolved[p] = Nothing
  /\ phase # "resolving" =>
       \A p \in 1..Len(providers) : After(p, Len(Layers(p)), resolved[p])

\* What the params q say of reasoning, with the objects h; nil says nothing.
ModeOf(q, h) == IF q.reasoning = 0 THEN "" ELSE h[q.reasoning].mode
EffortOf(q, h) == IF q.reasoning = 0 THEN Unset ELSE h[q.reasoning].effort

\* The params q are those of the client.
HoldsAsked(q, h) ==
  /\ q.plain = client.plain
  /\ ModeOf(q, h) = ClientMode
  /\ EffortOf(q, h) = Asked(ReasoningEffort)

OriginalInv ==
  IF phase = "resolving" THEN HoldsAsked(params, heap) ELSE HoldsAsked(original, heap)

\* What an upstream is to be told of field f under the override o.
Wanted(f, o) == IF o[f] # Unset THEN o[f] ELSE Asked(f)

ParamsInv ==
  phase = "overridden" =>
    /\ \A f \in Fields : params.plain[f] = Wanted(f, resolved[at])
    /\ ModeOf(params, heap) = ClientMode
    /\ EffortOf(params, heap) = Wanted(ReasoningEffort, resolved[at])

SentInv ==
  \A p \in 1..Len(providers) : sent[p] # NotSent =>
    /\ phase # "resolving"
    /\ \A f \in AllFields :
         sent[p][f] = IF f = ReasoningEffort
                      THEN BuildOpenAIReasoning(p, ClientMode, Wanted(f, resolved[p]))
                      ELSE Wanted(f, resolved[p])

IInv == TypeOK /\ ResolvedInv /\ OriginalInv /\ ParamsInv /\ SentInv

(* ------------------------- the operators' types -------------------------- *)

\* A request decodes to params that say what its client asked for.
LEMMA DecodedSaysAsked ==
  ASSUME client \in Client
  PROVE  /\ DecodedReasoning(client) \in Seq(Reasoning)
         /\ DecodedParams(client) \in Params(Len(DecodedReasoning(client)))
         /\ HoldsAsked(DecodedParams(client), DecodedReasoning(client))
<1> DEFINE said == [mode |-> ClientMode, effort |-> Asked(ReasoningEffort)]
<1>1. /\ client.plain \in [Fields -> Values \cup {Unset}]
      /\ client.effort \in Values \cup {Unset} /\ client.openai \in BOOLEAN
      /\ client.thinking # Unset => client.thinking \in Modes
  BY DEF Client
<1>2. said \in Reasoning
  BY <1>1 DEF Reasoning, Modes, ClientMode, Asked
<1>3. \/ DecodedReasoning(client) = <<said>>
      \/ DecodedReasoning(client) = <<>> /\ ClientMode = "" /\ Asked(ReasoningEffort) = Unset
  BY <1>1 DEF DecodedReasoning, ClientMode, Asked
<1>6. said.mode = ClientMode /\ said.effort = Asked(ReasoningEffort)
  OBVIOUS
<1> HIDE DEF said
<1>4. CASE DecodedReasoning(client) = <<said>>
  <2>1. <<said>> \in Seq(Reasoning) /\ Len(<<said>>) = 1 /\ <<said>>[1] = said
    BY <1>2
  <2>2. DecodedParams(client) = [plain |-> client.plain, reasoning |-> 1]
    BY <2>1, <1>4 DEF DecodedParams
  <2>3. DecodedParams(client) \in Params(1)
    BY <1>1, <2>2 DEF Params
  <2>4. /\ ModeOf(DecodedParams(client), <<said>>) = said.mode
        /\ EffortOf(DecodedParams(client), <<said>>) = said.effort
    BY <2>1, <2>2 DEF ModeOf, EffortOf
  <2> QED
    BY <1>4, <1>6, <2>1, <2>2, <2>3, <2>4 DEF HoldsAsked
<1>5. CASE DecodedReasoning(client) = <<>> /\ ClientMode = "" /\ Asked(ReasoningEffort) = Unset
  <2>1. DecodedParams(client) = [plain |-> client.plain, reasoning |-> 0]
    BY <1>5 DEF DecodedParams
  <2>2. DecodedParams(client) \in Params(0)
    BY <1>1, <2>1 DEF Params
  <2>3. <<>> \in Seq(Reasoning) /\ Len(<<>>) = 0
    OBVIOUS
  <2>4. HoldsAsked(DecodedParams(client), <<>>)
    <3>1. DecodedParams(client).reasoning = 0 /\ DecodedParams(client).plain = client.plain
      BY <2>1
    <3> QED
      BY <1>5, <3>1 DEF HoldsAsked, ModeOf, EffortOf
  <2> QED
    BY <1>5, <2>2, <2>3, <2>4
<1> QED
  BY <1>3, <1>4, <1>5

\* A clone says the same, and refers to an object that nothing else refers to.
LEMMA CloneSaysTheSame ==
  ASSUME heap \in Seq(Reasoning), NEW q \in Params(Len(heap))
  PROVE  /\ Clone(q).heap \in Seq(Reasoning)
         /\ Len(Clone(q).heap) >= Len(heap)
         /\ Clone(q).params \in Params(Len(Clone(q).heap))
         /\ Clone(q).params.plain = q.plain
         /\ ModeOf(Clone(q).params, Clone(q).heap) = ModeOf(q, heap)
         /\ EffortOf(Clone(q).params, Clone(q).heap) = EffortOf(q, heap)
         /\ \A i \in 1..Len(heap) : Clone(q).heap[i] = heap[i]
         /\ Clone(q).params.reasoning \notin 1..Len(heap)
<1>1. /\ q.plain \in [Fields -> Values \cup {Unset}] /\ q.reasoning \in 0..Len(heap)
      /\ q = [plain |-> q.plain, reasoning |-> q.reasoning] /\ Len(heap) \in Nat
  BY DEF Params
<1>2. CASE q.reasoning = 0
  BY <1>1, <1>2 DEF Clone
<1>3. CASE q.reasoning # 0
  <2> DEFINE h == Append(heap, heap[q.reasoning])
  <2>1. Clone(q) = [params |-> [plain |-> q.plain, reasoning |-> Len(heap) + 1], heap |-> h]
    BY <1>1, <1>3 DEF Clone
  <2>2. heap[q.reasoning] \in Reasoning
    BY <1>1, <1>3
  <2>3. /\ h \in Seq(Reasoning) /\ Len(h) = Len(heap) + 1
        /\ h[Len(heap) + 1] = heap[q.reasoning] /\ \A i \in 1..Len(heap) : h[i] = heap[i]
    BY <2>2
  <2> HIDE DEF h
  <2>4. Clone(q).params \in Params(Len(h))
    BY <1>1, <2>1, <2>3 DEF Params
  <2>5. /\ ModeOf(Clone(q).params, h) = ModeOf(q, heap)
        /\ EffortOf(Clone(q).params, h) = EffortOf(q, heap)
    <3>1. Clone(q).params.reasoning = Len(heap) + 1
      BY <2>1
    <3>2. Clone(q).params.reasoning # 0
      BY <1>1, <3>1
    <3> QED
      BY <1>3, <2>3, <3>1, <3>2 DEF ModeOf, EffortOf
  <2> QED
    BY <1>1, <2>1, <2>3, <2>4, <2>5
<1> QED
  BY <1>2, <1>3

LEMMA MergeType ==
  ASSUME NEW D \in {Fields, AllFields}, NEW dst \in [D -> Values \cup {Unset}],
         NEW src \in OverrideParams
  PROVE  /\ Merge(dst, src) \in [D -> Values \cup {Unset}]
         /\ \A f \in D : Merge(dst, src)[f] = IF src[f] # Unset THEN src[f] ELSE dst[f]
  BY DEF Merge, OverrideParams, AllFields

\* applyOverride keeps the mode, and writes to no object but that of q.
LEMMA OverriddenIs ==
  ASSUME NEW h \in Seq(Reasoning), NEW q \in Params(Len(h)), NEW o \in OverrideParams
  PROVE  LET r == Overridden(q, h, o)
         IN  /\ r.heap \in Seq(Reasoning)
             /\ Len(r.heap) >= Len(h)
             /\ r.params \in Params(Len(r.heap))
             /\ r.params.plain = Merge(q.plain, o)
             /\ ModeOf(r.params, r.heap) = ModeOf(q, h)
             /\ EffortOf(r.params, r.heap) =
                  IF o[ReasoningEffort] # Unset THEN o[ReasoningEffort] ELSE EffortOf(q, h)
             /\ \A i \in 1..Len(h) : i # q.reasoning => r.heap[i] = h[i]
<1> DEFINE plain == Merge(q.plain, o)
           effort == o[ReasoningEffort]
<1>1. /\ q.plain \in [Fields -> Values \cup {Unset}] /\ q.reasoning \in 0..Len(h)
      /\ q = [plain |-> q.plain, reasoning |-> q.reasoning] /\ Len(h) \in Nat
      /\ effort \in Values \cup {Unset}
  BY DEF Params, OverrideParams
<1>2. plain \in [Fields -> Values \cup {Unset}]
  BY <1>1, MergeType
<1> HIDE DEF plain
<1>3. CASE effort = Unset
  <2>1. Overridden(q, h, o) = [params |-> [plain |-> plain, reasoning |-> q.reasoning], heap |-> h]
    BY <1>1, <1>3 DEF Overridden, plain
  <2>3. Overridden(q, h, o).params \in Params(Len(h))
    BY <1>1, <1>2, <2>1 DEF Params
  <2>4. /\ ModeOf(Overridden(q, h, o).params, h) = ModeOf(q, h)
        /\ EffortOf(Overridden(q, h, o).params, h) = EffortOf(q, h)
    <3>1. Overridden(q, h, o).params.reasoning = q.reasoning
      BY <2>1
    <3> QED
      BY <3>1 DEF ModeOf, EffortOf
  <2> QED
    BY <1>1, <1>3, <2>1, <2>3, <2>4 DEF plain
<1>4. CASE effort # Unset /\ q.reasoning = 0
  <2> DEFINE new == [mode |-> "", effort |-> effort]
             g == Append(h, new)
  <2>1. Overridden(q, h, o) = [params |-> [plain |-> plain, reasoning |-> Len(h) + 1], heap |-> g]
    BY <1>1, <1>4 DEF Overridden, plain
  <2>2. new \in Reasoning
    BY <1>1, <1>4 DEF Reasoning, Modes
  <2>3. new.mode = ModeOf(q, h) /\ new.effort = effort
    BY <1>4 DEF ModeOf
  <2> HIDE DEF new
  <2>4. /\ g \in Seq(Reasoning) /\ Len(g) = Len(h) + 1
        /\ g[Len(h) + 1] = new /\ \A i \in 1..Len(h) : g[i] = h[i]
    BY <2>2
  <2> HIDE DEF g
  <2>5. Overridden(q, h, o).params \in Params(Len(g))
    BY <1>1, <1>2, <2>1, <2>4 DEF Params
  <2>6. /\ ModeOf(Overridden(q, h, o).params, g) = new.mode
        /\ EffortOf(Overridden(q, h, o).params, g) = new.effort
    <3>1. Overridden(q, h, o).params.reasoning = Len(h) + 1
      BY <2>1
    <3>2. Overridden(q, h, o).params.reasoning # 0
      BY <1>1, <3>1
    <3> QED
      BY <2>4, <3>1, <3>2 DEF ModeOf, EffortOf
  <2> QED
    BY <1>1, <1>4, <2>1, <2>3, <2>4, <2>5, <2>6 DEF plain
<1>5. CASE effort # Unset /\ q.reasoning # 0
  <2> DEFINE new == [mode |-> h[q.reasoning].mode, effort |-> effort]
             g == [h EXCEPT ![q.reasoning] = new]
  <2>1. h[q.reasoning] \in Reasoning
    BY <1>1, <1>5
  <2>2. [h[q.reasoning] EXCEPT !.effort = effort] = new
    BY <2>1 DEF Reasoning
  <2>3. [h EXCEPT ![q.reasoning].effort = effort] = g
    BY <2>2
  <2>4. Overridden(q, h, o) = [params |-> [plain |-> plain, reasoning |-> q.reasoning], heap |-> g]
    BY <1>1, <1>5, <2>3 DEF Overridden, plain
  <2>5. new \in Reasoning /\ new.mode = ModeOf(q, h) /\ new.effort = effort
    BY <1>1, <1>5, <2>1 DEF Reasoning, ModeOf
  <2> HIDE DEF new
  <2>6. /\ g \in Seq(Reasoning) /\ Len(g) = Len(h) /\ g[q.reasoning] = new
        /\ \A i \in 1..Len(h) : i # q.reasoning => g[i] = h[i]
    BY <1>1, <1>5, <2>5
  <2> HIDE DEF g
  <2>7. Overridden(q, h, o).params \in Params(Len(g))
    BY <1>1, <1>2, <2>4, <2>6 DEF Params
  <2>8. /\ ModeOf(Overridden(q, h, o).params, g) = new.mode
        /\ EffortOf(Overridden(q, h, o).params, g) = new.effort
    <3>1. Overridden(q, h, o).params.reasoning = q.reasoning
      BY <2>4
    <3> QED
      BY <1>1, <1>5, <2>6, <3>1 DEF ModeOf, EffortOf
  <2> QED
    BY <1>1, <1>5, <2>4, <2>5, <2>6, <2>7, <2>8 DEF plain
<1> QED
  BY <1>3, <1>4, <1>5

\* The override of a provider is a list of rules, the first for every request.
LEMMA LayersType ==
  ASSUME providers \in Seq(Selection), NEW p \in 1..Len(providers)
  PROVE  /\ Layers(p) \in Seq(Rule)
         /\ Len(Layers(p)) \in Nat /\ Len(Layers(p)) >= 1
<1>1. providers[p] \in Selection
  OBVIOUS
<1>2. providers[p].defaults \in OverrideParams /\ providers[p].rules \in Seq(Rule)
  BY <1>1 DEF Selection
<1> DEFINE first == [model |-> Unset, stream |-> Unset, params |-> providers[p].defaults]
<1>3. first \in Rule
  BY <1>2 DEF Rule
<1>4. Layers(p) = <<first>> \o providers[p].rules
  BY DEF Layers
<1> HIDE DEF first
<1>5. <<first>> \in Seq(Rule) /\ Len(<<first>>) = 1
  BY <1>3
<1> QED
  BY <1>2, <1>4, <1>5

\* What BuildOpenAIReasoning gives is a value, or nothing.
LEMMA BuildType ==
  ASSUME providers \in Seq(Selection), NEW p \in 1..Len(providers),
         NEW mode, NEW effort \in Values \cup {Unset}
  PROVE  BuildOpenAIReasoning(p, mode, effort) \in Values \cup {Unset}
<1>1. providers[p] \in Selection
  OBVIOUS
<1>2. providers[p].effort_map \in [Values -> Values \cup {Unset}]
  BY <1>1 DEF Selection
<1>3. effort # Unset => Mapped(p, effort) \in Values
  BY <1>2, OverridesAssumption DEF Mapped
<1> QED
  BY <1>3, OverridesAssumption DEF BuildOpenAIReasoning

(* ------------------- which layer set a field last ------------------------ *)

LEMMA NothingSet ==
  ASSUME NEW p
  PROVE  After(p, 0, Nothing)
  BY DEF After, LastSet, Nothing, AllFields

LEMMA NextLayer ==
  ASSUME NEW p, NEW n \in Nat, NEW f, NEW v, NEW w, LastSet(p, n, f, v, Unset),
         w = IF Sets(p, n + 1, f) THEN Layers(p)[n + 1].params[f] ELSE v
  PROVE  LastSet(p, n + 1, f, w, Unset)
<1>1. CASE Sets(p, n + 1, f)
  BY <1>1 DEF LastSet
<1>2. CASE ~Sets(p, n + 1, f) /\ \E l \in 1..n :
             Sets(p, l, f) /\ (\A k \in (l + 1)..n : ~Sets(p, k, f)) /\ v = Layers(p)[l].params[f]
  <2>1. PICK l \in 1..n :
             Sets(p, l, f) /\ (\A k \in (l + 1)..n : ~Sets(p, k, f)) /\ v = Layers(p)[l].params[f]
    BY <1>2
  <2>2. \A k \in (l + 1)..(n + 1) : k \in (l + 1)..n \/ k = n + 1
    OBVIOUS
  <2>3. l \in 1..(n + 1)
    OBVIOUS
  <2> QED
    BY <1>2, <2>1, <2>2, <2>3 DEF LastSet
<1>3. CASE ~Sets(p, n + 1, f) /\ v = Unset /\ \A l \in 1..n : ~Sets(p, l, f)
  <2>1. \A l \in 1..(n + 1) : l \in 1..n \/ l = n + 1
    OBVIOUS
  <2> QED
    BY <1>3, <2>1 DEF LastSet
<1> QED
  BY <1>1, <1>2, <1>3 DEF LastSet

(* ------------------------------ the types -------------------------------- *)

LEMMA InitType == Init => TypeOK
<1> SUFFICES ASSUME Init PROVE TypeOK
  OBVIOUS
<1>1. client \in Client /\ providers \in Seq(Selection) /\ providers # <<>>
  BY OverridesAssumption DEF Init
<1>2. Len(providers) \in Nat /\ Len(providers) >= 1
  BY <1>1
<1>3. at \in 1..Len(providers) /\ layer \in 0..Len(Layers(at))
  BY <1>1, <1>2, LayersType DEF Init
<1>4. resolved \in [1..Len(providers) -> OverrideParams]
  BY DEF Init, Nothing, OverrideParams
<1>5. heap \in Seq(Reasoning) /\ params \in Params(Len(heap)) /\ original \in Params(Len(heap))
  BY <1>1, DecodedSaysAsked DEF Init
<1> QED
  BY <1>1, <1>3, <1>4, <1>5 DEF Init, TypeOK

LEMMA StepType == TypeOK /\ [Next]_vars => TypeOK'
<1> SUFFICES ASSUME TypeOK, [Next]_vars PROVE TypeOK'
  OBVIOUS
<1>0. /\ client \in Client /\ providers \in Seq(Selection)
      /\ at \in 1..Len(providers) /\ Len(providers) \in Nat
      /\ layer \in 0..(IF phase = "resolving" THEN Len(Layers(at)) ELSE 0)
      /\ resolved \in [1..Len(providers) -> OverrideParams]
      /\ heap \in Seq(Reasoning) /\ Len(heap) \in Nat
      /\ params \in Params(Len(heap)) /\ original \in Params(Len(heap))
      /\ sent \in [1..Len(providers) -> OverrideParams \cup {NotSent}]
      /\ phase \in {"resolving", "trying", "overridden", "waiting", "done"}
  BY DEF TypeOK
<1>a. \A p \in 1..Len(providers) :
        Layers(p) \in Seq(Rule) /\ Len(Layers(p)) \in Nat /\ Len(Layers(p)) >= 1
  BY <1>0, LayersType
<1>b. providers' = providers => \A p : Layers(p)' = Layers(p)
  BY DEF Layers
<1>1. CASE MergeLayer
  <2>1. Layers(at)[layer + 1].params \in OverrideParams
    <3>1. layer + 1 \in 1..Len(Layers(at))
      BY <1>0, <1>1, <1>a DEF MergeLayer
    <3>2. Layers(at)[layer + 1] \in Rule
      BY <1>0, <1>a, <3>1
    <3> QED
      BY <3>2 DEF Rule
  <2>2. Merge(resolved[at], Layers(at)[layer + 1].params) \in OverrideParams
    BY <1>0, <2>1, MergeType DEF OverrideParams, AllFields
  <2>3. resolved' \in [1..Len(providers) -> OverrideParams]
    BY <1>0, <1>1, <2>2 DEF MergeLayer
  <2>4. layer' \in 0..Len(Layers(at)) /\ Layers(at)' = Layers(at)
    BY <1>0, <1>1, <1>a, <1>b DEF MergeLayer
  <2> QED
    BY <1>0, <1>1, <2>3, <2>4, <1>b DEF MergeLayer, TypeOK
<1>2. CASE NextSelection
  <2>1. at' \in 1..Len(providers)
    BY <1>0, <1>2 DEF NextSelection
  <2>2. layer' \in 0..Len(Layers(at'))
    BY <1>2, <2>1, <1>a DEF NextSelection
  <2> QED
    BY <1>0, <1>2, <1>b, <2>1, <2>2 DEF NextSelection, TypeOK, Layers
<1>3. CASE KeepOriginal
  <2>1. /\ heap' \in Seq(Reasoning) /\ Len(heap') \in Nat /\ Len(heap') >= Len(heap)
        /\ original' \in Params(Len(heap'))
    BY <1>0, <1>3, CloneSaysTheSame DEF KeepOriginal
  <2>2. params' \in Params(Len(heap'))
    BY <1>0, <1>3, <2>1 DEF KeepOriginal, Params
  <2>3. at' \in 1..Len(providers) /\ layer' = 0
    BY <1>0, <1>3, <1>a DEF KeepOriginal
  <2> QED
    BY <1>0, <1>3, <2>1, <2>2, <2>3 DEF KeepOriginal, TypeOK, Layers
<1>4. CASE ApplyOverride
  <2> DEFINE copy == Clone(original)
  <2>1. /\ copy.heap \in Seq(Reasoning) /\ Len(copy.heap) \in Nat /\ Len(copy.heap) >= Len(heap)
        /\ copy.params \in Params(Len(copy.heap))
    BY <1>0, CloneSaysTheSame
  <2>2. resolved[at] \in OverrideParams
    BY <1>0
  <2>3. /\ heap' = Overridden(copy.params, copy.heap, resolved[at]).heap
        /\ params' = Overridden(copy.params, copy.heap, resolved[at]).params
    BY <1>4 DEF ApplyOverride
  <2> HIDE DEF copy
  <2>4. /\ heap' \in Seq(Reasoning) /\ Len(heap') \in Nat /\ Len(heap') >= Len(copy.heap)
        /\ params' \in Params(Len(heap'))
    BY <2>1, <2>2, <2>3, OverriddenIs
  <2>5. original' \in Params(Len(heap'))
    BY <1>0, <1>4, <2>1, <2>4 DEF ApplyOverride, Params
  <2> QED
    BY <1>0, <1>4, <1>b, <2>4, <2>5 DEF ApplyOverride, TypeOK
<1>5. CASE Send
  <2>1. params.plain \in [Fields -> Values \cup {Unset}] /\ params.reasoning \in 0..Len(heap)
    BY <1>0 DEF Params
  <2>2. params.reasoning # 0 => heap[params.reasoning] \in Reasoning
    BY <1>0, <2>1
  <2>3. params.reasoning # 0 => heap[params.reasoning].effort \in Values \cup {Unset}
    BY <2>2 DEF Reasoning
  <2>4. Encoded(at, params) \in OverrideParams
    BY <1>0, <2>1, <2>3, BuildType DEF Encoded, OverrideParams
  <2>5. sent' \in [1..Len(providers) -> OverrideParams \cup {NotSent}]
    BY <1>0, <1>5, <2>4 DEF Send
  <2> QED
    BY <1>0, <1>5, <1>b, <2>5 DEF Send, TypeOK
<1>6. CASE FallBack
  <2>1. at' \in 1..Len(providers)
    BY <1>0, <1>6 DEF FallBack
  <2> QED
    BY <1>0, <1>6, <1>a, <1>b, <2>1 DEF FallBack, TypeOK
<1>7. CASE Finish
  BY <1>0, <1>7, <1>b DEF Finish, TypeOK
<1>8. CASE Done \/ UNCHANGED vars
  BY <1>0, <1>8, <1>b DEF Done, vars, TypeOK
<1> QED
  BY <1>1, <1>2, <1>3, <1>4, <1>5, <1>6, <1>7, <1>8 DEF Next

(* --------------------------- the overrides ------------------------------- *)

LEMMA InitIInv == Init => IInv
<1> SUFFICES ASSUME Init PROVE IInv
  OBVIOUS
<1>1. TypeOK
  BY InitType
<1>2. ResolvedInv
  <2>1. \A p \in 1..Len(providers) : resolved[p] = Nothing
    BY DEF Init
  <2>2. at \in 1..Len(providers) /\ at = 1 /\ layer = 0 /\ phase = "resolving"
    BY <1>1 DEF Init, TypeOK
  <2>3. Len(providers) \in Nat
    BY <1>1 DEF TypeOK
  <2>4. After(at, layer, resolved[at])
    BY <2>1, <2>2, NothingSet
  <2> QED
    BY <2>1, <2>2, <2>3, <2>4 DEF ResolvedInv
<1>3. OriginalInv
  BY <1>1, DecodedSaysAsked DEF Init, TypeOK, OriginalInv
<1>4. ParamsInv /\ SentInv
  BY DEF Init, ParamsInv, SentInv
<1> QED
  BY <1>1, <1>2, <1>3, <1>4 DEF IInv

LEMMA StepResolved == IInv /\ [Next]_vars => ResolvedInv'
<1> SUFFICES ASSUME IInv, [Next]_vars PROVE ResolvedInv'
  OBVIOUS
<1>0. /\ TypeOK /\ ResolvedInv
      /\ at \in 1..Len(providers) /\ Len(providers) \in Nat
      /\ resolved \in [1..Len(providers) -> OverrideParams]
  BY DEF IInv, TypeOK
<1>a. providers' = providers /\ client' = client =>
        \A p, l, f : Layers(p)' = Layers(p) /\ Sets(p, l, f)' = Sets(p, l, f)
  BY DEF Layers, Sets, Matches
<1>b. ASSUME providers' = providers, client' = client, resolved' = resolved,
             NEW p, After(p, Len(Layers(p)), resolved[p])
      PROVE  After(p, Len(Layers(p)), resolved[p])'
  BY <1>a, <1>b DEF After, LastSet
<1>1. CASE MergeLayer
  <2> DEFINE n == layer + 1
             L == Layers(at)
  <2>1. /\ phase = "resolving" /\ layer \in Nat /\ n \in 1..Len(L) /\ n = layer + 1
        /\ L \in Seq(Rule)
    BY <1>0, <1>1, LayersType DEF MergeLayer, TypeOK
  <2>2. L[n].params \in OverrideParams
    <3>1. L[n] \in Rule
      BY <2>1
    <3> QED
      BY <3>1 DEF Rule
  <2>3. After(at, layer, resolved[at])
    BY <1>0, <2>1 DEF ResolvedInv
  <2>4. ASSUME NEW f \in AllFields
        PROVE  resolved'[at][f] = IF Sets(at, n, f) THEN L[n].params[f] ELSE resolved[at][f]
    <3>1. resolved[at] \in [AllFields -> Values \cup {Unset}]
      BY <1>0 DEF OverrideParams, AllFields
    <3>2. CASE Matches(L[n])
      <4>1. resolved'[at] = Merge(resolved[at], L[n].params)
        BY <1>0, <1>1, <3>2 DEF MergeLayer
      <4>2. Merge(resolved[at], L[n].params)[f] =
              IF L[n].params[f] # Unset THEN L[n].params[f] ELSE resolved[at][f]
        BY <2>2, <3>1, MergeType DEF AllFields
      <4> QED
        BY <3>2, <4>1, <4>2 DEF Sets
    <3>3. CASE ~Matches(L[n])
      BY <1>1, <3>3 DEF MergeLayer, Sets
    <3> QED
      BY <3>2, <3>3
  <2>5. After(at, n, resolved'[at])
    <3> SUFFICES ASSUME NEW f \in AllFields PROVE LastSet(at, n, f, resolved'[at][f], Unset)
      BY DEF After
    <3>1. LastSet(at, layer, f, resolved[at][f], Unset)
      BY <2>3 DEF After
    <3> QED
      BY <2>1, <2>4, <3>1, NextLayer
  <2>6. \A p \in 1..Len(providers) : p # at => resolved'[p] = resolved[p]
    BY <1>0, <1>1 DEF MergeLayer
  <2>7. /\ \A p \in 1..(at - 1) : After(p, Len(Layers(p)), resolved'[p])
        /\ \A p \in (at + 1)..Len(providers) : resolved'[p] = Nothing
    BY <1>0, <2>1, <2>6 DEF ResolvedInv
  <2>8. layer' = n /\ at' = at /\ phase' = phase /\ providers' = providers /\ client' = client
    BY <1>1 DEF MergeLayer
  <2> HIDE DEF n, L
  <2>9. After(at, layer, resolved[at])'
    BY <1>a, <2>5, <2>8 DEF After, LastSet
  <2>10. (\A p \in 1..(at - 1) : After(p, Len(Layers(p)), resolved[p]))'
    BY <1>a, <2>7, <2>8 DEF After, LastSet
  <2>11. (\A p \in (at + 1)..Len(providers) : resolved[p] = Nothing)'
    BY <2>7, <2>8
  <2> QED
    BY <2>1, <2>8, <2>9, <2>10, <2>11 DEF ResolvedInv
<1>2. CASE NextSelection
  <2>1. /\ phase = "resolving" /\ layer = Len(Layers(at)) /\ at < Len(providers)
        /\ at' = at + 1 /\ layer' = 0 /\ phase' = phase
        /\ resolved' = resolved /\ providers' = providers /\ client' = client
    BY <1>2 DEF NextSelection
  <2>2. \A p \in 1..at : After(p, Len(Layers(p)), resolved[p])
    BY <1>0, <2>1 DEF ResolvedInv
  <2>3. \A p \in (at + 1)..Len(providers) : resolved[p] = Nothing
    BY <1>0, <2>1 DEF ResolvedInv
  <2>4. After(at + 1, 0, resolved[at + 1])
    BY <1>0, <2>1, <2>3, NothingSet
  <2>5. \A p \in (at + 2)..Len(providers) : resolved[p] = Nothing
    BY <1>0, <2>3
  <2>6. at' - 1 = at /\ at' + 1 = at + 2
    BY <1>0, <2>1
  <2>7. After(at, layer, resolved[at])'
    BY <2>1, <2>4, <1>a DEF After, LastSet
  <2>8. (\A p \in 1..(at - 1) : After(p, Len(Layers(p)), resolved[p]))'
    <3>1. ASSUME NEW p \in 1..at PROVE After(p, Len(Layers(p)), resolved[p])'
      <4>1. After(p, Len(Layers(p)), resolved[p])
        BY <2>2
      <4> QED
        BY <2>1, <4>1, <1>a DEF After, LastSet
    <3> QED
      BY <2>6, <3>1
  <2>9. (\A p \in (at + 1)..Len(providers) : resolved[p] = Nothing)'
    BY <2>1, <2>5, <2>6
  <2>10. phase' = "resolving"
    BY <2>1
  <2> QED
    BY <2>7, <2>8, <2>9, <2>10 DEF ResolvedInv
<1>3. CASE KeepOriginal
  <2>1. \A p \in 1..Len(providers) : p \in 1..(at - 1) \/ p = at
    BY <1>0, <1>3 DEF KeepOriginal
  <2>2. \A p \in 1..Len(providers) : After(p, Len(Layers(p)), resolved[p])
    BY <1>0, <1>3, <2>1 DEF KeepOriginal, ResolvedInv
  <2>3. /\ phase' = "trying"
        /\ resolved' = resolved /\ providers' = providers /\ client' = client
    BY <1>3 DEF KeepOriginal
  <2>4. (\A p \in 1..Len(providers) : After(p, Len(Layers(p)), resolved[p]))'
    BY <1>b, <2>2, <2>3
  <2> QED
    BY <2>3, <2>4 DEF ResolvedInv
<1>4. CASE ApplyOverride \/ Send \/ FallBack \/ Finish
  <2>1. /\ phase # "resolving" /\ phase' # "resolving"
        /\ resolved' = resolved /\ providers' = providers /\ client' = client
    BY <1>4 DEF ApplyOverride, Send, FallBack, Finish
  <2>2. \A p \in 1..Len(providers) : After(p, Len(Layers(p)), resolved[p])
    BY <1>0, <2>1 DEF ResolvedInv
  <2>3. (\A p \in 1..Len(providers) : After(p, Len(Layers(p)), resolved[p]))'
    BY <1>b, <2>1, <2>2
  <2> QED
    BY <2>1, <2>3 DEF ResolvedInv
<1>5. CASE Done \/ UNCHANGED vars
  <2>1. /\ phase' = phase /\ at' = at /\ layer' = layer
        /\ resolved' = resolved /\ providers' = providers /\ client' = client
    BY <1>5 DEF Done, vars
  <2>2. CASE phase = "resolving"
    <3>1. After(at, layer, resolved[at])
      BY <1>0, <2>2 DEF ResolvedInv
    <3>2. After(at, layer, resolved[at])'
      BY <1>a, <2>1, <3>1 DEF After, LastSet
    <3>3. \A p \in 1..(at - 1) : After(p, Len(Layers(p)), resolved[p])
      BY <1>0, <2>2 DEF ResolvedInv
    <3>4. (\A p \in 1..(at - 1) : After(p, Len(Layers(p)), resolved[p]))'
      BY <1>b, <2>1, <3>3
    <3>5. \A p \in (at + 1)..Len(providers) : resolved[p] = Nothing
      BY <1>0, <2>2 DEF ResolvedInv
    <3>6. (\A p \in (at + 1)..Len(providers) : resolved[p] = Nothing)'
      BY <2>1, <3>5
    <3> QED
      BY <2>1, <2>2, <3>2, <3>4, <3>6 DEF ResolvedInv
  <2>3. CASE phase # "resolving"
    <3>1. \A p \in 1..Len(providers) : After(p, Len(Layers(p)), resolved[p])
      BY <1>0, <2>3 DEF ResolvedInv
    <3>2. (\A p \in 1..Len(providers) : After(p, Len(Layers(p)), resolved[p]))'
      BY <1>b, <2>1, <3>1
    <3> QED
      BY <2>1, <2>3, <3>2 DEF ResolvedInv
  <2> QED
    BY <2>2, <2>3
<1> QED
  BY <1>1, <1>2, <1>3, <1>4, <1>5 DEF Next

LEMMA StepOriginal == IInv /\ [Next]_vars => OriginalInv'
<1> SUFFICES ASSUME IInv, [Next]_vars PROVE OriginalInv'
  OBVIOUS
<1> USE DEF HoldsAsked, ModeOf, EffortOf, ClientMode, Asked
<1>0. TypeOK /\ OriginalInv /\ heap \in Seq(Reasoning)
      /\ params \in Params(Len(heap)) /\ original \in Params(Len(heap))
  BY DEF IInv, TypeOK
<1>1. CASE KeepOriginal
  <2>1. HoldsAsked(params, heap)
    BY <1>0, <1>1 DEF KeepOriginal, OriginalInv
  <2> HIDE DEF HoldsAsked, ModeOf, EffortOf, ClientMode, Asked
  <2>2. HoldsAsked(original', heap')
    BY <1>0, <1>1, <2>1, CloneSaysTheSame DEF KeepOriginal, HoldsAsked
  <2> QED
    BY <1>1, <2>2 DEF KeepOriginal, OriginalInv, HoldsAsked, ModeOf, EffortOf, ClientMode, Asked
<1>2. CASE ApplyOverride
  <2> HIDE DEF HoldsAsked, ModeOf, EffortOf, ClientMode, Asked
  <2> DEFINE copy == Clone(original)
  <2>1. HoldsAsked(original, heap)
    BY <1>0, <1>2 DEF ApplyOverride, OriginalInv
  <2>2. original.reasoning \in 0..Len(heap)
    BY <1>0 DEF Params
  <2>3. /\ copy.heap \in Seq(Reasoning) /\ Len(copy.heap) >= Len(heap)
        /\ copy.params \in Params(Len(copy.heap))
        /\ \A i \in 1..Len(heap) : copy.heap[i] = heap[i]
        /\ copy.params.reasoning \notin 1..Len(heap)
    BY <1>0, CloneSaysTheSame
  <2>4. resolved[at] \in OverrideParams
    BY <1>0 DEF TypeOK
  <2>5. heap' = Overridden(copy.params, copy.heap, resolved[at]).heap
    BY <1>2 DEF ApplyOverride
  <2> HIDE DEF copy
  <2>6. \A i \in 1..Len(copy.heap) : i # copy.params.reasoning => heap'[i] = copy.heap[i]
    BY <2>3, <2>4, <2>5, OverriddenIs
  <2>7. \A i \in 1..Len(heap) : heap'[i] = heap[i]
    BY <1>0, <2>3, <2>6
  <2>8. original.reasoning # 0 => heap'[original.reasoning] = heap[original.reasoning]
    BY <1>0, <2>2, <2>7
  <2>9. original' = original /\ client' = client /\ phase' # "resolving"
    BY <1>2 DEF ApplyOverride
  <2> QED
    BY <2>1, <2>8, <2>9 DEF OriginalInv, HoldsAsked, ModeOf, EffortOf, ClientMode, Asked
<1>3. CASE MergeLayer \/ NextSelection
  BY <1>0, <1>3 DEF MergeLayer, NextSelection, OriginalInv
<1>4. CASE Send \/ FallBack \/ Finish \/ Done \/ UNCHANGED vars
  BY <1>0, <1>4 DEF Send, FallBack, Finish, Done, vars, OriginalInv
<1> QED
  BY <1>1, <1>2, <1>3, <1>4 DEF Next

LEMMA StepParams == IInv /\ [Next]_vars => ParamsInv'
<1> SUFFICES ASSUME IInv, [Next]_vars PROVE ParamsInv'
  OBVIOUS
<1>0. /\ TypeOK /\ OriginalInv /\ ParamsInv /\ heap \in Seq(Reasoning)
      /\ original \in Params(Len(heap)) /\ original.plain \in [Fields -> Values \cup {Unset}]
  BY DEF IInv, TypeOK, Params
<1>a. client' = client => ClientMode' = ClientMode /\ \A f : Asked(f)' = Asked(f)
  BY DEF ClientMode, Asked
<1>1. CASE ApplyOverride
  <2> DEFINE copy == Clone(original)
             o == resolved[at]
  <2>1. HoldsAsked(original, heap)
    BY <1>0, <1>1 DEF ApplyOverride, OriginalInv
  <2>2. /\ copy.heap \in Seq(Reasoning) /\ copy.params \in Params(Len(copy.heap))
        /\ copy.params.plain = original.plain
        /\ ModeOf(copy.params, copy.heap) = ModeOf(original, heap)
        /\ EffortOf(copy.params, copy.heap) = EffortOf(original, heap)
    BY <1>0, CloneSaysTheSame
  <2>3. o \in OverrideParams
    BY <1>0 DEF TypeOK
  <2>4. /\ heap' = Overridden(copy.params, copy.heap, o).heap
        /\ params' = Overridden(copy.params, copy.heap, o).params
        /\ resolved' = resolved /\ at' = at /\ client' = client
    BY <1>1 DEF ApplyOverride
  <2> HIDE DEF copy
  <2>5. /\ params'.plain = Merge(copy.params.plain, o)
        /\ ModeOf(params', heap') = ModeOf(copy.params, copy.heap)
        /\ EffortOf(params', heap') =
             IF o[ReasoningEffort] # Unset THEN o[ReasoningEffort]
             ELSE EffortOf(copy.params, copy.heap)
    BY <2>2, <2>3, <2>4, OverriddenIs
  <2>6. \A f \in Fields : Asked(f) = client.plain[f]
    BY OverridesAssumption DEF Asked
  <2>7. \A f \in Fields : params'.plain[f] = Wanted(f, o)
    BY <1>0, <2>1, <2>2, <2>3, <2>5, <2>6, MergeType DEF Wanted, HoldsAsked
  <2>8. /\ ModeOf(params', heap') = ClientMode
        /\ EffortOf(params', heap') = Wanted(ReasoningEffort, o)
    BY <2>1, <2>2, <2>5 DEF Wanted, HoldsAsked
  <2> QED
    BY <1>a, <2>4, <2>7, <2>8 DEF ParamsInv, Wanted, ModeOf, EffortOf
<1>2. CASE phase' # "overridden"
  BY <1>2 DEF ParamsInv
<1>3. CASE Done \/ UNCHANGED vars
  <2>1. /\ phase' = phase /\ params' = params /\ heap' = heap /\ at' = at
        /\ resolved' = resolved /\ client' = client
    BY <1>3 DEF Done, vars
  <2> QED
    BY <1>0, <1>a, <2>1 DEF ParamsInv, Wanted, ModeOf, EffortOf
<1> QED
  BY <1>1, <1>2, <1>3
  DEF Next, MergeLayer, NextSelection, KeepOriginal, Send, FallBack, Finish

LEMMA StepSent == IInv /\ [Next]_vars => SentInv'
<1> SUFFICES ASSUME IInv, [Next]_vars PROVE SentInv'
  OBVIOUS
<1>0. /\ TypeOK /\ ParamsInv /\ SentInv
      /\ at \in 1..Len(providers) /\ params \in Params(Len(heap))
      /\ sent \in [1..Len(providers) -> OverrideParams \cup {NotSent}]
  BY DEF IInv, TypeOK
<1>a. client' = client => ClientMode' = ClientMode /\ \A f : Asked(f)' = Asked(f)
  BY DEF ClientMode, Asked
<1>b. providers' = providers =>
        \A p, m, e : BuildOpenAIReasoning(p, m, e)' = BuildOpenAIReasoning(p, m, e)
  BY DEF BuildOpenAIReasoning, Mapped, Offered
<1>1. CASE Send
  <2>1. /\ phase = "overridden" /\ phase' # "resolving"
        /\ sent' = [sent EXCEPT ![at] = Encoded(at, params)]
        /\ client' = client /\ providers' = providers /\ resolved' = resolved
    BY <1>1 DEF Send
  <2>2. /\ \A f \in Fields : params.plain[f] = Wanted(f, resolved[at])
        /\ ModeOf(params, heap) = ClientMode
        /\ EffortOf(params, heap) = Wanted(ReasoningEffort, resolved[at])
    BY <1>0, <2>1 DEF ParamsInv
  <2>3. \A f \in Fields : f # ReasoningEffort /\ Encoded(at, params)[f] = Wanted(f, resolved[at])
    BY <2>2, OverridesAssumption DEF Encoded
  <2>4. Encoded(at, params)[ReasoningEffort] =
          BuildOpenAIReasoning(at, ClientMode, Wanted(ReasoningEffort, resolved[at]))
    <3>1. CASE params.reasoning = 0
      <4>1. Wanted(ReasoningEffort, resolved[at]) = Unset
        BY <2>2, <3>1 DEF EffortOf
      <4> QED
        BY <3>1, <4>1 DEF Encoded, BuildOpenAIReasoning
    <3>2. CASE params.reasoning # 0
      <4>1. /\ heap[params.reasoning].mode = ClientMode
            /\ heap[params.reasoning].effort = Wanted(ReasoningEffort, resolved[at])
        BY <2>2, <3>2 DEF ModeOf, EffortOf
      <4> QED
        BY <3>2, <4>1 DEF Encoded
    <3> QED
      BY <3>1, <3>2
  <2>5. \A p \in 1..Len(providers) : sent'[p] = IF p = at THEN Encoded(at, params) ELSE sent[p]
    BY <1>0, <2>1
  <2>6. ASSUME NEW p \in 1..Len(providers), sent'[p] # NotSent, NEW f \in AllFields
        PROVE  sent'[p][f] = IF f = ReasoningEffort
                             THEN BuildOpenAIReasoning(p, ClientMode, Wanted(f, resolved[p]))
                             ELSE Wanted(f, resolved[p])
    <3>1. CASE p = at
      BY <2>3, <2>4, <2>5, <3>1 DEF AllFields
    <3>2. CASE p # at
      BY <1>0, <2>5, <2>6, <3>2 DEF SentInv
    <3> QED
      BY <3>1, <3>2
  <2> QED
    BY <1>a, <1>b, <2>1, <2>6 DEF SentInv, Wanted
<1>2. CASE MergeLayer
  <2>1. \A p \in 1..Len(providers) : sent[p] = NotSent
    BY <1>0, <1>2 DEF MergeLayer, SentInv
  <2> QED
    BY <1>2, <2>1 DEF MergeLayer, SentInv
<1>3. CASE NextSelection
  <2>1. \A p \in 1..Len(providers) : sent[p] = NotSent
    BY <1>0, <1>3 DEF NextSelection, SentInv
  <2> QED
    BY <1>3, <2>1 DEF NextSelection, SentInv
<1>4. CASE KeepOriginal
  <2>1. \A p \in 1..Len(providers) : sent[p] = NotSent
    BY <1>0, <1>4 DEF KeepOriginal, SentInv
  <2> QED
    BY <1>4, <2>1 DEF KeepOriginal, SentInv
<1>5. CASE ApplyOverride \/ FallBack \/ Finish \/ Done \/ UNCHANGED vars
  <2>1. /\ phase # "resolving" => phase' # "resolving"
        /\ sent' = sent /\ resolved' = resolved /\ client' = client /\ providers' = providers
    BY <1>5 DEF ApplyOverride, FallBack, Finish, Done, vars
  <2> QED
    BY <1>0, <1>a, <1>b, <2>1 DEF SentInv, Wanted
<1> QED
  BY <1>1, <1>2, <1>3, <1>4, <1>5 DEF Next

LEMMA InvariantOfSpec == Spec => []IInv
<1>1. IInv /\ [Next]_vars => IInv'
  <2> SUFFICES ASSUME IInv, [Next]_vars PROVE IInv'
    OBVIOUS
  <2>1. TypeOK'
    BY StepType DEF IInv
  <2> QED
    BY <2>1, StepResolved, StepOriginal, StepParams, StepSent DEF IInv
<1> QED
  BY InitIInv, <1>1, PTL DEF Spec

(* ------------------------------ theorems --------------------------------- *)

\* Whatever the configuration and the request, the variables keep their types
\* and no params refer outside the heap.
THEOREM OverridesTypes == Spec => []TypeOK
<1>1. IInv => TypeOK
  BY DEF IInv
<1> QED
  BY InvariantOfSpec, <1>1, PTL

\* What a provider is sent is the client's request changed by the last of its
\* own layers that sets each field, however many providers were tried before:
\* the Clone at public_anthropic.go:171 makes the change in place at
\* provider.go:96 safe.
THEOREM OwnOverride == Spec => []SentIsOwnOverride
<1>1. IInv => SentIsOwnOverride
  <2> SUFFICES ASSUME IInv, NEW p \in 1..Len(providers), sent[p] # NotSent, NEW f \in AllFields
               PROVE  \E v \in Values \cup {Unset} :
                        /\ LastSet(p, Len(Layers(p)), f, v, Asked(f))
                        /\ sent[p][f] = IF f = ReasoningEffort
                                        THEN BuildOpenAIReasoning(p, ClientMode, v) ELSE v
    BY DEF SentIsOwnOverride, AllFields
  <2>1. /\ phase # "resolving"
        /\ sent[p][f] = IF f = ReasoningEffort
                        THEN BuildOpenAIReasoning(p, ClientMode, Wanted(f, resolved[p]))
                        ELSE Wanted(f, resolved[p])
    BY DEF IInv, SentInv
  <2>2. LastSet(p, Len(Layers(p)), f, resolved[p][f], Unset)
    BY <2>1 DEF IInv, ResolvedInv, After
  <2>3. LastSet(p, Len(Layers(p)), f, Wanted(f, resolved[p]), Asked(f))
    BY <2>2 DEF LastSet, Sets, Wanted
  <2>4. Wanted(f, resolved[p]) \in Values \cup {Unset}
    <3>1. resolved[p] \in OverrideParams
      BY DEF IInv, TypeOK
    <3>2. client \in Client
      BY DEF IInv, TypeOK
    <3>3. client.plain \in [Fields -> Values \cup {Unset}] /\ client.effort \in Values \cup {Unset}
      BY <3>2 DEF Client
    <3> QED
      BY <3>1, <3>3 DEF Wanted, Asked, OverrideParams, AllFields
  <2> QED
    BY <2>1, <2>3, <2>4
<1> QED
  BY InvariantOfSpec, <1>1, PTL

\* A client that disabled thinking has no effort sent for it, whatever the
\* overrides of the providers say.
THEOREM DisabledStays == Spec => []DisabledStaysDisabled
<1>1. IInv => DisabledStaysDisabled
  <2> SUFFICES ASSUME IInv, ~client.openai, client.thinking = "disabled",
                      NEW p \in 1..Len(providers), sent[p] # NotSent
               PROVE  sent[p][ReasoningEffort] = Unset
    BY DEF DisabledStaysDisabled
  <2>1. sent[p][ReasoningEffort] =
          BuildOpenAIReasoning(p, ClientMode, Wanted(ReasoningEffort, resolved[p]))
    BY DEF IInv, SentInv, AllFields
  <2>2. ClientMode = "disabled"
    BY OverridesAssumption DEF ClientMode, Modes
  <2> QED
    BY <2>1, <2>2 DEF BuildOpenAIReasoning
<1> QED
  BY InvariantOfSpec, <1>1, PTL

=============================================================================
