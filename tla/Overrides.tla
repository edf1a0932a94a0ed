------------------------------ MODULE Overrides ------------------------------
(***************************************************************************)
(* The parameters of one request on their way to the upstreams: SelectAll  *)
(* resolves the overrides of every provider, and the handler's loop gives  *)
(* each provider it tries a copy of the client's parameters, changed by    *)
(* that provider's override and encoded for what its model can do.         *)
(*                                                                         *)
(* applyOverride changes the Reasoning of a request in place, so these are *)
(* objects in a heap here: a Params refers to one, and Clone copies it.    *)
(***************************************************************************)
EXTENDS Integers, Sequences

CONSTANTS
  Fields,        \* the fields that are plain values: max_tokens, stop, ...
  Values,        \* what a field, or an effort, may be set to
  Unset,         \* a field that is absent, or nil
  Medium,        \* the effort "medium"
  Empty,         \* the effort ""
  Canonical,     \* an effort trimmed and in lower case
  Folded,        \* an effort in lower case only, as strings.EqualFold compares
  ModelNames,    \* client model names
  Clients,       \* the requests that may arrive
  Selections     \* the providers that may be selected, in the order tried

ReasoningEffort == "reasoning_effort"
Modes == {"", "enabled", "disabled", "adaptive"}

OverrideParams == [Fields \cup {ReasoningEffort} -> Values \cup {Unset}]

\* A request: its reasoning is split as in the protocol (thinking.type, which
\* OpenAI clients do not have, and the effort).
Client == [openai : BOOLEAN, model : ModelNames, stream : BOOLEAN,
           plain : [Fields -> Values \cup {Unset}],
           thinking : (Modes \ {""}) \cup {Unset}, effort : Values \cup {Unset}]

\* OverrideRule: conditions that may be absent, and parameters.
Rule == [model : ModelNames \cup {Unset}, stream : BOOLEAN \cup {Unset},
         params : OverrideParams]

\* A provider and its target model; without capability, allowed is empty.
Selection == [defaults : OverrideParams, rules : Seq(Rule),
              allowed : SUBSET Values, effort_map : [Values -> Values \cup {Unset}]]

ASSUME OverridesAssumption ==
  /\ Unset \notin Values /\ Unset \notin BOOLEAN /\ Unset \notin Modes
  /\ Medium \in Values
  /\ ReasoningEffort \notin Fields
  /\ {Canonical, Folded} \subseteq [Values -> Values]
  /\ Clients \subseteq Client
  /\ Selections \subseteq Seq(Selection) \ {<<>>}

VARIABLES
  client,     \* the request as it arrived
  providers,  \* the selected providers
  phase,      \* how far the handler is
  at,         \* the provider in hand
  layer,      \* layers of its override that are merged
  resolved,   \* ProviderSelection.Override of each provider
  heap,       \* the Reasoning objects
  params,     \* req.Params
  original,   \* originalParams
  sent        \* the fields of the body made for each provider

vars == <<client, providers, phase, at, layer, resolved, heap, params, original, sent>>

Nothing == [f \in Fields \cup {ReasoningEffort} |-> Unset]
NotSent == <<>>

(* ------------------------------ decoding ------------------------------- *)

\* The Reasoning of a request as a list, for there may be none.  An OpenAI
\* client sets an effort that is not empty, an Anthropic client either part.
DecodedReasoning(c) ==
  IF c.openai
  THEN IF c.effort \in {Unset, Empty} THEN <<>> ELSE <<[mode |-> "", effort |-> c.effort]>>
  ELSE IF c.thinking = Unset /\ c.effort = Unset
       THEN <<>>
       ELSE <<[mode |-> IF c.thinking = Unset THEN "" ELSE c.thinking, effort |-> c.effort]>>

\* Params: a reference 0 is nil.
DecodedParams(c) == [plain |-> c.plain, reasoning |-> Len(DecodedReasoning(c))]

(* ------------------------------ overrides ------------------------------ *)

\* The layers of an override: the defaults, for every request, and the rules.
Layers(p) ==
  <<[model |-> Unset, stream |-> Unset, params |-> providers[p].defaults]>> \o providers[p].rules

\* matchesOverrideTarget
Matches(rule) ==
  /\ rule.model \in {Unset, client.model}
  /\ rule.stream \in {Unset, client.stream}

\* mergeOverrideParams: what the source sets replaces the value so far.
Merge(dst, src) == [f \in DOMAIN dst |-> IF src[f] # Unset THEN src[f] ELSE dst[f]]

\* Mutant of Clone: the copy refers to the same Reasoning.
CloneShallow(q) == [params |-> q, heap |-> heap]

\* Params.Clone: the copy refers to a copy of the Reasoning.
Clone(q) ==
  IF q.reasoning = 0
  THEN [params |-> q, heap |-> heap]
  ELSE [params |-> [q EXCEPT !.reasoning = Len(heap) + 1],
        heap   |-> Append(heap, heap[q.reasoning])]

\* Mutant of Overridden: the effort comes with a Reasoning of its own.
OverriddenFresh(q, h, o) ==
  IF o[ReasoningEffort] = Unset
  THEN [params |-> [q EXCEPT !.plain = Merge(q.plain, o)], heap |-> h]
  ELSE [params |-> [plain |-> Merge(q.plain, o), reasoning |-> Len(h) + 1],
        heap   |-> Append(h, [mode |-> "", effort |-> o[ReasoningEffort]])]

\* applyOverride of o to the params q, with the objects h.
Overridden(q, h, o) ==
  LET plain == Merge(q.plain, o)
  IN  IF o[ReasoningEffort] = Unset
      THEN [params |-> [q EXCEPT !.plain = plain], heap |-> h]
      ELSE IF q.reasoning = 0
      THEN [params |-> [plain |-> plain, reasoning |-> Len(h) + 1],
            heap   |-> Append(h, [mode |-> "", effort |-> o[ReasoningEffort]])]
      ELSE [params |-> [q EXCEPT !.plain = plain],
            heap   |-> [h EXCEPT ![q.reasoning].effort = o[ReasoningEffort]]]

(* ------------------------------ encoding ------------------------------- *)

\* The effort in the words of provider p: its map, with a canonical key.
Mapped(p, effort) ==
  IF providers[p].effort_map[Canonical[effort]] # Unset
  THEN providers[p].effort_map[Canonical[effort]]
  ELSE Canonical[effort]

\* strings.EqualFold finds it in the list of the provider's model.
Offered(p, effort) == \E a \in providers[p].allowed : Folded[a] = Folded[effort]

\* BuildOpenAIReasoning
BuildOpenAIReasoning(p, mode, effort) ==
  IF mode = "disabled" \/ effort = Unset \/ providers[p].allowed = {}
  THEN Unset
  ELSE IF Offered(p, Mapped(p, effort)) THEN Mapped(p, effort) ELSE Medium

\* The fields of the body, for provider p.
Encoded(p, q) ==
  [f \in Fields \cup {ReasoningEffort} |->
     IF f # ReasoningEffort THEN q.plain[f]
     ELSE IF q.reasoning = 0 THEN Unset
     ELSE BuildOpenAIReasoning(p, heap[q.reasoning].mode, heap[q.reasoning].effort)]

(* ------------------------------ actions -------------------------------- *)

Init ==
  /\ client \in Clients
  /\ providers \in Selections
  /\ phase = "resolving"
  /\ at = 1
  /\ layer = 0
  /\ resolved = [p \in 1..Len(providers) |-> Nothing]
  /\ heap = DecodedReasoning(client)
  /\ params = DecodedParams(client)
  /\ original = params
  /\ sent = [p \in 1..Len(providers) |-> NotSent]

\* One layer of resolveOverride.
MergeLayer ==
  /\ phase = "resolving" /\ layer < Len(Layers(at))
  /\ resolved' = IF Matches(Layers(at)[layer + 1])
                 THEN [resolved EXCEPT ![at] = Merge(@, Layers(at)[layer + 1].params)]
                 ELSE resolved
  /\ layer' = layer + 1
  /\ UNCHANGED <<client, providers, phase, at, heap, params, original, sent>>

\* Mutant of NextSelection: the layers of the next provider start where these end.
NextSelectionNoReset ==
  /\ phase = "resolving" /\ layer = Len(Layers(at)) /\ at < Len(providers)
  /\ at' = at + 1
  /\ UNCHANGED <<client, providers, phase, layer, resolved, heap, params, original, sent>>

\* The next provider of SelectAll's loop.
NextSelection ==
  /\ phase = "resolving" /\ layer = Len(Layers(at)) /\ at < Len(providers)
  /\ at' = at + 1
  /\ layer' = 0
  /\ UNCHANGED <<client, providers, phase, resolved, heap, params, original, sent>>

\* SelectAll returns, and the handler puts the client's parameters aside.
KeepOriginal ==
  /\ phase = "resolving" /\ layer = Len(Layers(at)) /\ at = Len(providers)
  /\ phase' = "trying"
  /\ at' = 1
  /\ layer' = 0
  /\ original' = Clone(params).params
  /\ heap' = Clone(params).heap
  /\ UNCHANGED <<client, providers, resolved, params, sent>>

\* "Reset params and apply this provider's overrides."
ApplyOverride ==
  /\ phase = "trying"
  /\ phase' = "overridden"
  /\ LET copy == Clone(original)
         result == Overridden(copy.params, copy.heap, resolved[at])
     IN  params' = result.params /\ heap' = result.heap
  /\ UNCHANGED <<client, providers, at, layer, resolved, original, sent>>

\* EncodeOpenAIRequest, and the request goes to the provider.
Send ==
  /\ phase = "overridden"
  /\ phase' = "waiting"
  /\ sent' = [sent EXCEPT ![at] = Encoded(at, params)]
  /\ UNCHANGED <<client, providers, at, layer, resolved, heap, params, original>>

\* The provider failed and there is another one.
FallBack ==
  /\ phase = "waiting" /\ at < Len(providers)
  /\ phase' = "trying"
  /\ at' = at + 1
  /\ UNCHANGED <<client, providers, layer, resolved, heap, params, original, sent>>

\* The client is answered, or has gone.
Finish ==
  /\ phase = "waiting"
  /\ phase' = "done"
  /\ UNCHANGED <<client, providers, at, layer, resolved, heap, params, original, sent>>

Done == phase = "done" /\ UNCHANGED vars

Next ==
  \/ MergeLayer \/ NextSelection \/ KeepOriginal
  \/ ApplyOverride \/ Send
  \/ FallBack \/ Finish \/ Done

Spec == Init /\ [][Next]_vars

(* ----------------------------- properties ------------------------------ *)

Params(n) == [plain : [Fields -> Values \cup {Unset}], reasoning : 0..n]
Reasoning == [mode : Modes, effort : Values \cup {Unset}]

\* The types; no reference points outside the heap.
TypeOK ==
  /\ client \in Client
  /\ providers \in Seq(Selection)
  /\ phase \in {"resolving", "trying", "overridden", "waiting", "done"}
  /\ at \in 1..Len(providers)
  /\ layer \in 0..(IF phase = "resolving" THEN Len(Layers(at)) ELSE 0)
  /\ resolved \in [1..Len(providers) -> OverrideParams]
  /\ heap \in Seq(Reasoning)
  /\ params \in Params(Len(heap))
  /\ original \in Params(Len(heap))
  /\ sent \in [1..Len(providers) -> OverrideParams \cup {NotSent}]

\* The field f is set for this request by layer l of provider p.
Sets(p, l, f) == Matches(Layers(p)[l]) /\ Layers(p)[l].params[f] # Unset

\* The last of the first n layers of p that sets f sets it to v, or none does
\* and v is the value it has otherwise.
LastSet(p, n, f, v, otherwise) ==
  \/ \E l \in 1..n :
       /\ Sets(p, l, f)
       /\ \A k \in (l + 1)..n : ~Sets(p, k, f)
       /\ v = Layers(p)[l].params[f]
  \/ /\ \A l \in 1..n : ~Sets(p, l, f)
     /\ v = otherwise

\* What the client asks for in field f.
Asked(f) == IF f # ReasoningEffort THEN client.plain[f]
            ELSE IF client.openai /\ client.effort = Empty THEN Unset ELSE client.effort

ClientMode == IF client.openai \/ client.thinking = Unset THEN "" ELSE client.thinking

\* Every provider is sent what the client asked for, changed by what its own
\* override says last, whatever was tried before it: nothing is left over from
\* the override of a provider that failed (Clone at public_anthropic.go:171
\* against the change in place at provider.go:96).
SentIsOwnOverride ==
  \A p \in 1..Len(providers) : sent[p] # NotSent =>
    \A f \in Fields \cup {ReasoningEffort} : \E v \in Values \cup {Unset} :
      /\ LastSet(p, Len(Layers(p)), f, v, Asked(f))
      /\ sent[p][f] = IF f = ReasoningEffort THEN BuildOpenAIReasoning(p, ClientMode, v) ELSE v

\* A client that disabled thinking gets no effort sent to any provider, also
\* where an override sets one: applyOverride keeps the mode (provider.go:92),
\* and "Disabled thinking omits the field" (README.md:10).
DisabledStaysDisabled ==
  ~client.openai /\ client.thinking = "disabled" =>
    \A p \in 1..Len(providers) : sent[p] # NotSent => sent[p][ReasoningEffort] = Unset

=============================================================================
