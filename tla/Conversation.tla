---------------------------- MODULE Conversation -----------------------------
(***************************************************************************)
(* A client that keeps a conversation and asks, turn by turn, through the  *)
(* gateway.  The gateway keeps nothing between two requests: what it was   *)
(* told, and what the upstream has answered, comes back with the client's  *)
(* history, and is translated again each time.                             *)
(*                                                                         *)
(* The client is the environment: it follows its protocol, which is to     *)
(* answer every tool call in its next message.                             *)
(***************************************************************************)
EXTENDS Translation, FiniteSets

CONSTANTS
  Pieces,      \* what texts are made of
  Pictures,    \* the data of images, which may be Empty
  Contents,    \* what a user may say, as blocks of /v1/messages
  Prefills,    \* beginnings of an answer that a client may give
  Outcomes,    \* results of a tool: content and is_error
  Offers,      \* of a request: system (of /v1/messages), tools, web_search, and
               \* a tool choice for each protocol
  Instructions,\* what a system message may say
  Names,       \* functions
  Arguments,   \* JSON arguments, and strings that are none
  Answers,     \* pieces of text that only the upstream says
  Responses,   \* what an upstream may answer, without ids of calls
  SourceLists, \* web search results
  MaxTurns     \* answers to one client

ASSUME ConversationAssumption ==
  /\ Reparsed \in [Arguments -> Arguments] /\ Null \in Arguments
  /\ \A a \in Arguments : Reparsed[Reparsed[a]] = Reparsed[a]
  /\ Empty \notin Names \cup (Nat \X Nat) \cup {"auto", "required", "tool"}
  /\ Footer \in Pieces
  /\ MaxTurns \in Nat

(* ------------------------------- contents -------------------------------- *)

IDs == Nat \X Nat
Texts(type) == [type : {type}, id : {Empty}, val : Seq(Pieces)]
Images(type, sources) == [type : {type}, id : sources, val : Pictures]
UserBlocks == Texts("text") \cup Images("image", {"base64", "url", "other"})

\* Only a tool that is forced is named in a choice.
ToolChoices(forced) ==
  [type : {"auto", "any", "required", "none"}, name : {Empty}] \cup [type : {forced}, name : Names]

UpstreamMessages(calls) ==
  [thinking_blocks : Seq(Seq(Pieces)), reasoning_content : Seq(Pieces), content : Seq(Pieces),
   tool_calls : Seq(calls)]

ASSUME ContentAssumption ==
  /\ Contents \cup Prefills \subseteq Seq(UserBlocks)
  /\ Instructions \subseteq Seq(Texts("text"))
  /\ Outcomes \subseteq [content : Seq(UserBlocks), is_error : BOOLEAN]
  /\ Offers \subseteq [system : Seq(Texts("text")), tools : SUBSET Names, web_search : BOOLEAN,
                       choice : [anthropic : ToolChoices("tool"), openai : ToolChoices("function")]]
  /\ Responses \subseteq Seq(UpstreamMessages([name : Names, args : Arguments]))

\* The pieces of Answers tell what the upstream has said, and the footer below
\* it, from what clients, tools and operators write: no text of theirs begins
\* with one.
OfUpstream(text) == text # <<>> /\ text[1] \in Answers \cup {Footer}

ASSUME SpeakersAssumption ==
  /\ ErrorMark \notin Answers \cup {Footer}
  /\ \A content \in Contents \cup Prefills \cup Instructions
                       \cup {o.content : o \in Outcomes} \cup {o.system : o \in Offers} :
       \A i \in DOMAIN content : content[i].type = "text" => ~OfUpstream(content[i].val)
  /\ \A choices \in Responses : \A i \in DOMAIN choices :
       choices[i].content # <<>> => choices[i].content[1] \in Answers

\* What a client of /v1/messages has in its history.
AnswerBlocks ==
  Texts("thinking")
    \cup [type : {"tool_use"}, id : IDs, val : [name : Names, args : Arguments]]
    \cup [type : {"server_tool_use"}, id : {Empty}, val : {Empty}]
    \cup [type : {"web_search_tool_result"}, id : {Empty}, val : SourceLists]
ResultBlocks == [type : {"tool_result"}, id : IDs, val : Outcomes]
AnthropicMessages ==
  [role : {"user"}, content : Seq(UserBlocks \cup ResultBlocks)]
    \cup [role : {"assistant"}, content : Seq(UserBlocks \cup AnswerBlocks)]

\* What a client of /v1/chat/completions has.
PartBlocks == Texts("text") \cup Images("image_url", {"base64", "https", "data"})
CallRecords == [id : IDs, name : Names, args : Arguments]
OpenAIMessages ==
  [role : {"system"}, content : Seq(Texts("text")), thinking : {<<>>}, tool_calls : {<<>>},
   tool_call_id : {Empty}]
    \cup [role : {"user"}, content : Seq(PartBlocks), thinking : {<<>>}, tool_calls : {<<>>},
          tool_call_id : {Empty}]
    \cup [role : {"tool"}, content : Seq(PartBlocks), thinking : {<<>>}, tool_calls : {<<>>},
          tool_call_id : IDs]
    \cup [role : {"assistant"}, content : Seq(PartBlocks), thinking : Seq(Texts("thinking")),
          tool_calls : Seq(CallRecords), tool_call_id : {Empty}]

VARIABLES
  protocol,  \* "anthropic" or "openai"
  history,   \* the client's messages, in its protocol
  phase,     \* whose turn it is: "client", "gateway", "upstream"
  asked,     \* what the last request asked for besides the history
  sent,      \* the last request to the upstream
  said       \* what the upstream answered, with the calls' ids, turn by turn

vars == <<protocol, history, phase, asked, sent, said>>

NoOffer == [system |-> <<>>, tools |-> {}, web_search |-> FALSE]
NoRequest == [messages |-> <<>>, tools |-> {}, choice |-> Empty, web_search |-> FALSE]

(* ------------------------------ the client ------------------------------- *)

\* Blocks as the parts of the other protocol.  What is of an "other" source in
\* the one (a file) is a data URI that is not read in the other.
InParts(content) ==
  [i \in DOMAIN content |->
     IF content[i].type = "image"
     THEN [content[i] EXCEPT !.type = "image_url",
                             !.id = CASE @ = "url" -> "https" [] @ = "other" -> "data" [] OTHER -> @]
     ELSE content[i]]

OpenAIMessage(role, content, id) ==
  [role |-> role, content |-> InParts(content), thinking |-> <<>>, tool_calls |-> <<>>,
   tool_call_id |-> id]

Speak(role, content) ==
  IF protocol = "anthropic" THEN Message(role, content) ELSE OpenAIMessage(role, content, Empty)

\* The calls of an answer, in either protocol.
CallIDs(m) ==
  IF protocol = "anthropic"
  THEN LET calls == OfType("tool_use", m.content) IN [i \in DOMAIN calls |-> calls[i].id]
  ELSE [i \in DOMAIN m.tool_calls |-> m.tool_calls[i].id]

Pending == IF history = <<>> THEN <<>> ELSE CallIDs(history[Len(history)])

\* The results of the pending calls, with what the user says before or after.
Results(outcome, before, after) ==
  LET Result(id) == Block("tool_result", id, outcome)
      ToolMessage(id) == OpenAIMessage("tool", outcome.content, id)
      Words(content) == IF content = <<>> THEN <<>> ELSE <<OpenAIMessage("user", content, Empty)>>
  IN  IF protocol = "anthropic"
      THEN <<Message("user", before \o [i \in DOMAIN Pending |-> Result(Pending[i])] \o after)>>
      ELSE [i \in DOMAIN Pending |-> ToolMessage(Pending[i])] \o Words(before \o after)

Init ==
  /\ protocol \in {"anthropic", "openai"}
  /\ history = <<>>
  /\ phase = "client"
  /\ asked = NoOffer
  /\ sent = NoRequest
  /\ said = <<>>

\* The user says something; the client may begin the answer itself, and a
\* client of /v1/chat/completions may instruct the system at any time.
UserSpeaks ==
  /\ phase = "client" /\ Pending = <<>>
  /\ \E content \in Contents, prefill \in Prefills \cup {<<>>},
        instruction \in Instructions \cup {<<>>} :
       /\ protocol = "anthropic" => instruction = <<>>
       /\ history' = history
         \o (IF instruction = <<>> THEN <<>> ELSE <<Speak("system", instruction)>>)
         \o <<Speak("user", content)>>
         \o (IF prefill = <<>> THEN <<>> ELSE <<Speak("assistant", prefill)>>)
  /\ phase' = "gateway"
  /\ UNCHANGED <<protocol, asked, sent, said>>

\* The client has run the tools.
CallsReturn ==
  /\ phase = "client" /\ Pending # <<>>
  /\ \E outcome \in Outcomes, before, after \in Contents \cup {<<>>} :
       /\ before = <<>> \/ after = <<>>
       /\ protocol = "openai" => ~outcome.is_error
       /\ history' = history \o Results(outcome, before, after)
  /\ phase' = "gateway"
  /\ UNCHANGED <<protocol, asked, sent, said>>

(* ------------------------------ the gateway ------------------------------ *)

\* The request is decoded and encoded, as the handler of its protocol does.
Forward ==
  /\ phase = "gateway"
  /\ \E offer \in Offers :
       asked' = IF protocol = "openai" THEN [offer EXCEPT !.system = <<>>] ELSE offer
  /\ LET request == [system |-> asked'.system, messages |-> history, tools |-> asked'.tools,
                     web_search |-> asked'.web_search, choice |-> asked'.choice[protocol]]
     IN  sent' = EncodeOpenAIRequest(IF protocol = "anthropic" THEN DecodeAnthropicRequest(request)
                                     ELSE DecodeOpenAIRequest(request))
  /\ phase' = "upstream"
  /\ UNCHANGED <<protocol, history, said>>

\* The upstream answers, and the client keeps what it is given of the answer.
Answer ==
  /\ phase = "upstream" /\ Len(said) < MaxTurns
  /\ \E choices \in Responses, results \in SourceLists :
       LET n == Len(said) + 1
           Numbered(calls) == [k \in DOMAIN calls |->
                                 [id |-> <<n, k>>, name |-> calls[k].name, args |-> calls[k].args]]
           answer == [i \in DOMAIN choices |-> [choices[i] EXCEPT !.tool_calls = Numbered(@)]]
       IN  /\ said' = Append(said, [choices |-> answer, searched |-> sent.web_search /\ results # <<>>])
           /\ history' = Append(history,
                IF protocol = "anthropic" THEN AnthropicAnswer(answer, sent.web_search, results)
                ELSE OpenAIAnswer(answer, sent.web_search, results))
  /\ phase' = "client"
  /\ UNCHANGED <<protocol, asked, sent>>

\* The client has had enough.
Done == phase = "upstream" /\ Len(said) = MaxTurns /\ UNCHANGED vars

Next == UserSpeaks \/ CallsReturn \/ Forward \/ Answer \/ Done

Spec == Init /\ [][Next]_vars

(* ------------------------------ properties ------------------------------- *)

\* The properties are about requests that have been sent for this history.
IsSent == phase = "upstream"

Roles == {"system", "user", "assistant", "tool"}

\* The types: a client has a history of its protocol, a request holds nothing
\* but what the chat protocol knows, no message is without content unless it
\* calls, and only answers call.
TypeOK ==
  /\ protocol \in {"anthropic", "openai"}
  /\ phase \in {"client", "gateway", "upstream"}
  /\ history \in Seq(IF protocol = "anthropic" THEN AnthropicMessages ELSE OpenAIMessages)
  /\ said \in Seq([choices : Seq(UpstreamMessages(CallRecords)), searched : BOOLEAN])
  /\ Len(said) \in 0..MaxTurns
  /\ sent.tools \subseteq Names /\ sent.web_search \in BOOLEAN
  /\ sent.choice \in {Empty, "auto", "required"} \cup Names \cup {"web_search"}
  /\ \A i \in DOMAIN sent.messages :
       LET m == sent.messages[i]
       IN  /\ m.role \in Roles
           /\ \A j \in DOMAIN m.content : m.content[j].type \in {"text", "image_url"}
           /\ m.role # "tool" => m.content # <<>> \/ m.tool_calls # <<>>
           /\ m.tool_calls # <<>> => m.role = "assistant"
           /\ m.role = "tool" <=> m.tool_call_id # Empty

\* Every message that calls tools is followed by the results of its calls, in
\* their order, and no result stands anywhere else (upstream.go:285: "so they
\* stay adjacent to the preceding tool call").
ToolResultsFollowCalls ==
  IsSent =>
    LET ms == sent.messages
        ResultsAt(i) == Each(LAMBDA c : <<c.id>>, ms[i].tool_calls)
    IN  /\ \A i \in DOMAIN ms : \A k \in DOMAIN ms[i].tool_calls :
             i + k \in DOMAIN ms /\ ms[i + k].tool_call_id = ResultsAt(i)[k]
        /\ Len(Each(LAMBDA m : IF m.role = "tool" THEN <<m>> ELSE <<>>, ms))
             = Len(Each(LAMBDA m : m.tool_calls, ms))

\* What of a content can be sent: its texts, and the images it holds itself,
\* with their data in base64.  Neither an image behind a URL nor one in another
\* form is, and nothing tells the client so.
Sendable(content) ==
  Each(LAMBDA b : IF \/ b.type = "text"
                     \/ b.type \in {"image", "image_url"} /\ b.id = "base64" /\ b.val # Empty
                  THEN <<b.val>> ELSE <<>>,
       content)

\* What is said under the given roles, each with its role.
Told(messages, roles) ==
  Each(LAMBDA m : IF m.role \in roles
                  THEN Each(LAMBDA v : <<[role |-> m.role, val |-> v]>>, Sendable(m.content))
                  ELSE <<>>, messages)

Vals(told) == [i \in DOMAIN told |-> told[i].val]
Spoken == {"user", "assistant"}

\* The results that messages hold, in either protocol.
ResultsIn(messages) ==
  Each(LAMBDA m :
         IF m.role = "tool"
         THEN <<[id |-> m.tool_call_id, words |-> Sendable(m.content), is_error |-> FALSE]>>
         ELSE Each(LAMBDA b : <<[id |-> b.id, words |-> Sendable(b.val.content), is_error |-> b.val.is_error]>>,
                   OfType("tool_result", m.content)),
       messages)

\* The words of a result, and before them that it is an error.
AsError(sentWords, words) ==
  \/ sentWords = <<<<ErrorMark>>>> \o words
  \/ words # <<>> /\ sentWords = <<<<ErrorMark>> \o Head(words)>> \o Tail(words)

\* Everything that can be sent of what a client has said, instructed or given as
\* a result is sent once, and in its order: every text, and every image that has
\* its data with it in base64; a result that is an error says so.
NothingLost ==
  IsSent =>
    LET given == ResultsIn(history)
        passed == ResultsIn(sent.messages)
    IN  /\ Vals(Told(sent.messages, Spoken)) = Vals(Told(history, Spoken))
        /\ Vals(Told(sent.messages, {"system"})) =
             Sendable(asked.system) \o Vals(Told(history, {"system"}))
        /\ Len(passed) = Len(given)
        /\ \A i \in DOMAIN given :
             /\ passed[i].id = given[i].id
             /\ IF given[i].is_error THEN AsError(passed[i].words, given[i].words)
                ELSE passed[i].words = given[i].words

\* The upstream is told who said what: nothing of the user's is put into the
\* assistant's mouth, nor the other way round, but for an answer that the
\* client itself begins (upstream.go:167).  The client's last message must have
\* something to send: else the answer before it is the last, and is re-roled.
WordsKeepTheirSpeaker ==
  LET last == history[Len(history)]
      told == Told(history, Spoken)
      kept == Len(told) - (IF last.role = "assistant" THEN Len(Sendable(last.content)) ELSE 0)
  IN  IsSent /\ (Sendable(last.content) # <<>> \/ ResultsIn(<<last>>) # <<>>) =>
        \A i \in 1..kept : Told(sent.messages, Spoken)[i] = told[i]

\* What the upstream said comes back to it in every later request: its texts,
\* with the sources it was given if the client's protocol has no other place
\* for them, and its calls, with their arguments as a first reading leaves them,
\* however often they have gone to and fro.
WhatWasSaidComesBack ==
  IsSent =>
    LET answers == Each(LAMBDA s : IF s.choices = <<>> THEN <<>>
                                   ELSE <<[m |-> Head(s.choices), searched |-> s.searched]>>, said)
        Text(a) == a.m.content \o (IF a.searched /\ protocol = "openai" THEN <<Footer>> ELSE <<>>)
        texts == Each(LAMBDA v : IF OfUpstream(v) THEN <<v>> ELSE <<>>,
                      Each(LAMBDA m : Each(LAMBDA b : <<b.val>>, OfType("text", m.content)), sent.messages))
    IN  /\ texts = Each(LAMBDA a : IF Text(a) = <<>> THEN <<>> ELSE <<Text(a)>>, answers)
        /\ Each(LAMBDA m : m.tool_calls, sent.messages) =
             Each(LAMBDA a : [k \in DOMAIN a.m.tool_calls |->
                                [a.m.tool_calls[k] EXCEPT !.args = Reparsed[@]]], answers)

\* A request that holds calls names tools, also when the client gives none with
\* this turn (upstream.go:175), unless it is a web search (upstream.go:179); and
\* a function that a client forces is forced, and offered, there too.
CallsHaveTools ==
  IsSent =>
    /\ ~sent.web_search /\ (\E i \in DOMAIN sent.messages : sent.messages[i].tool_calls # <<>>)
         => sent.tools # {}
    /\ asked.choice[protocol].name \in asked.tools
         => sent.choice = asked.choice[protocol].name /\ sent.choice \in sent.tools

=============================================================================
