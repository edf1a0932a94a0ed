----------------------------- MODULE Translation -----------------------------
(***************************************************************************)
(* Package codec on whole requests and whole responses: from the messages  *)
(* of a client of either protocol to the canonical request, from that to   *)
(* the chat request of the upstream, and the way back of its response.     *)
(*                                                                         *)
(* A content is a sequence of blocks, a text a sequence of pieces, for the *)
(* code puts texts together.  A content that is a string stands for its    *)
(* one text, and a content that is missing or null for the empty sequence: *)
(* every decoder here treats them alike.                                   *)
(***************************************************************************)
EXTENDS ContentBlocks, Integers, SequencesExt

CONSTANTS
  ErrorMark,  \* the text "Error:"
  Footer,     \* the list of sources below an answer
  Null,       \* JSON arguments that are null
  Reparsed    \* what is left of arguments that are unmarshalled to any

\* The blocks that Op makes of each element of s.
Each(Op(_), s) == FlattenSeq([i \in DOMAIN s |-> Op(s[i])])

OfType(type, s) == Each(LAMBDA b : IF b.type = type THEN <<b>> ELSE <<>>, s)

Message(role, content) == [role |-> role, content |-> content]

\* A message that has no content is left out.
Messages(role, content) == IF content = <<>> THEN <<>> ELSE <<Message(role, content)>>

(* -------------------- requests of /v1/messages --------------------------- *)

\* A block that holds no other; the id of an image is the type of its source.
DecodePlainBlock(b) ==
  CASE b.type \in {"text", "thinking"}           -> <<b>>
    [] b.type = "image" /\ b.id = "base64"       -> <<b>>
    [] b.type = "tool_use"                       ->
         <<Block("tool_call", b.id, [b.val EXCEPT !.args = Reparsed[@]])>>
    [] OTHER                                     -> <<>>

\* decodeAnthropicContent.  The upstream is told no more of a result's content
\* than plain blocks hold.
DecodeAnthropicBlock(b) ==
  IF b.type = "tool_result"
  THEN <<[b EXCEPT !.val.content = Each(DecodePlainBlock, @)]>>
  ELSE DecodePlainBlock(b)

DecodeAnthropicToolChoice(choice) ==
  CASE choice.type = "auto" -> [type |-> "auto", name |-> Empty]
    [] choice.type = "any"  -> [type |-> "required", name |-> Empty]
    [] choice.type = "tool" -> choice
    [] OTHER                -> [type |-> Empty, name |-> Empty]

DecodeAnthropicRequest(req) ==
  [req EXCEPT !.system = OfType("text", @),
              !.messages = Each(LAMBDA m : Messages(m.role, Each(DecodeAnthropicBlock, m.content)), @),
              !.choice = DecodeAnthropicToolChoice(@)]

(* ------------------ requests of /v1/chat/completions --------------------- *)

\* decodeOpenAIContent: the id of an image is the form of its URL.  What
\* parseDataURI takes is "base64", data:<media type>;base64,<data>; it drops a
\* "data" URI that has parameters or another coding, and every "https" one.
DecodePart(b) ==
  CASE b.type = "text"                          -> <<b>>
    [] b.type = "image_url" /\ b.id = "base64"  -> <<Block("image", "base64", b.val)>>
    [] OTHER                                    -> <<>>

\* A call as the protocol has it, and the canonical one.
DecodeCall(c) == <<Block("tool_call", c.id, [name |-> c.name, args |-> Reparsed[c.args]])>>
EncodeCall(b) == <<[id |-> b.id, name |-> b.val.name, args |-> b.val.args]>>

\* A message's thinking is given as the blocks that thinking_blocks, or else
\* reasoning_content, make.
DecodeOpenAIMessage(m) ==
  LET content == Each(DecodePart, m.content)
      result == IF m.role = "tool" /\ m.tool_call_id # Empty
                THEN <<Block("tool_result", m.tool_call_id, [content |-> content, is_error |-> FALSE])>>
                ELSE <<>>
  IN  Messages(m.role, m.thinking \o content \o Each(DecodeCall, m.tool_calls) \o result)

DecodeOpenAIToolChoice(choice) ==
  CASE choice.type \in {"auto", "required"}                -> choice
    [] choice.type = "function" /\ choice.name # Empty     -> [choice EXCEPT !.type = "tool"]
    [] OTHER                                               -> [type |-> Empty, name |-> Empty]

\* System messages move to the front, from wherever they stand.
DecodeOpenAIRequest(req) ==
  LET System(m) == IF m.role = "system" THEN Each(DecodePart, m.content) ELSE <<>>
      Other(m) == IF m.role = "system" THEN <<>> ELSE DecodeOpenAIMessage(m)
  IN  [req EXCEPT !.system = Each(System, req.messages), !.messages = Each(Other, @),
                  !.choice = DecodeOpenAIToolChoice(@)]

(* -------------------- the request to the upstream ------------------------ *)

ChatMessage(role, content, calls, id) ==
  [role |-> role, content |-> content, tool_calls |-> calls, tool_call_id |-> id]

\* Mutant of EncodePart: what is not known is sent as it is.
EncodePartAny(b) ==
  IF b.type = "image" THEN <<Block("image_url", "base64", b.val)>> ELSE <<b>>

\* An image that has no data is not sent.
EncodePart(b) ==
  CASE b.type = "text"                    -> <<b>>
    [] b.type = "image" /\ b.val # Empty  -> <<Block("image_url", "base64", b.val)>>
    [] OTHER                              -> <<>>

\* encodeOpenAIToolResultContent: an error is said in words.
EncodeToolResultContent(result) ==
  LET parts == Each(EncodePart, result.content)
  IN  CASE ~result.is_error                                    -> parts
        [] result.is_error /\ parts # <<>> /\ Head(parts).type = "text" ->
             [parts EXCEPT ![1].val = <<ErrorMark>> \o @]
        [] OTHER -> <<Block("text", Empty, <<ErrorMark>>)>> \o parts

EncodeToolResult(b) == <<ChatMessage("tool", EncodeToolResultContent(b.val), <<>>, b.id)>>

\* What the blocks of a message become.
Parts(m) == Each(EncodePart, m.content)
Calls(m) == Each(EncodeCall, OfType("tool_call", m.content))
ToolResults(m) == Each(EncodeToolResult, OfType("tool_result", m.content))
Own(m) == <<ChatMessage(m.role, Parts(m), Calls(m), Empty)>>

\* Mutant of EncodeOpenAIMessage: the words of a user before the results.
EncodeOpenAIMessageInOrder(m) ==
  IF m.role = "tool" \/ (Parts(m) = <<>> /\ Calls(m) = <<>>) THEN ToolResults(m)
  ELSE Own(m) \o ToolResults(m)

\* Mutant of EncodeOpenAIMessage: a tool's message is one like the others.
EncodeOpenAIMessageTwice(m) ==
  ToolResults(m) \o (IF Parts(m) = <<>> /\ Calls(m) = <<>> THEN <<>> ELSE Own(m))

\* The results of a user's message stand before its words.
EncodeOpenAIMessage(m) ==
  CASE m.role = "tool"                           -> ToolResults(m)
    [] m.role # "tool" /\ ToolResults(m) = <<>>  ->
         IF Parts(m) = <<>> /\ Calls(m) = <<>> THEN <<>> ELSE Own(m)
    [] m.role = "user" /\ ToolResults(m) # <<>>  ->
         ToolResults(m) \o (IF Parts(m) = <<>> THEN <<>> ELSE Own(m))
    [] OTHER                                     -> Own(m) \o ToolResults(m)

\* Mutant of ReRole: the index of the last message is one too low.
ReRoleBeforeLast(messages) ==
  [i \in DOMAIN messages |->
     IF i = Len(messages) - 1 /\ messages[i].role = "assistant" /\ messages[i].tool_calls = <<>>
     THEN [messages[i] EXCEPT !.role = "user"] ELSE messages[i]]

\* A trailing message of the assistant is sent as the user's.
ReRole(messages) ==
  [i \in DOMAIN messages |->
     IF i = Len(messages) /\ messages[i].role = "assistant" /\ messages[i].tool_calls = <<>>
     THEN [messages[i] EXCEPT !.role = "user"] ELSE messages[i]]

\* Mutant of InferToolsFromHistory: the tools of the last message only.
InferToolsFromLast(messages) ==
  LET calls == IF messages = <<>> THEN <<>> ELSE messages[Len(messages)].tool_calls
  IN  {calls[i].name : i \in DOMAIN calls} \ {Empty}

\* inferToolsFromHistory
InferToolsFromHistory(messages) ==
  LET calls == Each(LAMBDA m : m.tool_calls, messages)
  IN  {calls[i].name : i \in DOMAIN calls} \ {Empty}

\* The choice "tool" of no name asks for nothing; every other is "auto".
EncodeToolChoice(choice) ==
  CASE choice.type = Empty                         -> Empty
    [] choice.type = "required"                    -> "required"
    [] choice.type = "tool"                        -> choice.name
    [] OTHER                                       -> "auto"

\* Without tools of its own, a request names those that were called before.
EncodeOpenAIRequest(req) ==
  LET system == Each(LAMBDA b : <<ChatMessage("system", <<b>>, <<>>, Empty)>>, OfType("text", req.system))
      messages == ReRole(system \o Each(EncodeOpenAIMessage, req.messages))
  IN  [messages   |-> messages,
       tools      |-> IF req.tools = {} /\ ~req.web_search
                      THEN InferToolsFromHistory(messages) ELSE req.tools,
       choice     |-> EncodeToolChoice(req.choice),
       web_search |-> req.web_search]

(* ---------------------- the upstream's response -------------------------- *)

Said(type, text) == IF text = <<>> THEN <<>> ELSE <<Block(type, Empty, text)>>

\* Mutant of DecodeOpenAIResponse: who calls a tool says nothing.
DecodeOpenAIResponseCallsOnly(choices) ==
  LET m == Head(choices)
  IN  CASE choices = <<>>        -> <<>>
        [] choices # <<>> /\ m.tool_calls # <<>> -> Each(DecodeCall, m.tool_calls)
        [] OTHER                                 -> Said("text", m.content)

\* The message of the first choice: thinking blocks count before
\* reasoning_content, and nothing that is empty makes a block.
DecodeOpenAIResponse(choices) ==
  LET Content(m) ==
        (IF m.thinking_blocks # <<>>
         THEN Each(LAMBDA text : Said("thinking", text), m.thinking_blocks)
         ELSE Said("thinking", m.reasoning_content))
          \o Said("text", m.content) \o Each(DecodeCall, m.tool_calls)
  IN  IF choices = <<>> THEN <<>> ELSE Content(Head(choices))

\* For a client of /v1/messages; there is no output without a choice.
AnthropicAnswer(choices, hasWebSearch, results) ==
  LET content == DecodeOpenAIResponse(choices)
      output == IF choices = <<>> THEN <<>>
                ELSE InjectWebSearchBlocks(content, hasWebSearch, results)
  IN  Message("assistant", Each(EncodeBlock, output))

\* appendWebSearchFooter: to the first text, or as the only one.
AppendWebSearchFooter(content, hasWebSearch, results) ==
  LET texts == {i \in DOMAIN content : content[i].type = "text"}
  IN  IF ~hasWebSearch \/ results = <<>> THEN content
      ELSE IF texts = {} THEN Append(content, Block("text", Empty, <<Footer>>))
      ELSE [content EXCEPT ![CHOOSE i \in texts : \A j \in texts : i <= j].val = Append(@, Footer)]

\* For a client of /v1/chat/completions: EncodeOpenAIClientResponse joins the
\* texts, and writes arguments as a string again.
OpenAIAnswer(choices, hasWebSearch, results) ==
  LET content == DecodeOpenAIResponse(choices)
      output == IF choices = <<>> THEN <<>>
                ELSE AppendWebSearchFooter(content, hasWebSearch, results)
      Joined(type) == Each(LAMBDA b : b.val, OfType(type, output))
  IN  [role         |-> "assistant",
       content      |-> Said("text", Joined("text")),
       thinking     |-> Said("thinking", Joined("thinking")),
       tool_calls   |-> Each(EncodeCall, OfType("tool_call", output)),
       tool_call_id |-> Empty]

=============================================================================
