---------------------------- MODULE MCConversation ---------------------------
(***************************************************************************)
(* Instance of Conversation: two answers, so that what was said comes back *)
(* and its calls are run; one or two blocks in a message, of every kind.   *)
(***************************************************************************)
EXTENDS Conversation

CONSTANTS hello, picture, sure, word, thought, rules, printed,
          json, exact, rounded, broken, absent

Text(piece) == Block("text", Empty, <<piece>>)
Image(source) == Block("image", source, picture)
NoData == Block("image", "base64", Empty)

MCPieces == {hello, sure, word, thought, rules, printed, Footer}
MCPictures == {picture, Empty}
MCContents == {<<Image("url"), NoData>>, <<Image("other"), Image("base64"), Text(hello)>>}
MCPrefills == {<<Text(sure)>>}
MCInstructions == {<<Text(rules)>>}
MCOutcomes == {[content |-> <<Text(printed)>>, is_error |-> FALSE],
               [content |-> <<NoData>>, is_error |-> TRUE],
               [content |-> <<Image("base64"), Text(printed)>>, is_error |-> TRUE]}
MCNames == {"get", "put"}
MCArguments == {json, exact, rounded, broken, absent, Null}
MCReparsed == [a \in MCArguments |->
                 CASE a \in {json, rounded} -> a
                   [] a = exact             -> rounded
                   [] OTHER                 -> Null]

Choice(type, name) == [type |-> type, name |-> name]
Both(choice) == [anthropic |-> choice, openai |-> choice]
MCOffers ==
  {[system |-> <<>>, tools |-> {}, web_search |-> w,
    choice |-> IF w THEN [anthropic |-> Choice("any", Empty), openai |-> Choice("required", Empty)]
               ELSE Both(Choice("none", Empty))] : w \in BOOLEAN}
  \cup {[system |-> i, tools |-> {"get"}, web_search |-> c.anthropic.type = "tool", choice |-> c] :
          i \in MCInstructions,
          c \in {Both(Choice("auto", Empty)),
                 [anthropic |-> Choice("tool", "get"), openai |-> Choice("function", "get")]}}

Says(thinking, reasoning, content, calls) ==
  [thinking_blocks |-> thinking, reasoning_content |-> reasoning, content |-> content,
   tool_calls |-> calls]
Call(name, args) == [name |-> name, args |-> args]

MCResponses ==
  {<<>>,
   <<Says(<<>>, <<>>, <<word>>, <<>>)>>,
   <<Says(<<>>, <<thought>>, <<>>, <<Call("get", exact)>>)>>,
   <<Says(<<<<>>, <<thought>>>>, <<thought>>, <<word>>, <<Call("get", json), Call("put", broken)>>)>>}

MCSourceLists == {<<>>, <<"source">>}

=============================================================================
