---------------------------- MODULE ContentBlocks ----------------------------
(***************************************************************************)
(* Content blocks, and those of a whole response in the words of           *)
(* /v1/messages.                                                           *)
(***************************************************************************)
EXTENDS Sequences

CONSTANT Empty  \* the empty string

Block(type, id, val) == [type |-> type, id |-> id, val |-> val]

\* injectWebSearchBlocks: they stand first, with or without results.
InjectWebSearchBlocks(content, hasWebSearch, results) ==
  IF hasWebSearch THEN <<Block("web_search", Empty, results)>> \o content ELSE content

\* One canonical block as EncodeAnthropicClientResponse writes it.
EncodeBlock(b) ==
  CASE b.type = "tool_call"  -> <<[b EXCEPT !.type = "tool_use"]>>
    [] b.type = "web_search" -> <<Block("server_tool_use", Empty, Empty),
                                  Block("web_search_tool_result", Empty, b.val)>>
    [] OTHER                 -> <<b>>

=============================================================================
