----------------------- MODULE MCAnthropicPassthrough -----------------------
(* An upstream that sends anything, and one that keeps to the API: see       *)
(* AnthropicPassthrough.cfg.                                                 *)
EXTENDS AnthropicPassthrough

CONSTANTS hello, world, id0, id1, stop, news, other

u1 == [tokens |-> 1, cached |-> 1]
u2 == [tokens |-> 2, cached |-> NotCounted]
u3 == [tokens |-> 2, cached |-> 0]

MCUsages == {u1, u2, u3}

\* Argument texts are JSON when they begin with world; the shortest has an
\* integer that is rounded.
MCObjects == {<<world>>, <<world, hello>>, <<world, hello, hello>>}
MCReparsed == [args \in MCObjects |-> IF args = <<world>> THEN <<hello>> ELSE args]

Tool(index, id, args) == [index |-> index, id |-> id, args |-> args]

Only(f) == [NoChunk EXCEPT !.tools = <<f>>]

CommonChunks ==
  { [NoChunk EXCEPT !.thinking = hello],
    [NoChunk EXCEPT !.text = hello],
    [NoChunk EXCEPT !.text = world],
    [NoChunk EXCEPT !.thinking = hello, !.signature = world, !.text = world],
    Only(Tool(0, id0, Empty)), Only(Tool(0, Empty, hello)),
    Only(Tool(1, id1, world)), Only(Tool(1, Empty, hello)),
    [NoChunk EXCEPT !.finish = stop],
    [NoChunk EXCEPT !.usage = u1] }

\* What an upstream sends that keeps to the API.
OrderedChunks == CommonChunks \cup
  { [NoChunk EXCEPT !.text = hello, !.tools = <<Tool(0, id0, world)>>],
    [NoChunk EXCEPT !.finish = stop, !.usage = u2],
    [NoChunk EXCEPT !.usage = u3],
    [NoChunk EXCEPT !.text = world, !.finish = stop] }

\* Anything: fragments of several calls in one chunk, text among them, usage
\* reports before the end.
AnyChunks == CommonChunks \cup
  { [NoChunk EXCEPT !.signature = world],
    [NoChunk EXCEPT !.text = hello, !.tools = <<Tool(1, id1, Empty), Tool(0, Empty, world)>>],
    [NoChunk EXCEPT !.finish = stop, !.usage = u2],
    NoChunk }

MCChunks == [conforming \in BOOLEAN |-> IF conforming THEN OrderedChunks ELSE AnyChunks]
MCMaxLines == [conforming \in BOOLEAN |-> IF conforming THEN 6 ELSE 4]

=============================================================================
