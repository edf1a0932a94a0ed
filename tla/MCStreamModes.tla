---------------------------- MODULE MCStreamModes ----------------------------
(* An upstream that sends anything, and one that keeps to the API: see       *)
(* StreamModes.cfg.                                                          *)
EXTENDS StreamModes

CONSTANTS a, b, id0, id1, stop, length, found, other

Tool(index, id, args) == [index |-> index, id |-> id, args |-> args]

u1 == [tokens |-> 1, cached |-> 1]
u2 == [tokens |-> 2, cached |-> NotCounted]

MCUsages == {u1, u2}

\* Argument texts are JSON when they end with b; one of them has an integer
\* that is rounded.
MCObjects == {<<b>>, <<a, b>>, <<a, a, b>>}
MCReparsed == [args \in MCObjects |-> IF args = <<a, b>> THEN <<b>> ELSE args]

CommonChunks ==
  { [NoChunk EXCEPT !.thinking = a],
    [NoChunk EXCEPT !.text = a],
    [NoChunk EXCEPT !.thinking = b, !.signature = a, !.text = b],
    [NoChunk EXCEPT !.tools = <<Tool(0, id0, Empty)>>],
    [NoChunk EXCEPT !.tools = <<Tool(0, Empty, a)>>],
    [NoChunk EXCEPT !.tools = <<Tool(1, id1, b)>>],
    [NoChunk EXCEPT !.finish = stop],
    [NoChunk EXCEPT !.finish = length, !.usage = u1] }

\* Two calls in one chunk, and fragments of both in another.
OrderedChunks == CommonChunks \cup
  { [NoChunk EXCEPT !.tools = <<Tool(0, id0, a), Tool(1, id1, Empty)>>],
    [NoChunk EXCEPT !.text = a, !.tools = <<Tool(1, Empty, b), Tool(0, Empty, b)>>],
    [NoChunk EXCEPT !.usage = u2] }

\* Usage reports at any time.
AnyChunks == CommonChunks \cup
  { [NoChunk EXCEPT !.text = b, !.usage = u2],
    [NoChunk EXCEPT !.signature = b],
    NoChunk }

MCChunks == [conforming \in BOOLEAN |-> IF conforming THEN OrderedChunks ELSE AnyChunks]
MCMaxLines == [conforming \in BOOLEAN |-> IF conforming THEN 6 ELSE 4]

=============================================================================
