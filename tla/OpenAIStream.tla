---------------------------- MODULE OpenAIStream ----------------------------
(***************************************************************************)
(* OpenAIStreamEncoder and the loop of streamOpenAIToOpenAIClient around   *)
(* it.  The operators take the state of the loop and return the next one;  *)
(* "out" is the sequence of chunks written to the client.                  *)
(***************************************************************************)
EXTENDS StreamEvents

NewStream ==
  [started |-> FALSE, out |-> <<>>, webSearchResults |-> NoResults, usageResult |-> NoUsage]

\* A chunk of the response; role is set where the delta names the assistant.
Piece(kind, role, index, val) ==
  [kind |-> kind, role |-> role, index |-> index, val |-> val]

Write(s, piece) == [s EXCEPT !.out = Append(@, piece)]

\* Mutant of EncodeContent: the chunk that carries the role carries no content.
EncodeContentRoleAlone(s, kind, val) ==
  [Write(s, IF s.started THEN Piece(kind, FALSE, 0, val) ELSE Piece("role", TRUE, 0, Empty))
     EXCEPT !.started = TRUE]

\* Text and reasoning carry the role, if they come first.
EncodeContent(s, kind, val) ==
  [Write(s, Piece(kind, ~s.started, 0, val)) EXCEPT !.started = TRUE]

\* Mutant of EncodeCall: the chunk for the role is not remembered.
EncodeCallForgetful(s, index, id) ==
  Write(IF s.started THEN s ELSE Write(s, Piece("role", TRUE, 0, Empty)),
        Piece("call", FALSE, index, id))

\* A tool call is preceded by a chunk for the role, if it comes first.
EncodeCall(s, index, id) ==
  [Write(IF s.started THEN s ELSE Write(s, Piece("role", TRUE, 0, Empty)),
         Piece("call", FALSE, index, id)) EXCEPT !.started = TRUE]

\* OpenAIStreamEncoder.Encode; a signature has no case.
EncodeOpenAI(s, ev) ==
  CASE ev.type = "text_delta"         -> EncodeContent(s, "text", ev.val)
    [] ev.type = "thinking_delta"     -> EncodeContent(s, "reasoning", ev.val)
    [] ev.type = "thinking_signature" -> s
    [] ev.type = "tool_call_start"    -> EncodeCall(s, ev.index, ev.val)
    [] ev.type = "tool_call_delta"    -> Write(s, Piece("args", FALSE, ev.index, ev.val))
    [] ev.type = "message_stop"       -> Write(s, Piece("finish", FALSE, 0, ev.val))
    [] ev.type = "usage_final"        -> Write(s, Piece("usage", FALSE, 0, ev.val))

\* Mutant of TakeEvent: the footer follows the finish reason.
TakeEventFooterLast(s, ev) ==
  LET e == EncodeOpenAI(s, ev)
  IN  IF ev.type = "message_stop" /\ s.webSearchResults # NoResults
      THEN EncodeContent(e, "text", s.webSearchResults)
      ELSE IF ev.type = "usage_final" THEN [e EXCEPT !.usageResult = ev.val] ELSE e

\* One turn of the loop over the events of a line: the footer goes out before
\* every finish reason; the results stand for their footer.
TakeEvent(s, ev) ==
  LET f == IF ev.type = "message_stop" /\ s.webSearchResults # NoResults
           THEN EncodeContent(s, "text", s.webSearchResults) ELSE s
      e == EncodeOpenAI(f, ev)
  IN  IF ev.type = "usage_final" THEN [e EXCEPT !.usageResult = ev.val] ELSE e

\* Only the sources of a client that asked for a search are kept.
StreamSources(s, hasWebSearch, results) ==
  IF hasWebSearch THEN [s EXCEPT !.webSearchResults = results] ELSE s

StreamDone(s) == Write(s, Piece("done", FALSE, 0, Empty))

=============================================================================
