---------------------------- MODULE StreamEvents ----------------------------
(***************************************************************************)
(* The canonical events of package codec, and how DecodeOpenAIStreamLine   *)
(* takes a chunk of an upstream's stream apart into them.                  *)
(*                                                                         *)
(* A piece of text, of reasoning, of tool arguments or a signature is a    *)
(* value; Empty is the empty string.  Every event carries the response id  *)
(* and the model of the client's request, which NormalizeStreamEvent sets  *)
(* on all of them, so they are left out.                                   *)
(***************************************************************************)
EXTENDS Integers, SequencesExt

CONSTANTS
  Pieces,       \* pieces of text, reasoning, arguments; signatures
  ToolIndices,  \* ToolCallIndex values
  ToolIDs,      \* tool call ids
  Usages,       \* usage reports
  Counts,       \* token counts
  NotCounted,   \* a count an upstream leaves out
  Reasons,      \* finish reasons
  Results,      \* web search results, of the sources events of OpenWebUI
  Empty,        \* the empty string
  NoUsage,      \* a nil *Usage
  NoResults     \* a nil slice of results

ASSUME EventsAssumption ==
  /\ ToolIndices \subseteq Nat
  /\ Empty \notin Pieces \cup ToolIDs \cup Reasons
  /\ NoUsage \notin Usages
  /\ NoResults \notin Results

\* One element of delta.tool_calls: an id starts a call, arguments extend it.
Fragment == [index : ToolIndices, id : ToolIDs \cup {Empty}, args : Pieces \cup {Empty}]

\* A "data:" line with an OpenAI chunk: the first choice's delta, its finish
\* reason, and the usage.
Chunk == [thinking : Pieces \cup {Empty}, signature : Pieces \cup {Empty},
          text : Pieces \cup {Empty}, tools : Seq(Fragment),
          finish : Reasons \cup {Empty}, usage : Usages \cup {NoUsage}]

NoChunk == [thinking |-> Empty, signature |-> Empty, text |-> Empty,
            tools |-> <<>>, finish |-> Empty, usage |-> NoUsage]

Event(type, index, val) == [type |-> type, index |-> index, val |-> val]

EventTypes == {"text_delta", "thinking_delta", "thinking_signature",
               "tool_call_start", "tool_call_delta", "message_stop", "usage_final"}

StreamEvent == [type : EventTypes, index : ToolIndices \cup {0},
                val : Pieces \cup ToolIDs \cup Usages \cup Reasons]

\* The event of one field of a chunk, none if the field is empty.
FieldEvent(type, index, val) ==
  IF val = Empty THEN <<>> ELSE <<Event(type, index, val)>>

FragmentEvents(f) ==
  FieldEvent("tool_call_start", f.index, f.id)
    \o FieldEvent("tool_call_delta", f.index, f.args)

\* DecodeOpenAIStreamLine of a chunk, in the order the code appends.
DecodeOpenAIStreamLine(c) ==
  FieldEvent("thinking_delta", 0, c.thinking)
    \o FieldEvent("thinking_signature", 0, c.signature)
    \o FieldEvent("text_delta", 0, c.text)
    \o FlattenSeq([i \in DOMAIN c.tools |-> FragmentEvents(c.tools[i])])
    \o FieldEvent("message_stop", 0, c.finish)
    \o (IF c.usage = NoUsage THEN <<>> ELSE <<Event("usage_final", 0, c.usage)>>)

=============================================================================
