-------------------------- MODULE MCProviderStream --------------------------
(* Six replies: text; text with two tool blocks whose deltas interleave;   *)
(* a tool without input between pings; one broken off by an error event;   *)
(* one whose tool input is cut at the token limit; an unknown stop reason. *)
EXTENDS ProviderStream

CONSTANTS callA, callB

Start == [type |-> "message_start", input |-> 2, output |-> 1]
TextBlock(i) == [type |-> "content_block_start", index |-> i, block |-> "text"]
ToolBlock(i, c) == [type |-> "content_block_start", index |-> i, block |-> "tool_use", id |-> c]
Delta(i, t) == [type |-> "text_delta", index |-> i, text |-> t]
Input(i, c, h) == [type |-> "input_json_delta", index |-> i, part |-> [call |-> c, half |-> h]]
BlockEnd(i) == [type |-> "content_block_stop", index |-> i]
Message(r, n) == [type |-> "message_delta", reason |-> r, output |-> n]
MessageEnd == [type |-> "message_stop"]
Ping == [type |-> "ping"]
ErrorSent == [type |-> "error"]

MCReplies == {
  <<Start, TextBlock(0), Delta(0, 1), Delta(0, 2), BlockEnd(0), Message(NoReason, 2),
    Message("end_turn", 3), MessageEnd>>,
  <<Start, TextBlock(0), Delta(0, 1), BlockEnd(0), ToolBlock(1, callA), ToolBlock(2, callB),
    Input(1, callA, "first"), Input(2, callB, "first"), Input(1, callA, "second"), BlockEnd(1),
    Input(2, callB, "second"), BlockEnd(2), Message("tool_use", 3), MessageEnd>>,
  <<Start, Ping, ToolBlock(0, callA), BlockEnd(0), Ping, Message("tool_use", 2), MessageEnd>>,
  <<Start, TextBlock(0), Delta(0, 1), ErrorSent>>,
  <<Start, ToolBlock(0, callA), Input(0, callA, "first"), BlockEnd(0), Message("max_tokens", 4),
    MessageEnd>>,
  <<Start, TextBlock(0), Delta(0, 1), BlockEnd(0), Message("refusal", 1), MessageEnd>>}
=============================================================================
