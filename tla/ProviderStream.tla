--------------------------- MODULE ProviderStream ---------------------------
(***************************************************************************)
(* The provider adapter (crates/agent/src/anthropic.rs): pump_sse cuts the *)
(* body of a reply into server-sent events wherever the network cut it     *)
(* into chunks, translates them, and sends ProviderEvents down a channel   *)
(* that one of three readers consumes up to its first Stop: the agent loop *)
(* (AgentSession::run), synth_gen's synth_one_chunk, which runs under the  *)
(* retry policy of crates/orchestrator/src/retry.rs, and run_eval's judge. *)
(*                                                                         *)
(* A body is a sequence of tokens: an event: line, a data: line (the event *)
(* its JSON stands for), and the bytes CR and LF.                          *)
(***************************************************************************)
EXTENDS Integers, Sequences, SequencesExt, FiniteSetsExt

CONSTANTS
  Replies,      \* the event sequences a server may send
  MaxAttempts,  \* BackoffPolicy.max_attempts
  BaseDelay,    \* BackoffPolicy.base_delay
  MaxDelay      \* BackoffPolicy.max_delay

VARIABLES
  kind,         \* who reads
  at,           \* where the reader is
  attempt,      \* with_backoff's attempt, 0-based
  waited,       \* time spent in backoff
  result,       \* what the reader ended with
  reply,        \* the server's reply on the connection
  style,        \* its line ends
  delivered,    \* tokens of the body that have arrived
  pump,         \* where pump_sse is
  buf,          \* its buffer
  tool_inputs,  \* StreamState.tool_inputs: the live blocks, by index
  stop_reason,  \* StreamState.stop_reason
  usage,        \* StreamState.input_tokens, output_tokens
  sent,         \* all ProviderEvents sent on the channel
  read          \* how many of them the reader has taken

readervars == <<kind, at, attempt, waited, result>>
statevars == <<tool_inputs, stop_reason, usage>>
netvars == <<reply, style, delivered>>
vars == <<readervars, netvars, pump, buf, statevars, sent, read>>

Kinds == {"session", "synth", "judge"}
NoReason == "none"
NoUsage == [input |-> 0, output |-> 0]

---------------------------------------------------------------------------
(* What a server sends                                                     *)

StopReasons == {"end_turn", "max_tokens", "stop_sequence", "tool_use"}

\* Positions of the events of these types in a reply.
At(r, types) == {i \in DOMAIN r : r[i].type \in types}

BlockEvents == {"content_block_start", "text_delta", "input_json_delta", "content_block_stop"}
EventTypes == BlockEvents \cup {"message_start", "message_delta", "message_stop", "error", "ping"}

\* A reply opens with message_start; a block's deltas lie between its start
\* and its stop; message_delta comes after the blocks, and the stop reason in
\* the last of them; nothing follows message_stop or an error.
IsReply(r) ==
  /\ r # <<>> /\ r \in Seq({r[i] : i \in DOMAIN r})
  /\ At(r, EventTypes) = DOMAIN r /\ At(r, {"message_start"}) = {1}
  /\ \A i \in At(r, {"message_stop", "error"}) : i = Len(r)
  /\ \A i \in At(r, {"text_delta", "input_json_delta", "content_block_stop"}) :
       \E j \in At(r, {"content_block_start"}) :
         /\ j < i /\ r[j].index = r[i].index
         /\ \A k \in At(r, {"content_block_stop"}) : r[k].index = r[i].index => k >= i
  /\ \A i, j \in At(r, {"content_block_start"}) : r[i].index = r[j].index => i = j
  /\ \A i \in At(r, {"message_delta"}), j \in At(r, BlockEvents) : j < i
  /\ \A i, j \in At(r, {"message_delta"}) : r[i].reason # NoReason => j <= i

ASSUME StreamAssumption ==
  /\ \A r \in Replies : IsReply(r)
  /\ MaxAttempts \in Nat \ {0} /\ BaseDelay \in Nat /\ MaxDelay \in Nat

LF == [type |-> "LF"]
CR == [type |-> "CR"]
Header == [type |-> "event:"]
IsData(t) == t.type \notin {"LF", "CR", "event:"}

\* One event on the wire, and how many tokens that is.
Frame(e, s) ==
  IF s = "LF" THEN <<Header, LF, e, LF, LF>> ELSE <<Header, CR, LF, e, CR, LF, CR, LF>>
Width(s) == IF s = "LF" THEN 5 ELSE 8

\* The body of a reply: the frames of its events, one after the other.
Body(r, s) ==
  [i \in 1..(Width(s) * Len(r)) |-> Frame(r[((i - 1) \div Width(s)) + 1], s)[((i - 1) % Width(s)) + 1]]

---------------------------------------------------------------------------
(* ProviderEvent                                                           *)

Text(t) == [type |-> "Text", text |-> t]
ToolCall(id, input) == [type |-> "ToolCall", id |-> id, input |-> input]
ToolResultRequested == [type |-> "ToolResultRequested"]
Usage(u) == [type |-> "Usage", usage |-> u]
Stop(reason) == [type |-> "Stop", reason |-> reason]

\* StopReason::Error, whatever its message.
Error == "error"

---------------------------------------------------------------------------
(* Framing: find_event_boundary, parse_sse_block                           *)

Occurrences(b, needle) ==
  {i \in 1..(Len(b) - Len(needle) + 1) : \A j \in DOMAIN needle : b[i + j - 1] = needle[j]}

\* A mutated form: the last blank line of the buffer ends the event.
LastBoundary(b) ==
  IF Occurrences(b, <<LF, LF>>) # {}
  THEN [payload |-> Max(Occurrences(b, <<LF, LF>>)) - 1, end |-> Max(Occurrences(b, <<LF, LF>>)) + 1]
  ELSE IF Occurrences(b, <<CR, LF, CR, LF>>) # {}
  THEN [payload |-> Max(Occurrences(b, <<CR, LF, CR, LF>>)) - 1,
        end |-> Max(Occurrences(b, <<CR, LF, CR, LF>>)) + 3]
  ELSE [payload |-> 0, end |-> 0]

\* The first \n\n, and only when there is none the first \r\n\r\n; end = 0
\* stands for None.
Boundary(b) ==
  IF Occurrences(b, <<LF, LF>>) # {}
  THEN [payload |-> Min(Occurrences(b, <<LF, LF>>)) - 1, end |-> Min(Occurrences(b, <<LF, LF>>)) + 1]
  ELSE IF Occurrences(b, <<CR, LF, CR, LF>>) # {}
  THEN [payload |-> Min(Occurrences(b, <<CR, LF, CR, LF>>)) - 1,
        end |-> Min(Occurrences(b, <<CR, LF, CR, LF>>)) + 3]
  ELSE [payload |-> 0, end |-> 0]

\* The data lines of a block are joined: two events in one block are no JSON,
\* and such a block is skipped, as one without data is.
Parsed(block) ==
  LET data == {i \in DOMAIN block : IsData(block[i])}
  IN IF \E i \in data : data = {i} THEN block[CHOOSE i \in data : TRUE] ELSE [type |-> "skipped"]

---------------------------------------------------------------------------
(* The retry policy                                                        *)

\* A mutated form: the exponential is not capped.
DelayUncapped(n) == IF n = 0 THEN 0 ELSE BaseDelay * 2^(n - 1)

\* base * 2^k
Doubled[k \in 0..16] == IF k = 0 THEN BaseDelay ELSE 2 * Doubled[k - 1]

\* delay_for: base * 2^(attempt - 1), the exponent capped at 16, the delay at
\* max_delay; none before the first attempt.
DelayFor(n) ==
  IF n = 0 THEN 0 ELSE Min({Doubled[Min({n - 1, 16})], MaxDelay})

---------------------------------------------------------------------------
Indices == UNION {{r[i].index : i \in At(r, {"content_block_start"})} : r \in Replies}

\* A prefix of what has been sent is what has been read.
Received == SubSeq(sent, 1, read)

TypeOK ==
  /\ kind \in Kinds /\ at \in {"opening", "reading", "backoff", "done"}
  /\ attempt \in 0..(MaxAttempts - 1) /\ waited \in 0..(attempt * MaxDelay)
  /\ result \in {"none", "complete", "broken", "refused", "unparsed"}
  /\ reply \in Replies \cup {<<>>} /\ style \in {"LF", "CRLF"}
  /\ delivered \in 0..Len(Body(reply, style))
  /\ pump \in {"none", "read", "drain", "flush", "closed"}
  /\ DOMAIN tool_inputs \subseteq Indices
  /\ stop_reason \in StopReasons \cup {Error, NoReason}
  /\ read \in 0..Len(sent)

NoConnection ==
  /\ pump = "none"
  /\ reply = <<>> /\ style = "LF" /\ delivered = 0
  /\ buf = <<>> /\ tool_inputs = <<>> /\ stop_reason = NoReason /\ usage = NoUsage
  /\ sent = <<>> /\ read = 0

\* A stream with fresh state, on reply r or on none.
Connects(to, r, s) ==
  /\ pump' = to
  /\ reply' = r /\ style' = s /\ delivered' = 0
  /\ buf' = <<>> /\ tool_inputs' = <<>> /\ stop_reason' = NoReason /\ usage' = NoUsage
  /\ sent' = <<>> /\ read' = 0

Init ==
  /\ kind \in Kinds /\ at = "opening" /\ attempt = 0 /\ waited = 0 /\ result = "none"
  /\ NoConnection

---------------------------------------------------------------------------
(* Provider::stream                                                        *)

\* The request is answered with success: a pump is spawned for its body.
Opens(r, s) ==
  /\ at = "opening"
  /\ at' = "reading"
  /\ Connects("read", r, s)
  /\ UNCHANGED <<kind, attempt, waited, result>>

Ends(how) ==
  /\ at' = "done" /\ result' = how
  /\ UNCHANGED <<attempt, waited>>

\* A transient failure of synth_one_chunk: the next attempt after a pause, or
\* the last error when there is none left.
Transient(how) ==
  IF attempt + 1 < MaxAttempts
  THEN at' = "backoff" /\ attempt' = attempt + 1 /\ UNCHANGED <<waited, result>>
  ELSE Ends(how)

\* stream() fails: a status 429 or 5xx is transient to synth_one_chunk, any
\* other failure permanent; the other readers do not retry.
Refused(retryable) ==
  /\ at = "opening"
  /\ IF kind = "synth" /\ retryable THEN Transient("refused") ELSE Ends("refused")
  /\ UNCHANGED <<kind, netvars, pump, buf, statevars, sent, read>>

BackoffOver ==
  /\ at = "backoff"
  /\ at' = "opening"
  /\ waited' = waited + DelayFor(attempt)
  /\ UNCHANGED <<kind, attempt, result, netvars, pump, buf, statevars, sent, read>>

---------------------------------------------------------------------------
(* pump_sse and drain_events                                               *)

\* The next n tokens of the body arrive as one chunk.
Chunk(n) ==
  /\ pump = "read"
  /\ delivered + n <= Len(Body(reply, style))
  /\ delivered' = delivered + n
  /\ buf' = buf \o SubSeq(Body(reply, style), delivered + 1, delivered + n)
  /\ pump' = "drain"
  /\ UNCHANGED <<readervars, reply, style, statevars, sent, read>>

\* The body ends, wherever the connection was cut.
EndOfBody ==
  /\ pump = "read"
  /\ pump' = "flush"
  /\ UNCHANGED <<readervars, netvars, buf, statevars, sent, read>>

\* The byte stream fails: the pump returns at once.
ByteError ==
  /\ pump = "read"
  /\ pump' = "closed"
  /\ sent' = Append(sent, Stop(Error))
  /\ UNCHANGED <<readervars, netvars, buf, statevars, read>>

Draining == pump \in {"drain", "flush"}

\* The next event of the buffer is e, and its bytes are taken out.
Takes(e) ==
  /\ Draining
  /\ LET b == Boundary(buf)
     IN /\ b.end > 0
        /\ e = Parsed(SubSeq(buf, 1, b.payload))
        /\ buf' = SubSeq(buf, b.end + 1, Len(buf))
  /\ UNCHANGED <<readervars, netvars, pump, read>>

NextEvent == Parsed(SubSeq(buf, 1, Boundary(buf).payload))

MessageStart(e) ==
  /\ e.type = "message_start" /\ Takes(e)
  /\ usage' = [input |-> e.input, output |-> e.output]
  /\ UNCHANGED <<tool_inputs, stop_reason, sent>>

\* A mutated form: one buffer for all blocks.
BlockStartShared(e) ==
  /\ e.type = "content_block_start" /\ Takes(e)
  /\ tool_inputs' = IF e.block = "tool_use"
                    THEN [i \in {e.index} |-> [id |-> e.id, json |-> <<>>]] ELSE tool_inputs
  /\ UNCHANGED <<stop_reason, usage, sent>>

\* A tool_use block gets a buffer of its own; a text block none.
BlockStart(e) ==
  /\ e.type = "content_block_start" /\ Takes(e)
  /\ tool_inputs' = IF e.block = "tool_use"
                    THEN [i \in DOMAIN tool_inputs \cup {e.index} |->
                            IF i = e.index THEN [id |-> e.id, json |-> <<>>] ELSE tool_inputs[i]]
                    ELSE tool_inputs
  /\ UNCHANGED <<stop_reason, usage, sent>>

TextDelta(e) ==
  /\ e.type = "text_delta" /\ Takes(e)
  /\ sent' = Append(sent, Text(e.text))
  /\ UNCHANGED statevars

InputJsonDelta(e) ==
  /\ e.type = "input_json_delta" /\ Takes(e)
  /\ tool_inputs' = IF e.index \in DOMAIN tool_inputs
                    THEN [tool_inputs EXCEPT ![e.index] = [id |-> @.id, json |-> Append(@.json, e.part)]]
                    ELSE tool_inputs
  /\ UNCHANGED <<stop_reason, usage, sent>>

\* The text of a tool's input is an object when it is whole; no text at all
\* means the empty object.
Parses(json) == [i \in DOMAIN json |-> json[i].half] \in {<<>>, <<"first", "second">>}

\* A tool_use block is complete: its call goes out, or a Stop if its input is
\* malformed, and the pump reads on either way.
BlockStop(e) ==
  /\ e.type = "content_block_stop" /\ Takes(e)
  /\ IF e.index \notin DOMAIN tool_inputs
     THEN UNCHANGED <<tool_inputs, sent>>
     ELSE LET b == tool_inputs[e.index]
          IN /\ tool_inputs' = [i \in DOMAIN tool_inputs \ {e.index} |-> tool_inputs[i]]
             /\ sent' = sent \o IF Parses(b.json) THEN <<ToolCall(b.id, b.json), ToolResultRequested>>
                                                  ELSE <<Stop(Error)>>
  /\ UNCHANGED <<stop_reason, usage>>

\* The reason is kept for the end of the body; the output count is cumulative
\* and overwrites the last.
MessageDelta(e) ==
  /\ e.type = "message_delta" /\ Takes(e)
  /\ stop_reason' = IF e.reason = NoReason THEN stop_reason
                    ELSE IF e.reason \in StopReasons THEN e.reason ELSE Error
  /\ usage' = [usage EXCEPT !.output = e.output]
  /\ UNCHANGED <<tool_inputs, sent>>

\* An error event: a Stop at once, and the pump reads on.
ErrorEvent(e) ==
  /\ e.type = "error" /\ Takes(e)
  /\ sent' = Append(sent, Stop(Error))
  /\ UNCHANGED statevars

Ignored(e) ==
  /\ e.type \in {"ping", "message_stop", "skipped"} /\ Takes(e)
  /\ UNCHANGED <<statevars, sent>>

Dispatch ==
  /\ Draining
  /\ \E e \in {NextEvent} :
       \/ MessageStart(e) \/ BlockStart(e) \/ TextDelta(e) \/ InputJsonDelta(e)
       \/ BlockStop(e) \/ MessageDelta(e) \/ ErrorEvent(e) \/ Ignored(e)

Drained ==
  /\ pump = "drain" /\ Boundary(buf).end = 0
  /\ pump' = "read"
  /\ UNCHANGED <<readervars, netvars, buf, statevars, sent, read>>

\* A mutated form: a body that ends inside an event waits for the rest of it.
FinishesWhenEmpty ==
  /\ pump = "flush" /\ buf = <<>>
  /\ pump' = "closed"
  /\ sent' = sent \o (IF usage = NoUsage THEN <<>> ELSE <<Usage(usage)>>)
                  \o <<Stop(IF stop_reason = NoReason THEN Error ELSE stop_reason)>>
  /\ UNCHANGED <<readervars, netvars, buf, statevars, read>>

\* A mutated form: a body without a stop reason is not reported at all.
FinishesSilently ==
  /\ pump = "flush" /\ Boundary(buf).end = 0
  /\ pump' = "closed"
  /\ sent' = sent \o (IF stop_reason = NoReason THEN <<>> ELSE <<Usage(usage), Stop(stop_reason)>>)
  /\ UNCHANGED <<readervars, netvars, buf, statevars, read>>

\* The end of the body: the totals, if any were reported, and the Stop; an
\* error if no stop reason came.
Finishes ==
  /\ pump = "flush" /\ Boundary(buf).end = 0
  /\ pump' = "closed"
  /\ sent' = sent \o (IF usage = NoUsage THEN <<>> ELSE <<Usage(usage)>>)
                  \o <<Stop(IF stop_reason = NoReason THEN Error ELSE stop_reason)>>
  /\ UNCHANGED <<readervars, netvars, buf, statevars, read>>

---------------------------------------------------------------------------
(* The readers                                                             *)

\* The agent loop keeps what came before an error; a judge or a synthesis
\* parses what it got, and parsing may fail; a broken synthesis is retried.
StopsOn(reason) ==
  \/ reason = Error /\ kind = "synth" /\ Transient("broken")
  \/ reason = Error /\ kind # "synth" /\ Ends("broken")
  \/ reason # Error /\ Ends("complete")
  \/ reason # Error /\ kind # "session" /\ Ends("unparsed")

\* The next event is taken, and a Stop leaves the loop; a channel that closes
\* without one does too, as if the reply had ended well. A retry drops the
\* stream and what was read of it.
Reads ==
  /\ at = "reading" /\ (read < Len(sent) \/ pump = "closed")
  /\ LET e == IF read < Len(sent) THEN sent[read + 1] ELSE Stop("end_turn")
     IN IF e.type = "Stop" THEN StopsOn(e.reason) ELSE UNCHANGED <<at, attempt, waited, result>>
  /\ IF at' = "backoff" THEN Connects("none", <<>>, "LF")
     ELSE /\ read' = Min({read + 1, Len(sent)})
          /\ UNCHANGED <<netvars, pump, buf, statevars, sent>>
  /\ UNCHANGED kind

---------------------------------------------------------------------------
Pump ==
  /\ at = "reading"  \* nobody sees what a pump sends when its reader has left
  /\ \/ \E n \in 1..Len(Body(reply, style)) : Chunk(n)
     \/ EndOfBody \/ ByteError \/ Dispatch \/ Drained \/ Finishes

Next ==
  \/ \E r \in Replies, s \in {"LF", "CRLF"} : Opens(r, s)
  \/ \E retryable \in BOOLEAN : Refused(retryable)
  \/ BackoffOver \/ Pump \/ Reads

\* The pump and the readers run; whether a body goes on is the network's doing.
Fairness ==
  /\ WF_vars(at = "reading" /\ (Dispatch \/ Drained \/ Finishes))
  /\ WF_vars(Reads) /\ WF_vars(BackoffOver)

Spec == Init /\ [][Next]_vars /\ Fairness

---------------------------------------------------------------------------
(* Properties                                                              *)

\* The values of f at the positions up to n, in the order of the positions.
InOrder(f, n) ==
  LET upto[k \in 0..n] ==
        IF k = 0 THEN <<>> ELSE IF k \in DOMAIN f THEN Append(upto[k - 1], f[k]) ELSE upto[k - 1]
  IN upto[n]

\* The events of one type.
Only(events, type) == [i \in At(events, {type}) |-> events[i]]
TextOf(events) == InOrder(Only(events, "Text"), Len(events))
CallsOf(events) == InOrder(Only(events, "ToolCall"), Len(events))
UsageOf(events) == InOrder(Only(events, "Usage"), Len(events))

\* What the server sent as text.
Texts(r) == [i \in At(r, {"text_delta"}) |-> Text(r[i].text)]

\* The tool calls of a reply, in the order in which their blocks end, each
\* with the input that was sent for its block and no other.
StartOf(r, x) == r[CHOOSE j \in At(r, {"content_block_start"}) : r[j].index = x]
Parts(r, x) == [i \in {j \in At(r, {"input_json_delta"}) : r[j].index = x} |-> r[i].part]
ToolEnds(r) == {i \in At(r, {"content_block_stop"}) : StartOf(r, r[i].index).block = "tool_use"}
Calls(r) ==
  [i \in ToolEnds(r) |-> ToolCall(StartOf(r, r[i].index).id, InOrder(Parts(r, r[i].index), Len(r)))]

ReplyText(r) == InOrder(Texts(r), Len(r))
ReplyCalls(r) == InOrder(Calls(r), Len(r))

\* What a reply ends with: the totals, if it has any, and the reason.
LastDelta(r) == r[Max(At(r, {"message_delta"}))]
ReplyUsage(r) ==
  LET totals == [input |-> r[1].input, output |-> LastDelta(r).output]
  IN IF totals = NoUsage THEN <<>> ELSE <<Usage(totals)>>

\* A reader that ends without an error has read the whole reply, however the
\* network cut it and wherever the connection was lost: all its text, every
\* tool call with its own whole input, and the final totals once. Whatever is
\* cut short, malformed or reported as an error never passes for an answer.
AnswerIsWhole ==
  result \in {"complete", "unparsed"} =>
    /\ At(reply, {"message_delta"}) # {}
    /\ TextOf(Received) = ReplyText(reply)
    /\ CallsOf(Received) = ReplyCalls(reply)
    /\ UsageOf(Received) = ReplyUsage(reply)
    /\ Last(Received) = Stop(LastDelta(reply).reason)

\* At any time, and even if it ends in an error, what a reader has taken is a
\* prefix of what the server sent: no chunk boundary drops, repeats or reorders
\* a delta, and no tool call carries another block's input.
ReadsAPrefix ==
  /\ IsPrefix(TextOf(Received), ReplyText(reply))
  /\ IsPrefix(CallsOf(Received), ReplyCalls(reply))

\* A reader still in its loop never finds the channel closed and empty, which
\* it would take for a good end: the pump leaves a Stop on every way out, and
\* no reader goes on past one.
NeverEndsSilently == at = "reading" /\ pump = "closed" => read < Len(sent)

\* Once the body has ended or failed, its reader leaves the loop.
EndReachesReader == pump \in {"flush", "closed"} ~> at # "reading"
=============================================================================
