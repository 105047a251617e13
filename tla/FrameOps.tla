------------------------------ MODULE FrameOps ------------------------------
(***************************************************************************)
(* internal/parser: what the parser and runAttempt make of one SSE frame.  *)
(* A frame is its event line ("" when there is none) and what its joined   *)
(* data lines are: missing, the [DONE] marker, no JSON, or JSON with text, *)
(* with a usage count, valid for a gateway event, or with none of these.   *)
(***************************************************************************)

Payloads == {"none", "done", "bad", "text", "usage", "valid", "object"}

GatewayEvents == {"gateway_status", "gateway_failover", "gateway_regenerating", "gateway_truncated"}
AnthropicEvents == {"content_block_delta", "message_delta", "message_stop", "error", "ping"}

RawFrames == [event : {""} \cup GatewayEvents \cup AnthropicEvents, data : Payloads]

\* What runAttempt does with a frame: forward it (with text or blank), take its
\* usage, skip it, end with success, or fail.
Meanings == {"text", "blank", "usage", "skip", "done", "malformed"}

\* parseAnthropicFrame.  A frame without an event line keeps the empty event,
\* which runAttempt takes for content; unknown events are skipped.
ParseAnthropicFrame(f) ==
    CASE f.event \in {"content_block_delta", "message_delta"} /\ f.data = "bad" -> "malformed"
      [] f.event = "content_block_delta" /\ f.data = "text" -> "text"
      [] f.event = "message_delta" /\ f.data = "usage" -> "usage"
      [] f.event = "message_stop" -> "done"
      [] f.event = "error" -> "malformed"
      [] f.event = "" -> "blank"
      [] OTHER -> "skip"

\* extractContent: JSON without a choice, or a delta without content, is blank.
ExtractContent(f) ==
    CASE f.data = "bad" -> "malformed"
      [] f.data = "text" -> "text"
      [] OTHER -> "blank"

\* validateGatewayEvent: the events of another gateway are checked and skipped,
\* any other named event is refused.
ValidateGatewayEvent(f) ==
    IF f.event \in GatewayEvents /\ f.data = "valid" THEN "skip" ELSE "malformed"

\* ParseFrameForProvider
ParseFrame(f, format) ==
    CASE f.data = "none" -> "malformed"
      [] f.data = "done" -> "done"
      [] f.data \notin {"none", "done"} /\ format = "anthropic" -> ParseAnthropicFrame(f)
      [] f.data \notin {"none", "done"} /\ format # "anthropic" /\ f.event = "" -> ExtractContent(f)
      [] OTHER -> ValidateGatewayEvent(f)

\* classify
Classify(err) == IF err \in {"malformed", "silent_hang"} THEN err ELSE "dead_socket"
=============================================================================
