------------------------------ MODULE MCParser ------------------------------
(* Small instances of Parser for TLC. *)
EXTENDS Parser, TLC

F(e, d) == [event |-> e, data |-> d]

\* One frame of each meaning in the format of OpenAI ...
OpenAIFrames == {F("", "text"), F("", "bad"), F("", "done"), F("gateway_status", "valid")}

\* ... and of Anthropic.
AnthropicFrames == {F("content_block_delta", "text"), F("message_delta", "usage"), F("message_stop", "object"),
                    F("error", "object"), F("ping", "object"), F("", "object")}

BothFormats == "openai" :> OpenAIFrames @@ "anthropic" :> AnthropicFrames
=============================================================================
