---------------------------- MODULE WireProtocol ----------------------------
(***************************************************************************)
(* What the gateway promises its clients about their streams: the order of *)
(* the gateway events of the wire protocol and what their counters mean.   *)
(* Stream implements this, with one client per request.                    *)
(***************************************************************************)
EXTENDS Integers, Sequences, SequencesExt, Functions

CONSTANTS Clients,  \* the clients of streams
          Exact     \* whether upstreams leave the gateway's token counts alone

VARIABLES wire,     \* events and content written to each client so far
          ended     \* whether the handler is done with the client's stream

vars == <<wire, ended>>

\* Why a provider is given up, and why a stream is.
FailoverReasons == {"dead_socket", "silent_hang", "malformed"}
TruncatedReasons == {"all_providers_exhausted", "budget_exceeded"}

\* Tokens of the content at the places S of w, of all of it, and of the content since
\* the last failover.
TokensAt(w, S) ==
    SumFunctionOnSet([x \in DOMAIN w |-> IF w[x].event = "content" THEN w[x].n ELSE 0], S)
Delivered(w) == TokensAt(w, DOMAIN w)
SinceFailover(w) ==
    TokensAt(w, {x \in DOMAIN w : \A y \in DOMAIN w : x < y => w[y].event # "failover"})

Init == /\ wire = [c \in Clients |-> <<>>]
        /\ ended = [c \in Clients |-> FALSE]

\* Streaming: gateway_status was sent and nothing terminal.
Open(c) == wire[c] # <<>> /\ ~ended[c] /\ Last(wire[c]).event # "truncated"

\* Only c is written to, n events and behind what it already got; the x-th of them.
Writes(c, n) == /\ Len(wire'[c]) = Len(wire[c]) + n
                /\ \A x \in DOMAIN wire[c] : wire'[c][x] = wire[c][x]
                /\ \A d \in Clients \ {c} : wire'[d] = wire[d]
                /\ UNCHANGED ended
Sent(c, x) == wire'[c][Len(wire[c]) + x]

\* gateway_status comes first and once.
SendStatus(c) == /\ wire[c] = <<>> /\ ~ended[c]
                 /\ Writes(c, 1)
                 /\ Sent(c, 1).event = "status"

\* Content comes only after it.
SendContent(c) == /\ Open(c)
                  /\ Writes(c, 1)
                  /\ Sent(c, 1).event = "content" /\ Sent(c, 1).n > 0

\* gateway_failover and gateway_regenerating come together; the first counts the
\* tokens of the failed attempt alone.
SendFailover(c) == /\ Open(c)
                   /\ Writes(c, 2)
                   /\ Sent(c, 1).event = "failover" /\ Sent(c, 2).event = "regenerating"
                   /\ Sent(c, 1).reason \in FailoverReasons
                   /\ Sent(c, 1).provider # Sent(c, 1).to
                   /\ Exact => Sent(c, 1).n = SinceFailover(wire[c])

\* gateway_truncated is the last event and counts everything the client got.
SendTruncated(c) == /\ wire[c] = <<>> \/ Open(c)
                    /\ ~ended[c]
                    /\ Writes(c, 1)
                    /\ Sent(c, 1).event = "truncated"
                    /\ Sent(c, 1).reason \in TruncatedReasons
                    /\ Exact => Sent(c, 1).n = Delivered(wire[c])

Close(c) == ~ended[c] /\ ended' = [ended EXCEPT ![c] = TRUE] /\ UNCHANGED wire

Next == \E c \in Clients :
            SendStatus(c) \/ SendContent(c) \/ SendFailover(c) \/ SendTruncated(c) \/ Close(c)

Spec == Init /\ [][Next]_vars
=============================================================================
