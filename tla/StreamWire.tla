----------------------------- MODULE StreamWire -----------------------------
(***************************************************************************)
(* The handler of POST /v1/stream implements the wire protocol.            *)
(***************************************************************************)
EXTENDS Stream

\* What the client of each request sees obeys the wire protocol.
Wire == INSTANCE WireProtocol
        WITH Clients <- Requests, Exact <- Reports = {},
             wire <- [r \in Requests |-> s[r].wire],
             ended <- [r \in Requests |-> s[r].pc = "done"]
ImplementsWireProtocol == Wire!Spec
=============================================================================
