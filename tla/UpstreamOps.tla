----------------------------- MODULE UpstreamOps -----------------------------
(***************************************************************************)
(* Which addresses an upstream may have: the checks internal/config makes  *)
(* at startup and internal/server repeats for every connection.  The       *)
(* resolver is external: an answer is the sequence of addresses it returns *)
(* and the empty one a failure.  Two classes of addresses are told apart,  *)
(* with the IPv4-mapped form of the one that matters.                      *)
(***************************************************************************)
EXTENDS Sequences, SequencesExt

\* The zero value of a string.
NoText == ""

Addresses == {"public", "private", "mapped_private"}

\* netip.Addr.Unmap
Unmap(a) == IF a = "mapped_private" THEN "private" ELSE a

\* restrictedUpstreamIP: private, loopback, link-local or unspecified.
RestrictedUpstreamIP(a) == Unmap(a) = "private"

\* url.Parse: a URL is its scheme and its host, separated here by the table below.
URLs == [plain   |-> [scheme |-> "http", host |-> "example"],
         secure  |-> [scheme |-> "https", host |-> "example"],
         literal |-> [scheme |-> "https", host |-> "private"],
         numeric |-> [scheme |-> "https", host |-> "public"]]
URLOf(text) == IF text \in DOMAIN URLs THEN URLs[text] ELSE [scheme |-> NoText, host |-> NoText]

\* The host of a URL is an address or a name to look up.
IsAddress(host) == host \in Addresses

\* validateProviderURL: of the mocks only the scheme matters; a real provider is
\* reached over https and none of its addresses is restricted.
ValidProviderURL(type, text, answer) ==
    LET url == URLOf(text) IN
    /\ url.scheme # NoText /\ url.host # NoText
    /\ IF type = "mock"
       THEN url.scheme \in {"http", "https"}
       ELSE /\ url.scheme = "https"
            /\ IF IsAddress(url.host)
               THEN ~RestrictedUpstreamIP(url.host)
               ELSE answer # <<>> /\ \A a \in ToSet(answer) : ~RestrictedUpstreamIP(a)

\* validatedDialAddress returns an error.
DialRefused(host, answer, allowPrivate) ==
    IF IsAddress(host)
    THEN ~allowPrivate /\ RestrictedUpstreamIP(host)
    ELSE \/ answer = <<>>
         \/ ~allowPrivate /\ \E a \in ToSet(answer) : RestrictedUpstreamIP(a)

\* The address it returns otherwise: the first of the answer that was checked.
ValidatedDialAddress(host, answer) == IF IsAddress(host) THEN host ELSE Unmap(Head(answer))
=============================================================================
