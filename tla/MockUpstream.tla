---------------------------- MODULE MockUpstream ----------------------------
(***************************************************************************)
(* internal/mockupstream: what the mock provider does with one request.    *)
(* A stream's options are the number of its tokens, the failure it injects *)
(* (NoFailure: none) and after how many tokens.                            *)
(***************************************************************************)
EXTENDS Integers

NoFailure == ""

\* mergeOptions: a model's own options, with the tokens of the server if it has
\* none.
MergeOptions(base, override) ==
    [override EXCEPT !.tokens = IF @ = 0 THEN base.tokens ELSE @]

\* snapshot: the options for a request.
Snapshot(server, model) ==
    IF model \in DOMAIN server.perModel
    THEN MergeOptions(server.options, server.perModel[model])
    ELSE server.options

\* failAfter: half of the tokens when nothing is said.
FailAfter(o) == IF o.failAfter <= 0 THEN o.tokens \div 2 ELSE o.failAfter

\* injectFailure is reached and ends the stream.
Fails(o) == o.failure # NoFailure

\* Content frames before the failure or [DONE].
Content(o) == IF Fails(o) /\ FailAfter(o) < o.tokens THEN FailAfter(o) ELSE o.tokens

\* Bug: a failed stream counts as well.
MutCharged(o) == o.tokens

\* The tokens stream adds to its usage after it wrote [DONE]; it ignores write
\* errors, so a gateway that hung up makes no difference.
Charged(o) == IF Fails(o) THEN 0 ELSE o.tokens

\* usageHandler: the count with the configured error.
Reported(n, offsetPct) == n + (n * offsetPct) \div 100
=============================================================================
