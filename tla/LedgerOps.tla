----------------------------- MODULE LedgerOps ------------------------------
(***************************************************************************)
(* internal/ledger: one entry of the billing ledger.  Every method of      *)
(* Store holds its mutex, so a method is an operator from the entry before *)
(* the call to the entry after it.                                         *)
(***************************************************************************)
EXTENDS Integers

\* The empty name: no provider, no outcome, no reason.
None == ""

\* getLocked creates an empty entry.  lastReconciledAt is 0 when nil.
NewEntry(Providers) == [tokensBilled |-> 0, truncatedRequests |-> 0,
                        lastReconciledAt |-> 0, driftFlag |-> FALSE,
                        providerTokens |-> [p \in Providers |-> 0]]

\* RecordTerminal: provider p (None when none was attempted) is billed n tokens.
RecordTerminal(e, p, n, truncated) ==
    LET m == IF n < 0 THEN 0 ELSE n
    IN  [e EXCEPT !.tokensBilled = @ + m,
                  !.truncatedRequests = IF truncated THEN @ + 1 ELSE @,
                  !.providerTokens = [q \in DOMAIN @ |-> IF q = p THEN @[q] + m ELSE @[q]]]

\* UpsertReconciliation
UpsertReconciliation(e, at, flag) ==
    [e EXCEPT !.lastReconciledAt = at, !.driftFlag = flag]
=============================================================================
