----------------------------- MODULE ClientOps -----------------------------
(***************************************************************************)
(* client-ref: what the reference client shows of a stream.  A screen is   *)
(* the tokens of the output below the last "regenerated output" line, the  *)
(* tokens retained above it, and the truncation notice, after which the    *)
(* client stops reading.  Colours and faint text are layout.               *)
(***************************************************************************)
EXTENDS Integers, Sequences

Blank == [block |-> 0, above |-> 0, notice |-> FALSE]

\* Bug: the regenerated output is not set off.
MutShow(screen, e) ==
    CASE screen.notice -> screen
      [] e.event = "truncated" -> [screen EXCEPT !.notice = TRUE]
      [] e.event = "content" -> [screen EXCEPT !.block = @ + e.n]
      [] OTHER -> screen

\* One turn of the client's loop; extractText finds the text WriteContent wrote.
Show(screen, e) ==
    CASE screen.notice -> screen
      [] ~screen.notice /\ e.event = "regenerating" ->
            [screen EXCEPT !.above = @ + screen.block, !.block = 0]
      [] ~screen.notice /\ e.event = "truncated" -> [screen EXCEPT !.notice = TRUE]
      [] ~screen.notice /\ e.event = "content" ->
            [screen EXCEPT !.block = @ + e.n]
      [] OTHER -> screen

\* What the client shows once it read all of wire.
Screen(wire) ==
    LET seen[n \in 0 .. Len(wire)] ==      \* after n events
            IF n = 0 THEN Blank ELSE Show(seen[n - 1], wire[n])
    IN  seen[Len(wire)]
=============================================================================
