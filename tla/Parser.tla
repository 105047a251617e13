------------------------------- MODULE Parser -------------------------------
(***************************************************************************)
(* One upstream attempt: the frame loop of runAttempt, Reader.Next of      *)
(* internal/parser with its select over the context, the silent-hang       *)
(* timer, the activity channel and the result channel, and the goroutine   *)
(* that reads the body byte by byte.  Bytes are "part" (in the middle of a *)
(* frame) or the frame they complete.  Time passes only when no goroutine  *)
(* has anything to do.                                                     *)
(***************************************************************************)
EXTENDS FrameOps, Naturals, Sequences, SequencesExt

CONSTANTS Frames,      \* the frames an upstream of each provider type may send
          Deadline,    \* silent_hang_deadline_ms, in ticks
          MaxFrames,   \* bound: frames sent
          MaxNet       \* bound: bytes in flight

ASSUME ParserAssumption ==
    /\ Frames \in [{"openai", "anthropic"} -> SUBSET RawFrames]
    /\ Deadline \in Nat \ {0} /\ MaxFrames \in Nat /\ MaxNet \in Nat

VARIABLES format,    \* the type of the attempted provider
          up,        \* what the upstream does with the connection
          mid,       \* the upstream is in the middle of a frame
          net,       \* bytes on their way
          pc,        \* where runAttempt is
          ctx,       \* the request context
          reader,    \* the goroutine of the last call of Next
          partial,   \* its buffer is not empty
          value,     \* what it is about to send to the result channel
          ch,        \* the result channel
          activity,  \* the activity channel holds a token
          timer,     \* ticks until the timer fires; its channel is ready at 0
          result,    \* the outcome of the attempt
          sent,      \* ghost: what the frames sent mean
          delivered, \* ghost: what Next returned without an error
          quiet,     \* ghost: ticks since the last byte
          hush,      \* ghost: ticks without a byte before the present instant
          overlap,   \* ghost: Next was called while a goroutine was reading
          client     \* ghost: "gone" when a write to it has failed

upstream == <<format, up, mid, sent>>
goroutine == <<reader, partial, value>>
chans == <<ch, activity, timer>>
time == <<quiet, hush>>
history == <<overlap, client>>
vars == <<upstream, net, pc, ctx, goroutine, chans, result, delivered, time, history>>

Init == /\ format \in DOMAIN Frames
        /\ up = "connecting" /\ mid = FALSE /\ net = <<>>
        /\ pc = "connect" /\ ctx = "live"
        /\ reader = "none" /\ partial = FALSE /\ value = "nothing"
        /\ ch = <<>> /\ activity = FALSE /\ timer = Deadline
        /\ result = "running" /\ sent = <<>> /\ delivered = <<>>
        /\ quiet = 0 /\ hush = 0 /\ overlap = FALSE /\ client = "there"

-----------------------------------------------------------------------------
\* The upstream (external).

\* A byte arrives, which restarts the silence; none does once runAttempt has
\* closed the body.
Arrives(item) == /\ up = "streaming"
                 /\ pc # "over"
                 /\ Len(net) < MaxNet
                 /\ net' = Append(net, item)
                 /\ quiet' = 0
                 /\ UNCHANGED <<pc, ctx, goroutine, chans, result, delivered, hush, history>>

SendPart == /\ Arrives("part")
            /\ Len(sent) < MaxFrames
            /\ mid' = TRUE
            /\ UNCHANGED <<format, up, sent>>

SendFrame(f) == /\ Len(sent) < MaxFrames
                /\ Arrives(ParseFrame(f, format))
                /\ mid' = FALSE
                /\ sent' = Append(sent, ParseFrame(f, format))
                /\ UNCHANGED <<format, up>>

\* The connection ends in good order, perhaps in the middle of a frame, or not.
EndBody == /\ up = "streaming"
           /\ pc # "over"
           /\ up' = "ended"
           /\ \/ ~mid /\ net' = Append(net, "eof") /\ UNCHANGED sent
              \/ net' = Append(net, "reset") /\ UNCHANGED sent
              \/ \E f \in Frames[format] :
                     /\ mid
                     /\ net' = net \o <<ParseFrame(f, format), "eof">>
                     /\ sent' = Append(sent, ParseFrame(f, format))
           /\ UNCHANGED <<format, mid, pc, ctx, goroutine, chans, result, delivered, time, history>>

\* The client leaves or a shutdown is forced.
Cancel == /\ ctx = "live"
          /\ pc # "over"
          /\ ctx' = "cancelled"
          /\ UNCHANGED <<upstream, net, pc, goroutine, chans, result, delivered, time, history>>

-----------------------------------------------------------------------------
\* The reading goroutine: readFrameWithActivity.

\* One byte, in the buffer and announced if the channel has room.
ReadPart == /\ reader = "reading"
            /\ net # <<>> /\ Head(net) = "part"
            /\ net' = Tail(net)
            /\ partial' = TRUE
            /\ activity' = TRUE
            /\ UNCHANGED <<upstream, pc, ctx, reader, value, ch, timer, result, delivered, time, history>>

\* Bug: a byte that completes a frame is left in the buffer.
MutRest == net

\* The bytes behind the one just read.
Rest == Tail(net)

\* The last byte of a frame; at the end of the body the frame is what there is.
ReadFrame == /\ reader = "reading"
             /\ net # <<>> /\ Head(net) \in Meanings
             /\ net' = Rest
             /\ partial' = FALSE
             /\ activity' = TRUE
             /\ reader' = "sending"
             /\ value' = Head(net)
             /\ UNCHANGED <<upstream, pc, ctx, ch, timer, result, delivered, time, history>>

\* The read fails: the body ended, the request was cancelled, or runAttempt
\* returned and closed the body.
ReadFails == /\ reader = "reading"
             /\ \/ net # <<>> /\ Head(net) \in {"eof", "reset"} /\ value' = Head(net)
                \/ ctx = "cancelled" /\ value' = "canceled"
                \/ pc = "over" /\ value' = "closed"
             /\ reader' = "sending"
             /\ partial' = FALSE
             /\ UNCHANGED <<upstream, net, pc, ctx, chans, result, delivered, time, history>>

\* Bug: the result channel has no buffer.
MutCanSend == pc = "select"

\* The result channel has room for the one result.
CanSend == ch = <<>>

Send == /\ reader = "sending"
        /\ CanSend
        /\ ch' = <<value>>
        /\ reader' = "none"
        /\ UNCHANGED <<upstream, net, pc, ctx, partial, value, activity, timer, result, delivered, time, history>>

-----------------------------------------------------------------------------
\* runAttempt and Next.

Over(outcome) == pc' = "over" /\ result' = outcome

\* client.Do: an upstream that cannot be reached, one that answers an error
\* status, or a stream.
Connect == /\ pc = "connect"
           /\ \/ Over("dead_socket") /\ up' = "unreachable"
              \/ Over("malformed") /\ up' = "refusing"
              \/ pc' = "loop" /\ up' = "streaming" /\ UNCHANGED result
           /\ UNCHANGED <<format, mid, sent, net, ctx, goroutine, chans, delivered, time, history>>

\* ... or nothing: without a header timeout only the context ends the wait.
ConnectCancelled == /\ pc = "connect"
                    /\ ctx = "cancelled"
                    /\ Over("canceled")
                    /\ UNCHANGED <<upstream, net, ctx, goroutine, chans, delivered, time, history>>

\* Next makes its channels, starts the goroutine and the timer.
CallNext == /\ pc = "loop"
            /\ pc' = "select"
            /\ reader' = "reading" /\ partial' = FALSE /\ value' = "nothing"
            /\ ch' = <<>> /\ activity' = FALSE /\ timer' = Deadline
            /\ overlap' = (overlap \/ reader # "none")
            /\ UNCHANGED <<upstream, net, ctx, result, delivered, time, client>>

\* The tokens of the frame, counted or reported, do not fit the budget.
BudgetSpent == /\ pc = "loop"
               /\ delivered # <<>>
               /\ Last(delivered) \in {"text", "blank", "usage"}
               /\ Over("budget_exceeded")
               /\ UNCHANGED <<upstream, net, ctx, goroutine, chans, delivered, time, history>>

\* The client cannot be written to: an error like any other, which classify
\* names and the breaker of the upstream is told.
WriteFails == /\ pc = "loop"
              /\ delivered # <<>>
              /\ Last(delivered) \in {"text", "blank"}
              /\ Over(Classify("write_error"))
              /\ client' = "gone"
              /\ UNCHANGED <<upstream, net, ctx, goroutine, chans, delivered, time, overlap>>

SelectDone == /\ pc = "select"
              /\ ctx = "cancelled"
              /\ Over("canceled")
              /\ UNCHANGED <<upstream, net, ctx, goroutine, chans, delivered, time, history>>

\* Bug: the silence is tolerated once more.
MutOnHang == pc' = "loop" /\ UNCHANGED result

\* Bug: Next goes on waiting for the frame.
MutOnHangWaits == UNCHANGED <<pc, result>>

\* ErrSilentHang ends the attempt.
OnHang == Over("silent_hang")

SelectTimer == /\ pc = "select"
               /\ timer = 0
               /\ OnHang
               /\ UNCHANGED <<upstream, net, ctx, goroutine, chans, delivered, time, history>>

\* Bug: the timer runs on from the call of Next, as it once did.
MutRearmed == timer

\* timer.Stop, the drained channel and timer.Reset.
Rearmed == Deadline

SelectActivity == /\ pc = "select"
                  /\ activity
                  /\ activity' = FALSE
                  /\ timer' = Rearmed
                  /\ UNCHANGED <<upstream, net, pc, ctx, goroutine, ch, result, delivered, time, history>>

\* Bug: an end of the body is taken for a regular end.
MutOutcome(v) == IF v \in {"done", "eof"} THEN "success" ELSE Classify(v)

\* What ends the attempt is a done frame or an error, which classify names.
Outcome(v) == CASE v = "done" -> "success"
                [] v \in {"canceled", "closed"} -> "canceled"
                [] OTHER -> Classify(v)

SelectResult == /\ pc = "select"
                /\ ch # <<>>
                /\ ch' = <<>>
                /\ IF Head(ch) \in {"text", "blank", "usage", "skip"}
                   THEN /\ pc' = "loop"
                        /\ delivered' = Append(delivered, Head(ch))
                        /\ UNCHANGED result
                   ELSE /\ Over(Outcome(Head(ch)))
                        /\ UNCHANGED delivered
                /\ UNCHANGED <<upstream, net, ctx, goroutine, activity, timer, time, history>>

-----------------------------------------------------------------------------
\* Whether some goroutine has something to do.
Busy == \/ reader = "reading" /\ (net # <<>> \/ ctx = "cancelled")
        \/ reader = "sending"
        \/ pc = "select" /\ (ch # <<>> \/ activity \/ timer = 0 \/ ctx = "cancelled")

\* Time passes; in the loop it may be a slow client that takes it.
Tick == /\ pc \in {"loop", "select"}
        /\ ~Busy
        /\ timer' = IF timer = 0 THEN 0 ELSE timer - 1
        /\ quiet' = IF quiet > Deadline THEN quiet ELSE quiet + 1
        /\ hush' = quiet'
        /\ UNCHANGED <<upstream, net, pc, ctx, goroutine, ch, activity, result, delivered, history>>

Ended == pc = "over" /\ reader = "none" /\ UNCHANGED vars

Environment == SendPart \/ (\E f \in Frames[format] : SendFrame(f)) \/ EndBody \/ Cancel
Goroutine == ReadPart \/ ReadFrame \/ ReadFails \/ Send
NextCall == SelectDone \/ SelectTimer \/ SelectActivity \/ SelectResult
Attempt == Connect \/ ConnectCancelled \/ CallNext \/ BudgetSpent \/ WriteFails \/ NextCall
Next == Environment \/ Goroutine \/ Attempt \/ Tick \/ Ended

Safe == Init /\ [][Next]_vars

\* Goroutines run and time passes; the upstream owes nothing.
Spec == Safe /\ WF_vars(Goroutine) /\ WF_vars(CallNext) /\ WF_vars(NextCall)
             /\ WF_vars(ConnectCancelled) /\ WF_vars(Tick)

-----------------------------------------------------------------------------
\* The types; the goroutine of Next lives no longer than its call while the
\* attempt goes on.
TypeOK == /\ format \in {"openai", "anthropic"}
          /\ up \in {"connecting", "unreachable", "refusing", "streaming", "ended"}
          /\ mid \in BOOLEAN /\ partial \in BOOLEAN /\ activity \in BOOLEAN
          /\ pc \in {"connect", "loop", "select", "over"}
          /\ ctx \in {"live", "cancelled"}
          /\ reader \in {"none", "reading", "sending"}
          /\ pc \in {"connect", "loop"} => reader = "none"
          /\ Len(ch) <= 1
          /\ timer \in 0 .. Deadline
          /\ result \in {"running", "success", "malformed", "silent_hang", "dead_socket", "canceled",
                        "budget_exceeded"}
          /\ (result # "running") <=> (pc = "over")

\* The silent-hang deadline is per byte: an attempt ends with silent_hang only
\* when no byte had come for a full deadline, however the timer, the activity
\* channel and the result race in select.
HangIsSilence == result = "silent_hang" => hush >= Deadline

\* Frames reach runAttempt complete, once and in the order they were sent,
\* however they are cut into bytes; when the body ends in order none is missing,
\* the one that lacks its blank line included.
FramesArriveInOrder ==
    /\ IsPrefix(delivered, sent)
    /\ result = "dead_socket" /\ net # <<>> /\ Head(net) = "eof" => delivered = sent

\* What the breaker and the client are told has a cause: malformed when the next
\* frame does not parse or the status was an error, success when it is the end
\* marker, dead_socket when the connection was refused or ended, or when the
\* client could not be written to.  In the last case, and in no other, a healthy
\* upstream is blamed.
OutcomeHasCause ==
    LET next == IF Len(sent) > Len(delivered) THEN sent[Len(delivered) + 1] ELSE "nothing"
    IN  /\ result = "malformed" => next = "malformed" \/ up = "refusing"
        /\ result = "success" => next = "done"
        /\ result = "dead_socket" => up \in {"unreachable", "ended"} \/ client = "gone"
        /\ client = "gone" => result = "dead_socket"

\* Two goroutines never read the same body: Next is not called again before the
\* goroutine of the call before has delivered its frame, and between calls nobody
\* reads (TypeOK).
OneReader == TypeOK /\ ~overlap

\* No goroutine is left behind by an attempt that ended while it was reading.
ReaderEnds == (pc = "over") ~> (reader = "none")

\* A wait for a frame that has gone quiet ends or gets a byte: there is no silence
\* Next does not notice, whatever the state of the buffered frame.
QuietWaitsEnd == (pc = "select" /\ quiet > 0) ~> (pc # "select" \/ quiet = 0)

=============================================================================
