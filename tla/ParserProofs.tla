---------------------------- MODULE ParserProofs ----------------------------
(***************************************************************************)
(* For every set of frames, deadline and bound: one goroutine reads at a   *)
(* time, a silent hang is a full deadline without a byte, frames reach     *)
(* runAttempt in order, and the outcome has a cause on the upstream's or   *)
(* the client's side.                                                      *)
(***************************************************************************)
EXTENDS Parser, SequenceTheorems, TLAPS

Ends == {"eof", "reset"}
Items == Meanings \cup Ends \cup {"part"}
Values == Meanings \cup Ends \cup {"canceled", "closed"}

\* The flags of TypeOK, which the provers treat apart from the rest.
FlagsInv == mid \in BOOLEAN /\ partial \in BOOLEAN /\ activity \in BOOLEAN

\* The rest of TypeOK and the two channels of bytes and results; a goroutine
\* that sends has something to send, and while the attempt goes on the result
\* channel is full exactly when the goroutine of the call has ended.
ControlInv ==
    /\ format \in {"openai", "anthropic"}
    /\ up \in {"connecting", "unreachable", "refusing", "streaming", "ended"}
    /\ pc \in {"connect", "loop", "select", "over"}
    /\ ctx \in {"live", "cancelled"}
    /\ reader \in {"none", "reading", "sending"}
    /\ timer \in 0 .. Deadline
    /\ result \in {"running", "success", "malformed", "silent_hang", "dead_socket", "canceled",
                  "budget_exceeded"}
    /\ (result # "running") <=> (pc = "over")
    /\ net \in Seq(Items)
    /\ ch = <<>> \/ \E v \in Values : ch = <<v>>
    /\ reader = "sending" => value \in Values
    /\ pc \in {"connect", "loop"} => reader = "none" /\ ch = <<>>
    /\ pc = "select" => (reader = "none" <=> ch # <<>>)

\* While Next waits, the timer and the silence make up a deadline, unless a byte
\* is still on its way to the select.
QuietInv ==
    /\ quiet \in Nat /\ hush \in Nat
    /\ pc = "select" => timer + hush >= Deadline
    /\ pc = "select" => \/ timer + quiet >= Deadline
                        \/ net # <<>> \/ activity \/ reader = "sending" \/ ch # <<>>

\* What Next has in hand: a result in the channel, or one on its way there.
InHand == IF ch # <<>> THEN Head(ch) ELSE IF reader = "sending" THEN value ELSE "nothing"
Held == IF InHand \in Meanings THEN 1 ELSE 0

\* cut[n] counts the frames sent up to the n-th byte still on its way, when d
\* frames have been read.
CutsOf(cut, bytes, frames, d) ==
    /\ cut \in [0 .. Len(bytes) -> Nat]
    /\ cut[0] = d
    /\ cut[Len(bytes)] = Len(frames)
    /\ \A n \in 0 .. Len(bytes) : cut[n] <= Len(frames)
    /\ \A n \in 1 .. Len(bytes) : IF bytes[n] \in Meanings
                                  THEN cut[n] = cut[n - 1] + 1 /\ bytes[n] = frames[cut[n]]
                                  ELSE cut[n] = cut[n - 1]

Cuts(cut) == CutsOf(cut, net, sent, Len(delivered) + Held)

\* While the attempt goes on, what was sent is what was delivered, then the
\* frame in hand, then the frames on their way.
FlowInv ==
    /\ sent \in Seq(Meanings) /\ delivered \in Seq(Meanings)
    /\ Len(delivered) <= Len(sent)
    /\ \A n \in 1 .. Len(delivered) : delivered[n] = sent[n]
    /\ pc # "over" => /\ \E cut : Cuts(cut)
                      /\ InHand \in Meanings => InHand = sent[Len(delivered) + 1]

\* An end of the body is the last thing on its way, and nothing is sent before
\* the connection stands.
EndInv ==
    /\ \A n \in 1 .. Len(net) : net[n] \in Ends => n = Len(net) /\ up = "ended"
    /\ pc # "over" /\ InHand \in Ends => up = "ended"
    /\ pc = "connect" => up = "connecting"

-----------------------------------------------------------------------------
\* Whatever a frame is, runAttempt knows what to do with it.
LEMMA FrameHasMeaning == ASSUME NEW f, NEW t PROVE ParseFrame(f, t) \in Meanings
  BY DEF ParseFrame, ParseAnthropicFrame, ExtractContent, ValidateGatewayEvent, Meanings

\* The outcome of what ends an attempt.
LEMMA OutcomeType ==
    ASSUME NEW v \in Values
    PROVE  /\ Outcome(v) \in {"success", "malformed", "dead_socket", "canceled"}
           /\ Outcome(v) = "malformed" => v = "malformed"
           /\ Outcome(v) = "success" => v = "done"
           /\ Outcome(v) = "dead_socket" => v \in Ends \cup {"text", "blank", "usage", "skip"}
  BY DEF Outcome, Classify, Values, Meanings, Ends

\* An attempt begins before its first Next: no goroutine, both channels empty.
LEMMA InitControl == Init => ControlInv /\ FlagsInv /\ ~overlap
  <1>1. Init => FlagsInv /\ ~overlap
    BY DEF Init, FlagsInv
  <1>2. Init => ControlInv
    BY ParserAssumption DEF Init, ControlInv
  <1> QED BY <1>1, <1>2

\* Every step keeps the shape of Next, its goroutine and its channels.
LEMMA NextControl == ControlInv /\ [Next]_vars => ControlInv'
  <1> SUFFICES ASSUME ControlInv, [Next]_vars PROVE ControlInv'
    OBVIOUS
  <1> USE ParserAssumption
  <1> USE DEF ControlInv, upstream, goroutine, chans, time
  <1>1. ASSUME NEW item \in Items, Arrives(item), UNCHANGED <<format, up>> PROVE ControlInv'
    <2>1. net' \in Seq(Items)
      BY <1>1 DEF Arrives
    <2> QED BY <1>1, <2>1 DEF Arrives
  <1>3. CASE EndBody
    <2>1. \A f : ParseFrame(f, format) \in Items
      BY FrameHasMeaning DEF Items
    <2>2. ASSUME NEW f PROVE net \o <<ParseFrame(f, format), "eof">> \in Seq(Items)
      <3>1. <<ParseFrame(f, format), "eof">> \in Seq(Items)
        BY <2>1 DEF Items, Ends
      <3> QED BY <3>1
    <2>3. Append(net, "eof") \in Seq(Items) /\ Append(net, "reset") \in Seq(Items)
      BY DEF Items, Ends
    <2>4. net' \in Seq(Items)
      BY <1>3, <2>2, <2>3, ZenonT(60) DEF EndBody
    <2> QED BY <1>3, <2>4 DEF EndBody
  <1>4. CASE Cancel
    BY <1>4 DEF Cancel
  <1>5. CASE ReadPart
    <2>1. net' \in Seq(Items)
      BY <1>5 DEF ReadPart
    <2> QED BY <1>5, <2>1 DEF ReadPart
  <1>6. CASE ReadFrame
    <2>1. net' \in Seq(Items)
      BY <1>6 DEF ReadFrame, Rest
    <2> QED BY <1>6, <2>1 DEF ReadFrame, Values
  <1>7. CASE ReadFails
    BY <1>7 DEF ReadFails, Values, Ends
  <1>8. CASE Send
    BY <1>8 DEF Send, CanSend
  <1>9. CASE Connect
    BY <1>9 DEF Connect, Over
  <1>10. CASE ConnectCancelled
    BY <1>10 DEF ConnectCancelled, Over
  <1>11. CASE CallNext
    BY <1>11 DEF CallNext
  <1>12. CASE BudgetSpent \/ WriteFails
    BY <1>12 DEF BudgetSpent, WriteFails, Classify, Over
  <1>13. CASE SelectDone
    BY <1>13 DEF SelectDone, Over
  <1>14. CASE SelectTimer
    BY <1>14 DEF SelectTimer, OnHang, Over
  <1>15. CASE SelectActivity
    BY <1>15 DEF SelectActivity, Rearmed
  <1>16. CASE SelectResult
    <2>1. Head(ch) \in Values
      BY <1>16 DEF SelectResult
    <2>2. Outcome(Head(ch)) \in {"success", "malformed", "dead_socket", "canceled"}
      BY <2>1, OutcomeType
    <2> QED BY <1>16, <2>2 DEF SelectResult, Over
  <1>17. CASE Tick
    BY <1>17 DEF Tick
  <1>18. CASE UNCHANGED vars
    BY <1>18 DEF vars
  <1>19. SendPart => Arrives("part") /\ "part" \in Items /\ UNCHANGED <<format, up>>
    BY DEF SendPart, Items
  <1>20. \A f : SendFrame(f) => /\ Arrives(ParseFrame(f, format)) /\ ParseFrame(f, format) \in Items
                                /\ UNCHANGED <<format, up>>
    BY FrameHasMeaning DEF SendFrame, Items
  <1> QED BY <1>1, <1>3, <1>4, <1>5, <1>6, <1>7, <1>8, <1>9, <1>10, <1>11, <1>12, <1>13,
             <1>14, <1>15, <1>16, <1>17, <1>18, <1>19, <1>20
          DEF Next, Environment, Goroutine, NextCall, Attempt, Ended

\* No call of Next is waiting yet.
LEMMA InitQuiet == Init => QuietInv
  BY DEF Init, QuietInv

\* Every step keeps the timer and the silence together at a full deadline: a byte
\* that resets the silence is seen by the select before the timer may run out.
LEMMA NextQuiet == ControlInv /\ QuietInv /\ [Next]_vars => QuietInv'
  <1> SUFFICES ASSUME ControlInv, QuietInv, [Next]_vars PROVE QuietInv'
    OBVIOUS
  <1>t. /\ timer \in 0 .. Deadline /\ Deadline \in Nat /\ net \in Seq(Items)
        /\ reader \in {"none", "reading", "sending"}
        /\ pc = "select" /\ reader = "none" => ch # <<>>
    BY ParserAssumption DEF ControlInv
  <1> USE <1>t
  <1> USE DEF QuietInv, upstream, goroutine, chans, time
  <1>1. ASSUME NEW item \in Items, Arrives(item) PROVE QuietInv'
    BY <1>1 DEF Arrives
  <1>2. CASE EndBody
    <2>0. ASSUME NEW x, NEW y PROVE net \o <<x, y>> # <<>>
      OBVIOUS
    <2>2. Append(net, "eof") # <<>> /\ Append(net, "reset") # <<>>
      OBVIOUS
    <2>1. net' # <<>>
      BY <1>2, <2>0, <2>2, Zenon DEF EndBody
    <2> QED BY <1>2, <2>1 DEF EndBody
  <1>3. CASE Cancel
    BY <1>3 DEF Cancel
  <1>4. CASE ReadPart
    BY <1>4 DEF ReadPart
  <1>5. CASE ReadFrame
    BY <1>5 DEF ReadFrame
  <1>6. CASE ReadFails
    BY <1>6 DEF ReadFails
  <1>7. CASE Send
    BY <1>7 DEF Send
  <1>8. CASE Connect \/ ConnectCancelled \/ BudgetSpent \/ WriteFails \/ SelectDone \/ SelectTimer
    BY <1>8 DEF Connect, ConnectCancelled, BudgetSpent, WriteFails, SelectDone, SelectTimer, OnHang, Over
  <1>9. CASE CallNext
    BY <1>9 DEF CallNext
  <1>10. CASE SelectActivity
    BY <1>10 DEF SelectActivity, Rearmed
  <1>11. CASE SelectResult
    BY <1>11 DEF SelectResult, Over
  <1>12. CASE Tick
    <2>1. pc = "select" => timer + quiet >= Deadline /\ timer # 0
      BY <1>12 DEF Tick, Busy
    <2> QED BY <1>12, <2>1 DEF Tick
  <1>13. CASE UNCHANGED vars
    BY <1>13 DEF vars
  <1>14. SendPart => Arrives("part") /\ "part" \in Items
    BY DEF SendPart, Items
  <1>15. \A f : SendFrame(f) => Arrives(ParseFrame(f, format)) /\ ParseFrame(f, format) \in Items
    BY FrameHasMeaning DEF SendFrame, Items
  <1> QED BY <1>1, <1>2, <1>3, <1>4, <1>5, <1>6, <1>7, <1>8, <1>9, <1>10, <1>11, <1>12, <1>13, <1>14, <1>15
          DEF Next, Environment, Goroutine, NextCall, Attempt, Ended

-----------------------------------------------------------------------------
\* The flags are Booleans, and Next is only called when nobody reads.
LEMMA NextFlags == ControlInv /\ FlagsInv /\ ~overlap /\ [Next]_vars => FlagsInv' /\ ~overlap'
  <1> SUFFICES ASSUME ControlInv, FlagsInv, ~overlap, [Next]_vars PROVE FlagsInv' /\ ~overlap'
    OBVIOUS
  <1>1. CASE CallNext
    <2>1. reader = "none"
      BY <1>1 DEF CallNext, ControlInv
    <2> QED BY <1>1, <2>1, Zenon DEF CallNext, FlagsInv, upstream
  <1>2. UNCHANGED overlap \/ CallNext
    BY Zenon DEF Next, Environment, Goroutine, NextCall, Attempt, Ended, vars, history,
       SendPart, SendFrame, Arrives, EndBody, Cancel, ReadPart, ReadFrame, ReadFails, Send,
       Connect, ConnectCancelled, BudgetSpent, WriteFails, SelectDone, SelectTimer, SelectActivity, SelectResult, Tick
  <1>3. FlagsInv' \/ CallNext
    BY Zenon DEF FlagsInv, Next, Environment, Goroutine, NextCall, Attempt, Ended, vars,
       upstream, goroutine, chans,
       SendPart, SendFrame, Arrives, EndBody, Cancel, ReadPart, ReadFrame, ReadFails, Send,
       Connect, ConnectCancelled, BudgetSpent, WriteFails, SelectDone, SelectTimer, SelectActivity, SelectResult, Tick
  <1> QED BY <1>1, <1>2, <1>3

\* TypeOK and ~overlap at every step: OneReader.
THEOREM OneReaderHolds == Spec => []OneReader
  <1>1. Init => ControlInv /\ FlagsInv /\ ~overlap
    BY InitControl
  <1>2. ControlInv /\ FlagsInv /\ ~overlap /\ [Next]_vars => (ControlInv /\ FlagsInv /\ ~overlap)'
    BY NextControl, NextFlags
  <1>3. ControlInv /\ FlagsInv /\ ~overlap => OneReader
    <2>1. ControlInv => Len(ch) <= 1
      <3>1. Len(<<>>) <= 1 /\ \A v : Len(<<v>>) <= 1
        OBVIOUS
      <3> QED BY <3>1, Zenon DEF ControlInv
    <2> QED BY <2>1, Zenon DEF ControlInv, FlagsInv, OneReader, TypeOK
  <1> QED BY <1>1, <1>2, <1>3, PTL DEF Spec, Safe

-----------------------------------------------------------------------------
\* A step that ends an attempt with silent_hang finds the timer at 0.
LEMMA NextHang == ControlInv /\ QuietInv /\ HangIsSilence /\ [Next]_vars => HangIsSilence'
  <1> SUFFICES ASSUME ControlInv, QuietInv, HangIsSilence, [Next]_vars PROVE HangIsSilence'
    OBVIOUS
  <1> USE DEF HangIsSilence
  <1>1. CASE SelectTimer
    <2>1. timer = 0 /\ hush' = hush /\ timer + hush >= Deadline /\ hush \in Nat
      BY <1>1 DEF SelectTimer, QuietInv, time
    <2> QED BY <2>1, ParserAssumption
  <1>2. CASE SelectResult
    <2>1. ch # <<>> /\ Head(ch) \in Values
      BY <1>2 DEF SelectResult, ControlInv
    <2>2. Outcome(Head(ch)) # "silent_hang"
      BY <2>1, OutcomeType
    <2> QED BY <1>2, <2>2 DEF SelectResult, Over, time
  <1>3. CASE Tick
    BY <1>3 DEF Tick, ControlInv
  <1>4. CASE Connect \/ ConnectCancelled \/ BudgetSpent \/ WriteFails \/ SelectDone
    BY <1>4 DEF Connect, ConnectCancelled, BudgetSpent, WriteFails, SelectDone, Classify, Over, time
  <1>5. CASE UNCHANGED <<result, hush>>
    BY <1>5
  <1>6. \/ SelectTimer \/ SelectResult \/ Tick \/ Connect \/ ConnectCancelled \/ BudgetSpent \/ WriteFails \/ SelectDone
        \/ UNCHANGED <<result, hush>>
    BY Zenon DEF Next, Environment, Goroutine, NextCall, Attempt, Ended, vars, time,
       SendPart, SendFrame, Arrives, EndBody, Cancel, ReadPart, ReadFrame, ReadFails, Send,
       CallNext, SelectActivity
  <1> QED BY <1>1, <1>2, <1>3, <1>4, <1>5, <1>6

\* An attempt ends with silent_hang only after a full deadline without a byte:
\* the reset of the timer in Next keeps timer + silence at the deadline or a
\* byte in front of the select (QuietInv).
THEOREM HangsAreSilence == Spec => []HangIsSilence
  <1>1. Init => ControlInv /\ QuietInv /\ HangIsSilence
    BY InitControl, InitQuiet DEF Init, HangIsSilence
  <1>2. ControlInv /\ QuietInv /\ HangIsSilence /\ [Next]_vars => (ControlInv /\ QuietInv /\ HangIsSilence)'
    BY NextControl, NextQuiet, NextHang
  <1> QED BY <1>1, <1>2, PTL DEF Spec, Safe

-----------------------------------------------------------------------------
\* Nothing has been sent, nothing is on its way.
LEMMA InitFlow == Init => FlowInv /\ EndInv
  <1> SUFFICES ASSUME Init PROVE FlowInv /\ EndInv
    OBVIOUS
  <1> DEFINE cut == [n \in 0 .. 0 |-> 0]
  <1>1. net = <<>> /\ sent = <<>> /\ delivered = <<>> /\ ch = <<>> /\ reader = "none"
    BY DEF Init
  <1>2. InHand = "nothing" /\ Held = 0
    BY <1>1 DEF InHand, Held, Meanings
  <1>3. Cuts(cut)
    BY <1>1, <1>2 DEF Cuts, CutsOf
  <1>4. FlowInv
    BY <1>1, <1>2, <1>3 DEF FlowInv, Meanings
  <1>5. EndInv
    BY <1>1, <1>2 DEF EndInv, Init, Ends
  <1> QED BY <1>4, <1>5

\* What is sent once a byte arrives.
Grown(frames, item) == IF item \in Meanings THEN Append(frames, item) ELSE frames

\* A byte that arrives belongs to the frame that is sent next.
LEMMA CutsGrow ==
    ASSUME NEW bytes \in Seq(Items), NEW frames \in Seq(Meanings), NEW d, NEW item \in Items,
           \E cut : CutsOf(cut, bytes, frames, d)
    PROVE  /\ \E cut : CutsOf(cut, Append(bytes, item), Grown(frames, item), d)
           /\ Append(bytes, item) \in Seq(Items)
           /\ Grown(frames, item) \in Seq(Meanings)
           /\ Len(Grown(frames, item)) >= Len(frames)
           /\ \A n \in 1 .. Len(frames) : Grown(frames, item)[n] = frames[n]
  <1>1. PICK cut : CutsOf(cut, bytes, frames, d)
    OBVIOUS
  <1> DEFINE m == Len(bytes)
             more == Append(bytes, item)
             grown == Grown(frames, item)
             new == [n \in 0 .. m + 1 |-> IF n <= m THEN cut[n] ELSE Len(grown)]
  <1>2. m \in Nat /\ more \in Seq(Items)
    OBVIOUS
  <1>4. /\ grown \in Seq(Meanings) /\ Len(grown) >= Len(frames) /\ Len(grown) \in Nat /\ Len(frames) \in Nat
        /\ \A n \in 1 .. Len(frames) : grown[n] = frames[n]
        /\ item \in Meanings => Len(grown) = Len(frames) + 1 /\ grown[Len(grown)] = item
        /\ item \notin Meanings => grown = frames
    <2>1. CASE item \in Meanings
      <3>1. grown = Append(frames, item)
        BY <2>1 DEF Grown
      <3> HIDE DEF grown
      <3> QED BY <2>1, <3>1
    <2>2. CASE item \notin Meanings
      <3>1. grown = frames
        BY <2>2 DEF Grown
      <3> HIDE DEF grown
      <3> QED BY <2>2, <3>1
    <2> QED BY <2>1, <2>2
  <1>5. /\ Len(more) = m + 1 /\ more[m + 1] = item
        /\ \A n \in 1 .. m : more[n] = bytes[n]
    OBVIOUS
  <1>6. /\ cut \in [0 .. m -> Nat] /\ cut[0] = d /\ cut[m] = Len(frames)
        /\ \A n \in 0 .. m : cut[n] <= Len(frames)
        /\ \A n \in 1 .. m : IF bytes[n] \in Meanings
                             THEN cut[n] = cut[n - 1] + 1 /\ bytes[n] = frames[cut[n]]
                             ELSE cut[n] = cut[n - 1]
    BY <1>1 DEF CutsOf
  <1>7. new = [n \in 0 .. m + 1 |-> IF n <= m THEN cut[n] ELSE Len(grown)]
    OBVIOUS
  <1> HIDE DEF new, grown, more, m
  <1>8. CutsOf(new, more, grown, d)
    <2>0. ASSUME NEW n \in 0 .. m PROVE new[n] = cut[n] /\ cut[n] \in Nat /\ cut[n] <= Len(frames)
      BY <1>2, <1>6, <1>7
    <2>1. new \in [0 .. m + 1 -> Nat] /\ new[0] = d /\ new[m + 1] = Len(grown)
      BY <1>2, <1>4, <1>6, <1>7
    <2>2. ASSUME NEW n \in 0 .. m + 1 PROVE new[n] <= Len(grown)
      <3>1. n \in 0 .. m \/ n = m + 1
        BY <1>2
      <3> QED BY <1>4, <2>0, <2>1, <3>1
    <2>3. ASSUME NEW n \in 1 .. m
          PROVE  IF more[n] \in Meanings THEN new[n] = new[n - 1] + 1 /\ more[n] = grown[new[n]]
                                         ELSE new[n] = new[n - 1]
      <3>1. n \in 0 .. m /\ n - 1 \in 0 .. m
        BY <1>2
      <3>2. new[n] = cut[n] /\ new[n - 1] = cut[n - 1] /\ more[n] = bytes[n]
        BY <3>1, <2>0, <1>5
      <3>3. cut[n] \in Nat /\ cut[n - 1] \in Nat /\ cut[n] <= Len(frames)
        BY <3>1, <2>0
      <3> QED BY SMTT(40), <3>2, <3>3, <1>4, <1>6
    <2>4. /\ item \in Meanings => new[m + 1] = new[m] + 1 /\ item = grown[new[m + 1]]
          /\ item \notin Meanings => new[m + 1] = new[m]
      <3>1. new[m] = Len(frames)
        BY <1>2, <1>6, <2>0
      <3> QED BY <3>1, <2>1, <1>4
    <2>5. ASSUME NEW n \in 1 .. m + 1
          PROVE  IF more[n] \in Meanings THEN new[n] = new[n - 1] + 1 /\ more[n] = grown[new[n]]
                                         ELSE new[n] = new[n - 1]
      <3>1. CASE n \in 1 .. m
        BY <2>3, <3>1
      <3>2. CASE n = m + 1
        <4>1. n - 1 = m
          BY <3>2, <1>2
        <4> QED BY <2>4, <3>2, <4>1, <1>5
      <3> QED BY <3>1, <3>2, <1>2
    <2> QED BY <2>1, <2>2, <2>5, <1>5 DEF CutsOf
  <1>9. more = Append(bytes, item) /\ grown = Grown(frames, item)
    BY DEF more, grown
  <1> QED BY <1>2, <1>4, <1>8, <1>9

\* So it does when several bytes arrive at once.
LEMMA ArrivalFlows ==
    ASSUME FlowInv, pc # "over", UNCHANGED <<pc, reader, value, ch, delivered>>,
           sent' \in Seq(Meanings), Len(sent') >= Len(sent),
           \A n \in 1 .. Len(sent) : sent'[n] = sent[n],
           \E cut : CutsOf(cut, net', sent', Len(delivered) + Held)
    PROVE  FlowInv'
  <1>1. PICK cut : Cuts(cut)
    BY DEF FlowInv
  <1>2. /\ sent \in Seq(Meanings) /\ delivered \in Seq(Meanings)
        /\ Len(delivered) <= Len(sent)
    BY DEF FlowInv
  <1>3. InHand' = InHand /\ Held' = Held
    BY DEF InHand, Held
  <1>4. \E c : Cuts(c)'
    BY <1>3 DEF Cuts
  <1>5. \A n \in 1 .. Len(delivered') : delivered'[n] = sent'[n]
    BY <1>2 DEF FlowInv
  <1>6. InHand \in Meanings => Len(delivered) + 1 <= Len(sent)
    <2>1. 0 \in 0 .. Len(net)
      OBVIOUS
    <2> QED BY <1>1, <1>2, <2>1 DEF Held, Cuts, CutsOf
  <1>7. InHand' \in Meanings => InHand' = sent'[Len(delivered') + 1]
    BY <1>2, <1>3, <1>6 DEF FlowInv
  <1> QED BY <1>2, <1>4, <1>5, <1>7 DEF FlowInv

\* The goroutine takes the next byte; a byte that completes a frame is in hand.
LEMMA ReadFlows ==
    ASSUME ControlInv, FlowInv, net # <<>>, net' = Tail(net), UNCHANGED <<pc, sent, delivered>>,
           InHand \notin Meanings, pc # "over",
           InHand' = IF Head(net) \in Meanings THEN Head(net) ELSE "nothing"
    PROVE  FlowInv'
  <1>1. PICK cut : Cuts(cut)
    BY DEF FlowInv
  <1> DEFINE m == Len(net)
  <1>2. net \in Seq(Items) /\ m \in Nat /\ m > 0 /\ Head(net) = net[1]
    BY DEF ControlInv
  <1>3. Len(net') = m - 1 /\ \A n \in 1 .. m - 1 : net'[n] = net[n + 1]
    BY <1>2
  <1>4. PICK new : new = [n \in 0 .. m - 1 |-> cut[n + 1]]
    OBVIOUS
  <1>5. /\ cut \in [0 .. m -> Nat] /\ cut[0] = Len(delivered) /\ cut[m] = Len(sent)
        /\ \A n \in 0 .. m : cut[n] <= Len(sent)
        /\ \A n \in 1 .. m : IF net[n] \in Meanings
                             THEN cut[n] = cut[n - 1] + 1 /\ net[n] = sent[cut[n]]
                             ELSE cut[n] = cut[n - 1]
    BY <1>1, <1>2 DEF Cuts, CutsOf, Held, FlowInv
  <1>6. IF net[1] \in Meanings THEN cut[1] = Len(delivered) + 1 /\ net[1] = sent[cut[1]]
                               ELSE cut[1] = Len(delivered)
    BY <1>2, <1>5
  <1>7. /\ Held' = IF net[1] \in Meanings THEN 1 ELSE 0
        /\ cut[1] = Len(delivered) + Held'
        /\ InHand' \in Meanings => InHand' = sent[Len(delivered) + 1]
    BY <1>2, <1>6 DEF Held, Meanings, FlowInv
  <1>8. Cuts(new)'
    <2>1. /\ new \in [0 .. Len(net') -> Nat] /\ new[0] = Len(delivered') + Held'
          /\ new[Len(net')] = Len(sent')
      BY <1>2, <1>3, <1>4, <1>5, <1>7
    <2>2. ASSUME NEW n \in 0 .. Len(net') PROVE new[n] <= Len(sent')
      <3>1. n + 1 \in 0 .. m /\ new[n] = cut[n + 1]
        BY <1>2, <1>3, <1>4
      <3> HIDE DEF m
      <3> QED BY <3>1, <1>5
    <2>3. ASSUME NEW n \in 1 .. Len(net')
          PROVE  IF net'[n] \in Meanings THEN new[n] = new[n - 1] + 1 /\ net'[n] = sent'[new[n]]
                                         ELSE new[n] = new[n - 1]
      <3>1. /\ n + 1 \in 1 .. m /\ new[n] = cut[n + 1] /\ new[n - 1] = cut[(n + 1) - 1]
            /\ net'[n] = net[n + 1]
        BY <1>2, <1>3, <1>4
      <3> HIDE DEF m
      <3> QED BY <3>1, <1>5
    <2> QED BY <2>1, <2>2, <2>3 DEF Cuts, CutsOf
  <1> QED BY <1>7, <1>8 DEF FlowInv

\* A step that moves no frame.
LEMMA StillFlows ==
    ASSUME FlowInv, UNCHANGED <<sent, delivered>>,
           \/ pc' = "over"
           \/ /\ pc # "over"
              /\ UNCHANGED net
              /\ InHand' = InHand \/ (InHand \notin Meanings /\ InHand' \notin Meanings)
    PROVE  FlowInv'
  <1>1. CASE pc' = "over"
    BY <1>1 DEF FlowInv
  <1>2. CASE pc # "over" /\ UNCHANGED net /\ (InHand' = InHand \/ (InHand \notin Meanings /\ InHand' \notin Meanings))
    <2>1. PICK cut : Cuts(cut)
      BY <1>2 DEF FlowInv
    <2>2. Held' = Held
      BY <1>2 DEF Held
    <2>3. Cuts(cut)'
      BY <1>2, <2>1, <2>2 DEF Cuts, CutsOf
    <2> QED BY <1>2, <2>3 DEF FlowInv
  <1> QED BY <1>1, <1>2

\* Next returns the frame in hand.
LEMMA DeliveryFlows ==
    ASSUME FlowInv, UNCHANGED <<sent, net>>, pc # "over",
           InHand \in Meanings, InHand' \notin Meanings, delivered' = Append(delivered, InHand)
    PROVE  FlowInv'
  <1>1. PICK cut : Cuts(cut)
    BY DEF FlowInv
  <1>2. /\ sent \in Seq(Meanings) /\ delivered \in Seq(Meanings)
        /\ delivered' \in Seq(Meanings) /\ Len(delivered') = Len(delivered) + 1
        /\ \A n \in 1 .. Len(delivered) : delivered'[n] = delivered[n]
        /\ delivered'[Len(delivered) + 1] = InHand
    BY DEF FlowInv
  <1>3. Held = 1 /\ Held' = 0
    BY DEF Held
  <1>4. cut[0] = Len(delivered) + 1 /\ cut[0] <= Len(sent)
    <2>1. Len(net) \in Nat => 0 \in 0 .. Len(net)
      OBVIOUS
    <2> QED BY <1>1, <1>3, <2>1 DEF Cuts, CutsOf
  <1>5. Cuts(cut)'
    BY <1>1, <1>2, <1>3, <1>4 DEF Cuts, CutsOf
  <1>6. \A n \in 1 .. Len(delivered') : delivered'[n] = sent'[n]
    <2>1. ASSUME NEW n \in 1 .. Len(delivered') PROVE delivered'[n] = sent'[n]
      <3>1. n \in 1 .. Len(delivered) \/ n = Len(delivered) + 1
        BY <1>2
      <3> QED BY <3>1, <1>2 DEF FlowInv
    <2> QED BY <2>1
  <1> QED BY <1>2, <1>4, <1>5, <1>6 DEF FlowInv

-----------------------------------------------------------------------------
\* Every step keeps the frames in order.
LEMMA NextFlow == ControlInv /\ ControlInv' /\ FlowInv /\ [Next]_vars => FlowInv'
  <1> SUFFICES ASSUME ControlInv, ControlInv', FlowInv, [Next]_vars PROVE FlowInv'
    OBVIOUS
  <1> USE DEF upstream, goroutine, chans, time
  <1>m. "part" \notin Meanings /\ "eof" \notin Meanings /\ "reset" \notin Meanings
        /\ "nothing" \notin Meanings /\ {"part", "eof", "reset"} \subseteq Items
    BY DEF Meanings, Items, Ends
  <1>f. /\ net \in Seq(Items) /\ sent \in Seq(Meanings) /\ delivered \in Seq(Meanings)
        /\ pc # "over" => \E cut : CutsOf(cut, net, sent, Len(delivered) + Held)
    BY DEF FlowInv, ControlInv, Cuts
  <1>0. ASSUME NEW item \in Items, pc # "over", net' = Append(net, item), sent' = Grown(sent, item),
               UNCHANGED <<pc, reader, value, ch, delivered>>
        PROVE  FlowInv'
    BY <1>0, <1>f, CutsGrow, ArrivalFlows
  <1>1. CASE SendPart
    BY <1>1, <1>m, <1>0 DEF SendPart, Arrives, Grown
  <1>2. ASSUME NEW f \in Frames[format], SendFrame(f) PROVE FlowInv'
    <2>1. ParseFrame(f, format) \in Meanings /\ ParseFrame(f, format) \in Items
      BY FrameHasMeaning DEF Items
    <2> QED BY <1>2, <2>1, <1>0 DEF SendFrame, Arrives, Grown
  <1>3. CASE EndBody
    <2>1. CASE net' = Append(net, "eof") /\ UNCHANGED sent
      BY <1>3, <2>1, <1>m, <1>0 DEF EndBody, Grown
    <2>2. CASE net' = Append(net, "reset") /\ UNCHANGED sent
      BY <1>3, <2>2, <1>m, <1>0 DEF EndBody, Grown
    <2>3. ASSUME NEW f \in Frames[format],
                 net' = net \o <<ParseFrame(f, format), "eof">>,
                 sent' = Append(sent, ParseFrame(f, format))
          PROVE  FlowInv'
      <3> DEFINE x == ParseFrame(f, format)
      <3>1. x \in Meanings /\ x \in Items
        BY FrameHasMeaning DEF Items
      <3> HIDE DEF x
      <3>2. sent' = Grown(sent, x) /\ sent' = Grown(Grown(sent, x), "eof")
        BY <2>3, <3>1, <1>m DEF Grown, x
      <3>3. net' = Append(Append(net, x), "eof")
        <4>1. net \o <<x, "eof">> = Append(Append(net, x), "eof")
          BY <3>1, <1>f, <1>m
        <4> QED BY <2>3, <4>1 DEF x
      <3>4. pc # "over" /\ UNCHANGED <<pc, reader, value, ch, delivered>>
        BY <1>3 DEF EndBody
      <3>5. /\ \E cut : CutsOf(cut, Append(net, x), Grown(sent, x), Len(delivered) + Held)
            /\ Append(net, x) \in Seq(Items) /\ Grown(sent, x) \in Seq(Meanings)
            /\ Len(Grown(sent, x)) >= Len(sent) /\ \A n \in 1 .. Len(sent) : Grown(sent, x)[n] = sent[n]
        BY <3>1, <3>4, <1>f, CutsGrow
      <3>6. \E cut : CutsOf(cut, Append(Append(net, x), "eof"), Grown(Grown(sent, x), "eof"),
                                 Len(delivered) + Held)
        BY <3>5, <1>m, CutsGrow
      <3> QED BY <3>2, <3>3, <3>4, <3>5, <3>6, ArrivalFlows
    <2> QED BY <1>3, <2>1, <2>2, <2>3 DEF EndBody
  <1>4. CASE Cancel
    <2>1. InHand' = InHand
      BY <1>4 DEF Cancel, InHand
    <2> QED BY <1>4, <2>1, StillFlows DEF Cancel
  <1>5. CASE ReadPart
    <2>1. CASE pc = "over"
      BY <1>5, <2>1, StillFlows DEF ReadPart
    <2>2. CASE pc # "over"
      <3>1. ch = <<>>
        BY <1>5, <2>2 DEF ReadPart, ControlInv
      <3>2. InHand = "nothing" /\ InHand' = "nothing"
        BY <1>5, <3>1 DEF ReadPart, InHand
      <3> QED BY <1>5, <1>m, <2>2, <3>2, ReadFlows DEF ReadPart
    <2> QED BY <2>1, <2>2
  <1>6. CASE ReadFrame
    <2>1. CASE pc = "over"
      BY <1>6, <2>1, StillFlows DEF ReadFrame
    <2>2. CASE pc # "over"
      <3>1. ch = <<>>
        BY <1>6, <2>2 DEF ReadFrame, ControlInv
      <3>2. InHand = "nothing" /\ InHand' = Head(net)
        BY <1>6, <3>1 DEF ReadFrame, InHand
      <3> QED BY <1>6, <1>m, <2>2, <3>2, ReadFlows DEF ReadFrame, Rest
    <2> QED BY <2>1, <2>2
  <1>7. CASE ReadFails
    <2>1. CASE pc = "over"
      BY <1>7, <2>1, StillFlows DEF ReadFails
    <2>2. CASE pc # "over"
      <3>1. ch = <<>>
        BY <1>7, <2>2 DEF ReadFails, ControlInv
      <3>2. InHand = "nothing" /\ InHand' \in {"eof", "reset", "canceled", "closed"}
        BY <1>7, <3>1 DEF ReadFails, InHand
      <3>3. InHand \notin Meanings /\ InHand' \notin Meanings
        BY <3>2 DEF Meanings
      <3> QED BY <1>7, <2>2, <3>3, StillFlows DEF ReadFails
    <2> QED BY <2>1, <2>2
  <1>8. CASE Send
    <2>1. CASE pc = "over"
      BY <1>8, <2>1, StillFlows DEF Send
    <2>2. CASE pc # "over"
      <3>1. InHand' = InHand
        BY <1>8 DEF Send, CanSend, InHand
      <3> QED BY <1>8, <2>2, <3>1, StillFlows DEF Send
    <2> QED BY <2>1, <2>2
  <1>9. CASE Connect
    <2>1. InHand' = InHand /\ pc # "over"
      BY <1>9 DEF Connect, InHand
    <2> QED BY <1>9, <2>1, StillFlows DEF Connect
  <1>10. CASE ConnectCancelled \/ BudgetSpent \/ WriteFails \/ SelectDone \/ SelectTimer
    BY <1>10, StillFlows DEF ConnectCancelled, BudgetSpent, WriteFails, SelectDone, SelectTimer, OnHang, Over
  <1>11. CASE CallNext
    <2>1. ch = <<>> /\ reader = "none"
      BY <1>11 DEF CallNext, ControlInv
    <2>2. InHand = "nothing" /\ InHand' = "nothing" /\ pc # "over"
      BY <1>11, <2>1 DEF CallNext, InHand
    <2> QED BY <1>11, <1>m, <2>2, StillFlows DEF CallNext
  <1>12. CASE SelectActivity
    <2>1. InHand' = InHand /\ pc # "over"
      BY <1>12 DEF SelectActivity, InHand
    <2> QED BY <1>12, <2>1, StillFlows DEF SelectActivity
  <1>13. CASE SelectResult
    <2>1. ch # <<>> /\ reader = "none" /\ ch' = <<>> /\ reader' = "none" /\ pc # "over"
      BY <1>13 DEF SelectResult, ControlInv
    <2>2. InHand = Head(ch) /\ InHand' = "nothing"
      BY <2>1 DEF InHand
    <2>3. CASE Head(ch) \in {"text", "blank", "usage", "skip"}
      <3>1. InHand \in Meanings
        BY <2>2, <2>3 DEF Meanings
      <3> QED BY <1>13, <1>m, <2>1, <2>2, <2>3, <3>1, DeliveryFlows DEF SelectResult
    <2>4. CASE Head(ch) \notin {"text", "blank", "usage", "skip"}
      BY <1>13, <2>4, StillFlows DEF SelectResult, Over
    <2> QED BY <2>3, <2>4
  <1>14. CASE Tick
    <2>1. InHand' = InHand /\ pc # "over"
      BY <1>14 DEF Tick, InHand
    <2> QED BY <1>14, <2>1, StillFlows DEF Tick
  <1>15. CASE UNCHANGED vars
    <2>1. InHand' = InHand
      BY <1>15 DEF vars, InHand
    <2> QED BY <1>15, <2>1, StillFlows DEF vars
  <1> QED BY <1>1, <1>2, <1>3, <1>4, <1>5, <1>6, <1>7, <1>8, <1>9, <1>10, <1>11, <1>12, <1>13, <1>14, <1>15
          DEF Next, Environment, Goroutine, NextCall, Attempt, Ended

-----------------------------------------------------------------------------
\* Every step keeps the end of the body where it is: behind everything else, and
\* seen by nobody who has not read what came before it.
LEMMA NextEnd == ControlInv /\ EndInv /\ [Next]_vars => EndInv'
  <1> SUFFICES ASSUME ControlInv, EndInv, [Next]_vars PROVE EndInv'
    OBVIOUS
  <1> USE DEF upstream, goroutine, chans, time
  <1>n. net \in Seq(Items)
    BY DEF ControlInv
  <1>e. up # "ended" => \A n \in 1 .. Len(net) : net[n] \notin Ends
    BY DEF EndInv
  <1>m. /\ \A x \in Meanings : x \notin Ends
        /\ "part" \notin Ends /\ "nothing" \notin Ends /\ "canceled" \notin Ends /\ "closed" \notin Ends
    BY DEF Meanings, Ends
  <1>0. ASSUME NEW item, item \notin Ends, Arrives(item), UNCHANGED up PROVE EndInv'
    <2>1. InHand' = InHand /\ up = "streaming" /\ pc' = pc
      BY <1>0 DEF Arrives, InHand
    <2>2. \A n \in 1 .. Len(net') : net'[n] \notin Ends
      BY <1>0, <1>n, <1>e, <2>1 DEF Arrives
    <2> QED BY <1>0, <2>1, <2>2 DEF EndInv
  <1>1. CASE SendPart
    BY <1>0, <1>1, <1>m DEF SendPart
  <1>2. ASSUME NEW f \in Frames[format], SendFrame(f) PROVE EndInv'
    BY <1>0, <1>2, <1>m, FrameHasMeaning DEF SendFrame
  <1>3. CASE EndBody
    <2>1. InHand' = InHand /\ up = "streaming" /\ up' = "ended" /\ pc' = pc
      BY <1>3 DEF EndBody, InHand
    <2>2. \A n \in 1 .. Len(net) : net[n] \notin Ends
      BY <1>e, <2>1
    <2>3. CASE \E x : net' = Append(net, x)
      BY <1>n, <2>1, <2>2, <2>3 DEF EndInv
    <2>4. ASSUME NEW f, net' = net \o <<ParseFrame(f, format), "eof">> PROVE EndInv'
      <3>1. ParseFrame(f, format) \notin Ends
        BY FrameHasMeaning, <1>m
      <3>2. \A n \in 1 .. Len(net') : net'[n] \in Ends => n = Len(net')
        BY <1>n, <2>2, <2>4, <3>1
      <3> QED BY <2>1, <3>2 DEF EndInv
    <2> QED BY <1>3, <2>3, <2>4, Zenon DEF EndBody
  <1>4. CASE ReadPart \/ ReadFrame
    <2>1. net # <<>> /\ net' = Tail(net) /\ up' = up /\ pc' = pc
      BY <1>4 DEF ReadPart, ReadFrame, Rest
    <2>2. \A n \in 1 .. Len(net') : net'[n] \in Ends => n = Len(net') /\ up' = "ended"
      <3>1. Len(net') = Len(net) - 1 /\ \A n \in 1 .. Len(net') : net'[n] = net[n + 1] /\ n + 1 \in 1 .. Len(net)
        BY <1>n, <2>1
      <3> QED BY <3>1, <1>n, <2>1 DEF EndInv
    <2>3. ReadPart => InHand' = InHand
      BY DEF ReadPart, InHand
    <2>4. ReadFrame => InHand' = InHand \/ InHand' \in Meanings
      BY DEF ReadFrame, InHand
    <2> QED BY <1>4, <1>m, <2>1, <2>2, <2>3, <2>4 DEF EndInv
  <1>5. CASE ReadFails
    <2>1. InHand' \in Ends => InHand' = InHand \/ (net # <<>> /\ Head(net) \in Ends)
      BY <1>5 DEF ReadFails, InHand, Ends
    <2>2. net # <<>> /\ Head(net) \in Ends => up = "ended"
      BY <1>n DEF EndInv
    <2> QED BY <1>5, <2>1, <2>2 DEF EndInv, ReadFails
  <1>6. CASE Send
    <2>1. InHand' = InHand
      BY <1>6 DEF Send, CanSend, InHand
    <2> QED BY <1>6, <2>1 DEF EndInv, Send
  <1>7. CASE Connect
    <2>1. InHand' = InHand /\ pc = "connect" /\ up = "connecting" /\ pc' # "connect" /\ net' = net
      BY <1>7 DEF Connect, Over, InHand, EndInv
    <2>2. InHand \notin Ends
      BY <2>1 DEF EndInv
    <2> QED BY <1>e, <2>1, <2>2 DEF EndInv
  <1>8. CASE ConnectCancelled \/ BudgetSpent \/ WriteFails \/ SelectDone \/ SelectTimer
    BY <1>8 DEF EndInv, ConnectCancelled, BudgetSpent, WriteFails, SelectDone, SelectTimer, OnHang, Over
  <1>9. CASE CallNext
    <2>1. InHand' = "nothing" /\ pc' = "select"
      BY <1>9 DEF CallNext, InHand
    <2> QED BY <1>9, <1>m, <2>1 DEF EndInv, CallNext
  <1>10. CASE SelectActivity \/ Tick \/ Cancel \/ UNCHANGED vars
    <2>1. InHand' = InHand
      BY <1>10 DEF SelectActivity, Tick, Cancel, vars, InHand
    <2> QED BY <1>10, <2>1 DEF EndInv, SelectActivity, Tick, Cancel, vars
  <1>11. CASE SelectResult
    <2>1. reader' = "none" /\ ch' = <<>>
      BY <1>11 DEF SelectResult, ControlInv
    <2>2. InHand' = "nothing"
      BY <2>1 DEF InHand
    <2> QED BY <1>11, <1>m, <2>2 DEF EndInv, SelectResult, Over
  <1> QED BY <1>1, <1>2, <1>3, <1>4, <1>5, <1>6, <1>7, <1>8, <1>9, <1>10, <1>11
          DEF Next, Environment, Goroutine, NextCall, Attempt, Ended

-----------------------------------------------------------------------------
\* What the end of an attempt leaves: nobody reads on after dead_socket, all
\* frames were delivered if the body ended in order, and the outcome has a cause.
VerdictInv ==
    /\ result = "dead_socket" => reader = "none"
    /\ result = "dead_socket" /\ net # <<>> /\ Head(net) = "eof" => delivered = sent
    /\ OutcomeHasCause

\* Every step keeps the outcome of the attempt one that has a cause.
LEMMA NextVerdict ==
    ControlInv /\ FlowInv /\ EndInv /\ VerdictInv /\ [Next]_vars => VerdictInv'
  <1> SUFFICES ASSUME ControlInv, FlowInv, EndInv, VerdictInv, [Next]_vars PROVE VerdictInv'
    OBVIOUS
  <1> USE DEF upstream, goroutine, chans, time, history
  <1>1. CASE pc = "over"
    <2>1. UNCHANGED <<result, sent, delivered, up, client>>
      BY <1>1 DEF Next, Environment, Goroutine, NextCall, Attempt, Ended, vars,
         SendPart, SendFrame, Arrives, EndBody, Cancel, ReadPart, ReadFrame, ReadFails, Send, CallNext,
         Connect, ConnectCancelled, BudgetSpent, WriteFails, SelectDone, SelectTimer, SelectActivity, SelectResult, Tick
    <2>2. reader = "none" => UNCHANGED <<reader, net>>
      BY <1>1 DEF Next, Environment, Goroutine, NextCall, Attempt, Ended, vars,
         SendPart, SendFrame, Arrives, EndBody, Cancel, ReadPart, ReadFrame, ReadFails, Send, CallNext,
         Connect, ConnectCancelled, BudgetSpent, WriteFails, SelectDone, SelectTimer, SelectActivity, SelectResult, Tick
    <2> QED BY <2>1, <2>2 DEF VerdictInv, OutcomeHasCause
  <1>2. CASE pc # "over" /\ result' \in {"running", "canceled", "budget_exceeded", "silent_hang"} /\ UNCHANGED client
    <2>1. client # "gone"
      BY <1>2 DEF ControlInv, VerdictInv, OutcomeHasCause
    <2> QED BY <1>2, <2>1 DEF VerdictInv, OutcomeHasCause
  <1>3. CASE Connect
    <2>1. pc = "connect" /\ reader = "none" /\ up = "connecting" /\ result = "running"
      BY <1>3 DEF Connect, ControlInv, EndInv
    <2>2. net \in Seq(Items) /\ (net # <<>> => Head(net) \notin Ends)
      BY <2>1 DEF ControlInv, EndInv
    <2>3. /\ result' = "dead_socket" => up' = "unreachable"
          /\ result' = "malformed" => up' = "refusing"
          /\ result' # "success" /\ reader' = reader /\ net' = net /\ client' = client
      BY <1>3, <2>1 DEF Connect, Over
    <2>4. client # "gone"
      BY <2>1 DEF VerdictInv, OutcomeHasCause
    <2> QED BY <2>1, <2>2, <2>3, <2>4 DEF VerdictInv, OutcomeHasCause, Ends
  <1>4. CASE SelectResult /\ result' # "running"
    <2>1. /\ pc = "select" /\ result = "running" /\ ch # <<>> /\ reader = "none" /\ Head(ch) \in Values
          /\ UNCHANGED <<net, sent, delivered, up, reader, client>>
      BY <1>4 DEF SelectResult, ControlInv
    <2>2. Head(ch) \notin {"text", "blank", "usage", "skip"} /\ result' = Outcome(Head(ch))
      BY <1>4, <2>1 DEF SelectResult, Over
    <2>3. InHand = Head(ch)
      BY <2>1 DEF InHand
    <2>4. PICK cut : Cuts(cut)
      BY <2>1 DEF FlowInv
    <2>5. InHand \in Meanings => Len(sent) > Len(delivered) /\ sent[Len(delivered) + 1] = InHand
      <3>1. 0 \in 0 .. Len(net)
        OBVIOUS
      <3>2. InHand \in Meanings => Len(delivered) + 1 <= Len(sent)
        BY <2>4, <3>1 DEF Held, Cuts, CutsOf
      <3> QED BY <2>1, <3>2 DEF FlowInv
    <2>6. OutcomeHasCause'
      <3>1. /\ result' = "malformed" => InHand = "malformed"
            /\ result' = "success" => InHand = "done"
            /\ result' = "dead_socket" => InHand \in Ends
        BY <2>1, <2>2, <2>3, OutcomeType
      <3>2. InHand \in Ends => up = "ended"
        BY <2>1 DEF EndInv
      <3>3. client # "gone"
        BY <2>1 DEF VerdictInv, OutcomeHasCause
      <3> QED BY <2>1, <2>5, <3>1, <3>2, <3>3 DEF OutcomeHasCause, Meanings
    <2>7. ASSUME result' = "dead_socket", net # <<>>, Head(net) = "eof" PROVE delivered = sent
      <3>1. InHand \in Ends
        BY <2>1, <2>2, <2>3, <2>7, OutcomeType
      <3>2. net \in Seq(Items) /\ 1 \in 1 .. Len(net) /\ net[1] \in Ends /\ net[1] \notin Meanings
        BY <2>7 DEF ControlInv, Ends, Meanings
      <3>3. Len(net) = 1
        BY <3>2 DEF EndInv
      <3>4. Held = 0
        BY <3>1 DEF Held, Ends, Meanings
      <3>5. Len(sent) = Len(delivered)
        BY <2>4, <3>2, <3>3, <3>4 DEF Cuts, CutsOf, FlowInv
      <3> QED BY <3>5, SeqEqual DEF FlowInv
    <2> QED BY <2>1, <2>6, <2>7 DEF VerdictInv
  <1>5. CASE WriteFails
    <2>1. /\ pc = "loop" /\ reader = "none" /\ ch = <<>> /\ result' = "dead_socket" /\ client' = "gone"
          /\ UNCHANGED <<net, sent, delivered, up, reader>>
      BY <1>5 DEF WriteFails, ControlInv, Classify, Over
    <2>2. OutcomeHasCause'
      BY <2>1 DEF OutcomeHasCause
    <2>3. ASSUME net # <<>>, Head(net) = "eof" PROVE delivered = sent
      <3>1. net \in Seq(Items) /\ 1 \in 1 .. Len(net) /\ net[1] \in Ends /\ net[1] \notin Meanings
        BY <2>3 DEF ControlInv, Ends, Meanings
      <3>2. Len(net) = 1
        BY <3>1 DEF EndInv
      <3>3. Held = 0
        BY <2>1 DEF Held, InHand, Meanings
      <3>4. PICK cut : Cuts(cut)
        BY <2>1 DEF FlowInv
      <3>5. Len(sent) = Len(delivered)
        BY <3>1, <3>2, <3>3, <3>4 DEF Cuts, CutsOf, FlowInv
      <3> QED BY <3>5, SeqEqual DEF FlowInv
    <2> QED BY <2>1, <2>2, <2>3 DEF VerdictInv
  <1>6. pc # "over" => \/ result' \in {"running", "canceled", "budget_exceeded", "silent_hang"} /\ UNCHANGED client
                       \/ Connect
                       \/ WriteFails
                       \/ SelectResult /\ result' # "running"
    <2>1. pc # "over" => result = "running"
      BY DEF ControlInv
    <2> QED BY <2>1 DEF Next, Environment, Goroutine, NextCall, Attempt, Ended, vars,
         SendPart, SendFrame, Arrives, EndBody, Cancel, ReadPart, ReadFrame, ReadFails, Send, CallNext,
         ConnectCancelled, BudgetSpent, SelectDone, SelectTimer, SelectActivity, SelectResult, Tick, OnHang, Over
  <1> QED BY <1>1, <1>2, <1>3, <1>4, <1>5, <1>6

\* The inductive invariant behind the two theorems below.
OrderInv == ControlInv /\ FlowInv /\ EndInv /\ VerdictInv

\* Order and verdict hold in every state: the invariant of both theorems below.
LEMMA OrderAlways == Spec => []OrderInv
  <1>1. Init => OrderInv
    <2>1. Init => VerdictInv
      BY DEF Init, VerdictInv, OutcomeHasCause
    <2> QED BY <2>1, InitControl, InitFlow DEF OrderInv
  <1>2. OrderInv /\ [Next]_vars => OrderInv'
    BY NextControl, NextFlow, NextEnd, NextVerdict DEF OrderInv
  <1> QED BY <1>1, <1>2, PTL DEF Spec, Safe

\* Frames reach runAttempt once and in the order they were sent, however Next, its
\* goroutine and the upstream interleave, and none is missing when the body ends in
\* order.
THEOREM OrderIsKept == Spec => []FramesArriveInOrder
  <1>1. OrderInv => FramesArriveInOrder
    <2> SUFFICES ASSUME OrderInv PROVE FramesArriveInOrder
      OBVIOUS
    <2>1. /\ sent \in Seq(Meanings) /\ delivered \in Seq(Meanings) /\ Len(delivered) <= Len(sent)
          /\ \A n \in 1 .. Len(delivered) : delivered[n] = sent[n]
      BY DEF OrderInv, FlowInv
    <2>2. SubSeq(delivered, 1, Len(delivered)) = SubSeq(sent, 1, Len(delivered))
      BY <2>1
    <2> QED BY <2>1, <2>2 DEF OrderInv, VerdictInv, FramesArriveInOrder, IsPrefix
  <1> QED BY <1>1, OrderAlways, PTL

\* What runAttempt reports to the breaker and the client has a cause: a frame that
\* does not parse, an error status, a connection that was refused or ended, or a
\* client that could not be written to, the one case that blames a healthy upstream.
THEOREM OutcomesHaveCauses == Spec => []OutcomeHasCause
  <1>1. OrderInv => OutcomeHasCause
    BY DEF OrderInv, VerdictInv
  <1> QED BY <1>1, OrderAlways, PTL
=============================================================================
