------------------------- MODULE ProtocolInbox_proofs -------------------------
(***************************************************************************)
(* Proofs about ProtocolInbox for every capacity and every client: type    *)
(* correctness, the bound on a batch, that a flush is answered once, that  *)
(* a batch captures what the relay had accepted, and that no message is    *)
(* lost or overtaken.                                                      *)
(***************************************************************************)
EXTENDS ProtocolInbox, SequenceTheorems, TLAPS

\* The relay is serving the flush that the owner waits for.
Serving == relay \in {"flush", "flushSend", "report"}

\* Every message the relay has forwarded is in the queue or consumed, and it
\* holds a message exactly while it is sending one.
Counting ==
    /\ forwarded = consumed + Len(queue)
    /\ relay \in {"send", "flushSend"} => Len(held) = 1
    /\ relay \in {"select", "flush", "report"} => held = <<>>
    /\ Len(held) <= 1

\* The relay ends when the owner has stopped it or the client has closed.
Ending ==
    /\ stop => owner \in {"joining", "joined"}
    /\ relay \in {"closing", "done"} => ~open \/ stop

\* Where the one flush request, or its answer, is.
Handshake ==
    /\ Serving => owner = "drain" /\ target = Unknown /\ flushed = <<>> /\ ~flush
    /\ flushed # <<>> => /\ owner = "drain" /\ target = Unknown /\ ~flush
                         /\ Len(flushed) = 1
    /\ flush /\ relay \notin {"closing", "done"} => owner = "drain" /\ target = Unknown
    /\ flush /\ relay # "done" => owner \notin {"idle", "request"}
    /\ flush /\ relay # "done" /\ owner = "handle" => eof
    /\ owner = "drain" /\ target = Unknown => Serving \/ flush \/ flushed # <<>>
    /\ owner = "drain" /\ target # Unknown => ~flush

\* How many messages the open batch can still take.
Room ==
    /\ owner = "idle" => batch = <<>>
    /\ owner = "request" => Len(batch) = 1
    /\ owner = "drain" /\ flush => Len(batch) + Len(queue) + Len(held) <= QueueCap + 2
    /\ Serving => /\ relay # "report" => Len(batch) + Len(queue) + Len(held) + left <= 2 * QueueCap + 2
                  /\ relay = "report" => Len(batch) + Len(queue) <= 2 * QueueCap + 2
    /\ flushed # <<>> => /\ Head(flushed) <= consumed + Len(queue)
                         /\ Head(flushed) > consumed =>
                               Len(batch) + Head(flushed) - consumed <= 2 * QueueCap + 2
    /\ owner = "drain" /\ target # Unknown =>
          /\ target <= consumed + Len(queue)
          /\ target > consumed => Len(batch) + target - consumed <= 2 * QueueCap + 2
    /\ Len(batch) <= 2 * QueueCap + 2

\* What the relay had accepted is forwarded before the flush is answered.
Captured ==
    owner = "drain" =>
        /\ accepted <= forwarded + Len(held)
        /\ flushed # <<>> => accepted <= Head(flushed)
        /\ target # Unknown => accepted <= target

IInv == TypeOK /\ Counting /\ Ending /\ Handshake /\ Room /\ Captured

-----------------------------------------------------------------------------
(* What the channel operations do to the lengths.                          *)

\* Consuming moves one message from the queue to the batch.
LEMMA ConsumeFacts ==
    ASSUME TypeOK, Consume
    PROVE  /\ queue' \in Seq(Nat) /\ batch' \in Seq(Nat) /\ consumed' = consumed + 1
           /\ Len(queue') = Len(queue) - 1 /\ Len(queue) > 0
           /\ Len(batch') = Len(batch) + 1
BY DEF TypeOK, Consume

\* The relay takes one message off the transport.
LEMMA TakeHeadFacts ==
    ASSUME TypeOK, NEW next, TakeHead(next)
    PROVE  /\ held' \in Seq(Nat) /\ Len(held') = 1 /\ source' \in Seq(Nat) /\ relay' = next
BY DEF TypeOK, TakeHead

\* Forwarding moves the message in the relay's hand to the queue.
LEMMA ForwardFacts ==
    ASSUME TypeOK, Counting, Forward
    PROVE  /\ queue' \in Seq(Nat) /\ Len(queue') = Len(queue) + 1
           /\ held' = <<>> /\ Len(held') = 0 /\ Len(held) = 1 /\ forwarded' = forwarded + 1
<1>1. Len(held) = 1 /\ held' = <<>> /\ forwarded' = forwarded + 1 BY DEF Counting, Forward
<1>2. queue \o held \in Seq(Nat) /\ Len(queue \o held) = Len(queue) + Len(held) BY DEF TypeOK
<1>3. queue' = queue \o held BY DEF Forward
<1>4. QED BY <1>1, <1>2, <1>3

\* The capacity is a positive number.
LEMMA CapIsNat == QueueCap \in Nat /\ QueueCap > 0 /\ QueueCap \in 0..QueueCap
BY InboxCapacities

\* Lengths and counters are numbers.
LEMMA Lengths ==
    ASSUME TypeOK
    PROVE  /\ Len(batch) \in Nat /\ Len(queue) \in Nat /\ Len(held) \in Nat
           /\ left \in Nat /\ consumed \in Nat
BY CapIsNat DEF TypeOK

-----------------------------------------------------------------------------
\* The types are preserved by every step that starts from the invariant.
LEMMA TypeStep ==
    ASSUME IInv, [Next]_vars
    PROVE  TypeOK'
<1> USE CapIsNat DEF IInv, TypeOK, Unknown
<1>1. CASE Send BY <1>1 DEF Send, thread, loop
<1>2. CASE CloseSource BY <1>2 DEF CloseSource, thread, loop
<1>3. CASE RelayStops \/ SourceClosed \/ FlushEnds \/ RelayEnds
      BY <1>3 DEF RelayStops, SourceClosed, FlushEnds, RelayEnds, client, loop
<1>4. CASE TakeFlush
  <2>1. flush' = FALSE /\ relay' = "flush" /\ left' = QueueCap
        /\ UNCHANGED <<client, source, held, forwarded, queue, flushed, stop, loop>>
        BY <1>4 DEF TakeFlush
  <2>2. QED BY <2>1 DEF client, loop
<1>5. CASE TakeMessage BY <1>5, TakeHeadFacts DEF TakeMessage, client, loop
<1>6. CASE FlushMessage BY <1>6, TakeHeadFacts DEF FlushMessage, client, loop
<1>7. CASE Forward BY <1>7, ForwardFacts DEF Forward, client, loop
<1>8. CASE Report BY <1>8 DEF Report, client, loop
<1>9. CASE ReceiveFirst
  <2>1. Consume /\ TypeOK /\ owner' = "request"
        /\ UNCHANGED <<client, source, thread, flush, flushed, stop, target, eof, handled, accepted>>
        BY <1>9 DEF ReceiveFirst
  <2>2. QED BY <2>1, ConsumeFacts DEF client, thread
<1>10. CASE DrainOne BY <1>10, ConsumeFacts DEF DrainOne, client, thread
<1>11. CASE ReceiveClosed \/ FlushedGone \/ QueueGone \/ BatchCovered
       BY <1>11 DEF ReceiveClosed, FlushedGone, QueueGone, BatchCovered, client, thread
<1>12. CASE RequestFlush
  <2>1. UNCHANGED <<client, source, thread, queue, flushed, stop, consumed, batch, eof, handled>>
        BY <1>12 DEF RequestFlush
  <2>2. CASE relay = "done"
    <3>1. owner' = "handle" /\ UNCHANGED <<flush, target, accepted>>
          BY <1>12, <2>2 DEF RequestFlush
    <3>2. QED BY <2>1, <3>1 DEF client, thread
  <2>3. CASE relay # "done"
    <3>1. flush' = TRUE /\ owner' = "drain" /\ target' = Unknown
          /\ accepted' = forwarded + Len(held)
          BY <1>12, <2>3 DEF RequestFlush
    <3>2. QED BY <2>1, <3>1 DEF client, thread
  <2>4. QED BY <2>2, <2>3
<1>13. CASE GetTarget
  <2>1. Head(flushed) \in Nat BY <1>13 DEF GetTarget
  <2>2. QED BY <2>1, <1>13 DEF GetTarget, client, thread
<1>14. CASE HandleBatch BY <1>14 DEF HandleBatch, client, thread
<1>15. CASE ExitBatch
  <2>1. PICK n \in DOMAIN batch : handled' = handled \o SubSeq(batch, 1, n)
        BY <1>15 DEF ExitBatch
  <2>2. SubSeq(batch, 1, n) \in Seq(Nat) BY <2>1, SMTT(30)
  <2>3. QED BY <2>1, <2>2, <1>15 DEF ExitBatch, client, thread
<1>16. CASE Finish \/ Join BY <1>16 DEF Finish, Join, client, thread
<1>17. CASE UNCHANGED vars BY <1>17 DEF vars, client, thread, loop
<1>18. QED
  BY <1>1, <1>2, <1>3, <1>4, <1>5, <1>6, <1>7, <1>8, <1>9, <1>10, <1>11, <1>12, <1>13,
     <1>14, <1>15, <1>16, <1>17 DEF Next, Relay, Owner, Batch, Terminated
-----------------------------------------------------------------------------
\* Counting is preserved: a message is forwarded once and consumed once.
LEMMA CountingStep ==
    ASSUME IInv, [Next]_vars, TypeOK'
    PROVE  Counting'
<1> USE DEF IInv, Counting, TypeOK
<1>1. CASE Send
      BY <1>1 DEF Send, thread, loop
<1>2. CASE CloseSource
      BY <1>2 DEF CloseSource, thread, loop
<1>3. CASE RelayStops
      BY <1>3 DEF RelayStops, client, loop
<1>4. CASE SourceClosed
      BY <1>4 DEF SourceClosed, client, loop
<1>5. CASE FlushEnds
      BY <1>5 DEF FlushEnds, client, loop
<1>6. CASE RelayEnds
      BY <1>6 DEF RelayEnds, client, loop
<1>7. CASE TakeFlush
      BY <1>7, CapIsNat DEF TakeFlush, client, loop
<1>8. CASE TakeMessage
  <2>1. Len(held') = 1
        BY <1>8, TakeHeadFacts DEF TakeMessage
  <2>2. QED BY <1>8, <2>1 DEF TakeMessage, client, loop, TakeHead
<1>9. CASE FlushMessage
  <2>1. Len(held') = 1
        BY <1>9, TakeHeadFacts DEF FlushMessage
  <2>2. QED BY <1>9, <2>1 DEF FlushMessage, client, loop, TakeHead
<1>10. CASE Forward
  <2>1. Len(queue') = Len(queue) + 1 /\ Len(held) = 1 /\ held' = <<>>
        /\ Len(held') = 0 /\ forwarded' = forwarded + 1
        BY <1>10, ForwardFacts DEF Forward
  <2>2. QED BY <1>10, <2>1 DEF Forward, client, loop
<1>11. CASE Report
      BY <1>11 DEF Report, client, loop
<1>12. CASE ReceiveFirst
  <2>1. consumed' = consumed + 1 /\ Len(queue') = Len(queue) - 1
        /\ Len(queue) > 0 /\ Len(batch') = Len(batch) + 1
        BY <1>12, ConsumeFacts DEF ReceiveFirst
  <2>2. QED BY <1>12, <2>1 DEF ReceiveFirst, client, thread
<1>13. CASE DrainOne
  <2>1. consumed' = consumed + 1 /\ Len(queue') = Len(queue) - 1
        /\ Len(queue) > 0 /\ Len(batch') = Len(batch) + 1
        BY <1>13, ConsumeFacts DEF DrainOne
  <2>2. QED BY <1>13, <2>1 DEF DrainOne, client, thread
<1>14. CASE ReceiveClosed
      BY <1>14 DEF ReceiveClosed, client, thread
<1>15. CASE FlushedGone
      BY <1>15 DEF FlushedGone, client, thread
<1>16. CASE QueueGone
      BY <1>16 DEF QueueGone, client, thread
<1>17. CASE BatchCovered
      BY <1>17 DEF BatchCovered, client, thread, Covered
<1>18. CASE RequestFlush
      BY <1>18 DEF RequestFlush, client, thread
<1>19. CASE GetTarget
      BY <1>19 DEF GetTarget, client, thread
<1>20. CASE HandleBatch
      BY <1>20 DEF HandleBatch, client, thread
<1>21. CASE ExitBatch
      BY <1>21 DEF ExitBatch, client, thread
<1>22. CASE Finish
      BY <1>22 DEF Finish, client, thread
<1>23. CASE Join
      BY <1>23 DEF Join, client, thread
<1>24. CASE UNCHANGED vars
      BY <1>24 DEF vars, client, thread, loop
<1>25. QED
  BY <1>1, <1>2, <1>3, <1>4, <1>5, <1>6, <1>7, <1>8, <1>9, <1>10, <1>11, <1>12, <1>13, <1>14, <1>15, <1>16, <1>17, <1>18, <1>19, <1>20, <1>21, <1>22, <1>23, <1>24
     DEF Next, Relay, Owner, Batch, Terminated

-----------------------------------------------------------------------------
\* Ending is preserved.
LEMMA EndingStep ==
    ASSUME IInv, [Next]_vars, TypeOK'
    PROVE  Ending'
<1> USE DEF IInv, Ending, TypeOK
<1>1. CASE Send
      BY <1>1 DEF Send, thread, loop
<1>2. CASE CloseSource
      BY <1>2 DEF CloseSource, thread, loop
<1>3. CASE RelayStops
      BY <1>3 DEF RelayStops, client, loop
<1>4. CASE SourceClosed
      BY <1>4 DEF SourceClosed, client, loop
<1>5. CASE FlushEnds
      BY <1>5 DEF FlushEnds, client, loop
<1>6. CASE RelayEnds
      BY <1>6 DEF RelayEnds, client, loop
<1>7. CASE TakeFlush
      BY <1>7 DEF TakeFlush, client, loop
<1>8. CASE TakeMessage
      BY <1>8, TakeHeadFacts DEF TakeMessage, client, loop, TakeHead
<1>9. CASE FlushMessage
      BY <1>9, TakeHeadFacts DEF FlushMessage, client, loop, TakeHead
<1>10. CASE Forward
      BY <1>10 DEF Forward, client, loop
<1>11. CASE Report
      BY <1>11 DEF Report, client, loop
<1>12. CASE ReceiveFirst
      BY <1>12 DEF ReceiveFirst, client, thread
<1>13. CASE DrainOne
      BY <1>13 DEF DrainOne, client, thread
<1>14. CASE ReceiveClosed
      BY <1>14 DEF ReceiveClosed, client, thread
<1>15. CASE FlushedGone
      BY <1>15 DEF FlushedGone, client, thread
<1>16. CASE QueueGone
      BY <1>16 DEF QueueGone, client, thread
<1>17. CASE BatchCovered
      BY <1>17 DEF BatchCovered, client, thread, Covered
<1>18. CASE RequestFlush
      BY <1>18 DEF RequestFlush, client, thread
<1>19. CASE GetTarget
      BY <1>19 DEF GetTarget, client, thread
<1>20. CASE HandleBatch
      BY <1>20 DEF HandleBatch, client, thread
<1>21. CASE ExitBatch
      BY <1>21 DEF ExitBatch, client, thread
<1>22. CASE Finish
      BY <1>22 DEF Finish, client, thread
<1>23. CASE Join
      BY <1>23 DEF Join, client, thread
<1>24. CASE UNCHANGED vars
      BY <1>24 DEF vars, client, thread, loop
<1>25. QED
  BY <1>1, <1>2, <1>3, <1>4, <1>5, <1>6, <1>7, <1>8, <1>9, <1>10, <1>11, <1>12, <1>13, <1>14, <1>15, <1>16, <1>17, <1>18, <1>19, <1>20, <1>21, <1>22, <1>23, <1>24
     DEF Next, Relay, Owner, Batch, Terminated

-----------------------------------------------------------------------------
\* Handshake is preserved.
LEMMA HandshakeStep ==
    ASSUME IInv, [Next]_vars, TypeOK'
    PROVE  Handshake'
<1> USE DEF IInv, Handshake, Ending, Serving, TypeOK, Unknown
<1>1. CASE Send
      BY <1>1 DEF Send, thread, loop
<1>2. CASE CloseSource
      BY <1>2 DEF CloseSource, thread, loop
<1>3. CASE RelayStops
      BY <1>3 DEF RelayStops, client, loop
<1>4. CASE SourceClosed
      BY <1>4 DEF SourceClosed, client, loop
<1>5. CASE FlushEnds
      BY <1>5 DEF FlushEnds, client, loop
<1>6. CASE RelayEnds
      BY <1>6 DEF RelayEnds, client, loop
<1>7. CASE TakeFlush
      BY <1>7, CapIsNat DEF TakeFlush, client, loop
<1>8. CASE TakeMessage
  <2>1. Len(held') = 1
        BY <1>8, TakeHeadFacts DEF TakeMessage
  <2>2. QED BY <1>8, <2>1 DEF TakeMessage, client, loop, TakeHead
<1>9. CASE FlushMessage
  <2>1. Len(held') = 1
        BY <1>9, TakeHeadFacts DEF FlushMessage
  <2>2. QED BY <1>9, <2>1 DEF FlushMessage, client, loop, TakeHead
<1>10. CASE Forward
  <2>1. Len(queue') = Len(queue) + 1 /\ Len(held) = 1 /\ held' = <<>>
        /\ Len(held') = 0 /\ forwarded' = forwarded + 1
        BY <1>10, ForwardFacts DEF Forward
  <2>2. QED BY <1>10, <2>1 DEF Forward, client, loop
<1>11. CASE Report
      BY <1>11 DEF Report, client, loop
<1>12. CASE ReceiveFirst
  <2>1. consumed' = consumed + 1 /\ Len(queue') = Len(queue) - 1
        /\ Len(queue) > 0 /\ Len(batch') = Len(batch) + 1
        BY <1>12, ConsumeFacts DEF ReceiveFirst
  <2>2. QED BY <1>12, <2>1 DEF ReceiveFirst, client, thread
<1>13. CASE DrainOne
  <2>1. consumed' = consumed + 1 /\ Len(queue') = Len(queue) - 1
        /\ Len(queue) > 0 /\ Len(batch') = Len(batch) + 1
        BY <1>13, ConsumeFacts DEF DrainOne
  <2>2. QED BY <1>13, <2>1 DEF DrainOne, client, thread
<1>14. CASE ReceiveClosed
      BY <1>14 DEF ReceiveClosed, client, thread
<1>15. CASE FlushedGone
      BY <1>15 DEF FlushedGone, client, thread
<1>16. CASE QueueGone
      BY <1>16 DEF QueueGone, client, thread
<1>17. CASE BatchCovered
      BY <1>17 DEF BatchCovered, client, thread, Covered
<1>18. CASE RequestFlush
      BY <1>18 DEF RequestFlush, client, thread
<1>19. CASE GetTarget
      BY <1>19 DEF GetTarget, client, thread
<1>20. CASE HandleBatch
      BY <1>20 DEF HandleBatch, client, thread
<1>21. CASE ExitBatch
      BY <1>21 DEF ExitBatch, client, thread
<1>22. CASE Finish
      BY <1>22 DEF Finish, client, thread
<1>23. CASE Join
      BY <1>23 DEF Join, client, thread
<1>24. CASE UNCHANGED vars
      BY <1>24 DEF vars, client, thread, loop
<1>25. QED
  BY <1>1, <1>2, <1>3, <1>4, <1>5, <1>6, <1>7, <1>8, <1>9, <1>10, <1>11, <1>12, <1>13, <1>14, <1>15, <1>16, <1>17, <1>18, <1>19, <1>20, <1>21, <1>22, <1>23, <1>24
     DEF Next, Relay, Owner, Batch, Terminated

-----------------------------------------------------------------------------
\* Room is preserved.
LEMMA RoomStep ==
    ASSUME IInv, [Next]_vars, TypeOK'
    PROVE  Room'
<1> USE DEF IInv, Room, Handshake, Ending, Counting, Serving, TypeOK, Unknown, Covered
<1>1. CASE Send
      BY <1>1 DEF Send, thread, loop
<1>2. CASE CloseSource
      BY <1>2 DEF CloseSource, thread, loop
<1>3. CASE RelayStops
      BY <1>3 DEF RelayStops, client, loop
<1>4. CASE SourceClosed
      BY <1>4 DEF SourceClosed, client, loop
<1>5. CASE FlushEnds
  <2>1. relay' = "report" /\ relay = "flush" /\ flushed' = <<>> /\ owner' = owner /\ owner = "drain"
        /\ target' = target /\ target = Unknown /\ batch' = batch /\ queue' = queue /\ held' = held
        BY <1>5 DEF FlushEnds, client, loop
  <2>2. flush' = FALSE BY <1>5 DEF FlushEnds
  <2>3. Len(batch) + Len(queue) + Len(held) + left <= 2 * QueueCap + 2 BY <2>1
  <2>4. Len(held) \in Nat /\ left \in Nat /\ Len(batch) \in Nat /\ Len(queue) \in Nat BY Lengths DEF IInv
  <2>5. Len(batch') + Len(queue') <= 2 * QueueCap + 2 /\ Len(batch') <= 2 * QueueCap + 2
    <3> HIDE DEF IInv, Room, Handshake, Ending, Counting, Serving, TypeOK, Unknown, Covered
    <3>1. QED BY <2>1, <2>3, <2>4, CapIsNat
  <2>6. QED BY <2>1, <2>2, <2>5
<1>6. CASE RelayEnds
      BY <1>6 DEF RelayEnds, client, loop
<1>7. CASE TakeFlush
      BY <1>7, CapIsNat DEF TakeFlush, client, loop
<1>8. CASE TakeMessage
  <2>1. Len(held') = 1
        BY <1>8, TakeHeadFacts DEF TakeMessage
  <2>2. QED BY <1>8, <2>1 DEF TakeMessage, client, loop, TakeHead
<1>9. CASE FlushMessage
  <2>1. Len(held') = 1
        BY <1>9, TakeHeadFacts DEF FlushMessage
  <2>2. QED BY <1>9, <2>1 DEF FlushMessage, client, loop, TakeHead
<1>10. CASE Forward
  <2>1. Len(queue') = Len(queue) + 1 /\ Len(held) = 1 /\ held' = <<>>
        /\ Len(held') = 0 /\ forwarded' = forwarded + 1
        BY <1>10, ForwardFacts DEF Forward
  <2>2. QED BY <1>10, <2>1, SMTT(30) DEF Forward, client, loop
<1>11. CASE Report
      BY <1>11 DEF Report, client, loop
<1>12. CASE ReceiveFirst
  <2>1. Len(batch') = 1 /\ owner' = "request"
        BY <1>12, ConsumeFacts DEF ReceiveFirst
  <2>2. owner' # "drain" /\ ~Serving' /\ flushed' = <<>>
        BY <1>12 DEF ReceiveFirst, client, thread
  <2>3. Len(batch') <= 2 * QueueCap + 2 BY <2>1, CapIsNat
  <2>4. QED BY <2>1, <2>2, <2>3
<1>13. CASE DrainOne
  <2>1. consumed' = consumed + 1 /\ Len(queue') = Len(queue) - 1
        /\ Len(queue) > 0 /\ Len(batch') = Len(batch) + 1
        BY <1>13, ConsumeFacts DEF DrainOne
  <2>2. owner = "drain" /\ owner' = owner /\ relay' = relay /\ held' = held /\ left' = left
        /\ target' = target /\ flush' = flush /\ flushed' = <<>> /\ ~Covered /\ relay # "done"
        BY <1>13 DEF DrainOne, client, thread
  <2>3. Len(batch) \in Nat /\ Len(queue) \in Nat /\ Len(held) \in Nat /\ left \in Nat
        /\ consumed \in Nat
        BY Lengths DEF IInv
  <2>4. CASE target # Unknown
    <3>1. consumed < target /\ target \in Nat /\ target <= consumed + Len(queue)
          /\ Len(batch) + target - consumed <= 2 * QueueCap + 2
          BY <2>2, <2>4
    <3>2. target' <= consumed' + Len(queue') /\ Len(batch') <= 2 * QueueCap + 2
          /\ (target' > consumed' => Len(batch') + target' - consumed' <= 2 * QueueCap + 2)
      <4> HIDE DEF IInv, Room, Handshake, Ending, Counting, Serving, TypeOK, Unknown, Covered
      <4>1. QED BY <2>1, <2>2, <2>3, <2>4, <3>1, CapIsNat
    <3>3. flush' = FALSE /\ ~Serving' BY <2>2, <2>4
    <3>4. QED BY <2>2, <3>2, <3>3
  <2>5. CASE target = Unknown /\ flush
    <3>1. ~Serving' BY <2>2, <2>5
    <3>2. Len(batch) + Len(queue) + Len(held) <= QueueCap + 2 BY <2>2, <2>5
    <3>3. Len(batch') + Len(queue') + Len(held') <= QueueCap + 2 /\ Len(batch') <= 2 * QueueCap + 2
      <4> HIDE DEF IInv, Room, Handshake, Ending, Counting, Serving, TypeOK, Unknown, Covered
      <4>1. QED BY <2>1, <2>2, <2>3, <3>2, CapIsNat
    <3>4. QED BY <2>2, <2>5, <3>1, <3>3
  <2>6. CASE target = Unknown /\ ~flush
    <3>1. Serving /\ flush' = FALSE BY <1>13, <2>2, <2>6 DEF DrainOne
    <3>2. CASE relay # "report"
      <4>1. Len(batch') + Len(queue') + Len(held') + left' <= 2 * QueueCap + 2
            /\ Len(batch') <= 2 * QueueCap + 2
        <5>1. Len(batch) + Len(queue) + Len(held) + left <= 2 * QueueCap + 2 BY <3>1, <3>2
        <5> HIDE DEF IInv, Room, Handshake, Ending, Counting, Serving, TypeOK, Unknown, Covered
        <5>2. QED BY <2>1, <2>2, <2>3, <5>1, CapIsNat
      <4>2. QED BY <2>2, <2>6, <3>1, <3>2, <4>1
    <3>3. CASE relay = "report"
      <4>1. Len(batch') + Len(queue') <= 2 * QueueCap + 2 /\ Len(batch') <= 2 * QueueCap + 2
        <5>1. Len(batch) + Len(queue) <= 2 * QueueCap + 2 BY <3>1, <3>3
        <5> HIDE DEF IInv, Room, Handshake, Ending, Counting, Serving, TypeOK, Unknown, Covered
        <5>2. QED BY <2>1, <2>2, <2>3, <5>1, CapIsNat
      <4>2. QED BY <2>2, <2>6, <3>1, <3>3, <4>1
    <3>4. QED BY <3>2, <3>3
  <2>7. QED BY <2>4, <2>5, <2>6
<1>14. CASE ReceiveClosed
      BY <1>14 DEF ReceiveClosed, client, thread
<1>15. CASE FlushedGone
      BY <1>15 DEF FlushedGone, client, thread
<1>16. CASE QueueGone
      BY <1>16 DEF QueueGone, client, thread
<1>17. CASE BatchCovered
      BY <1>17 DEF BatchCovered, client, thread, Covered
<1>18. CASE RequestFlush
  <2>1. Len(batch') = 1 /\ batch' = batch /\ owner' \notin {"idle", "request"}
        BY <1>18 DEF RequestFlush
  <2>2. ~Serving' /\ flushed' = <<>>
        BY <1>18 DEF RequestFlush, client, thread
  <2>3. Len(batch') <= 2 * QueueCap + 2 BY <2>1, CapIsNat
  <2>4. Len(queue') <= QueueCap /\ Len(held') <= 1 /\ Len(queue') \in Nat /\ Len(held') \in Nat
        BY <1>18 DEF RequestFlush, client, thread
  <2>5. Len(batch') + Len(queue') + Len(held') <= QueueCap + 2 BY <2>1, <2>4, CapIsNat
  <2>6. owner' = "drain" => target' = Unknown BY <1>18 DEF RequestFlush
  <2>7. QED BY <2>1, <2>2, <2>3, <2>5, <2>6
<1>19. CASE GetTarget
      BY <1>19 DEF GetTarget, client, thread
<1>20. CASE HandleBatch
  <2>1. batch' = <<>> /\ Len(batch') = 0 /\ owner' # "request" BY <1>20 DEF HandleBatch
  <2>2. owner' # "drain" /\ ~Serving' /\ flushed' = <<>>
        BY <1>20 DEF HandleBatch, client, thread
  <2>3. Len(batch') <= 2 * QueueCap + 2 BY <2>1, CapIsNat
  <2>4. QED BY <2>1, <2>2, <2>3
<1>21. CASE ExitBatch
  <2>1. batch' = <<>> /\ Len(batch') = 0 /\ owner' # "request" BY <1>21 DEF ExitBatch
  <2>2. owner' # "drain" /\ ~Serving' /\ flushed' = <<>>
        BY <1>21 DEF ExitBatch, client, thread
  <2>3. Len(batch') <= 2 * QueueCap + 2 BY <2>1, CapIsNat
  <2>4. QED BY <2>1, <2>2, <2>3
<1>22. CASE Finish
      BY <1>22 DEF Finish, client, thread
<1>23. CASE Join
      BY <1>23 DEF Join, client, thread
<1>24. CASE UNCHANGED vars
      BY <1>24 DEF vars, client, thread, loop
<1>25. QED
  BY <1>1, <1>2, <1>3, <1>4, <1>5, <1>6, <1>7, <1>8, <1>9, <1>10, <1>11, <1>12, <1>13, <1>14, <1>15, <1>16, <1>17, <1>18, <1>19, <1>20, <1>21, <1>22, <1>23, <1>24
     DEF Next, Relay, Owner, Batch, Terminated

-----------------------------------------------------------------------------
\* Captured is preserved.
LEMMA CapturedStep ==
    ASSUME IInv, [Next]_vars, TypeOK'
    PROVE  Captured'
<1> USE DEF IInv, Captured, Handshake, Ending, Counting, Serving, TypeOK, Unknown
<1>1. CASE Send
      BY <1>1 DEF Send, thread, loop
<1>2. CASE CloseSource
      BY <1>2 DEF CloseSource, thread, loop
<1>3. CASE RelayStops
      BY <1>3 DEF RelayStops, client, loop
<1>4. CASE SourceClosed
      BY <1>4 DEF SourceClosed, client, loop
<1>5. CASE FlushEnds
      BY <1>5 DEF FlushEnds, client, loop
<1>6. CASE RelayEnds
      BY <1>6 DEF RelayEnds, client, loop
<1>7. CASE TakeFlush
      BY <1>7, CapIsNat DEF TakeFlush, client, loop
<1>8. CASE TakeMessage
  <2>1. Len(held') = 1
        BY <1>8, TakeHeadFacts DEF TakeMessage
  <2>2. QED BY <1>8, <2>1 DEF TakeMessage, client, loop, TakeHead
<1>9. CASE FlushMessage
  <2>1. Len(held') = 1
        BY <1>9, TakeHeadFacts DEF FlushMessage
  <2>2. QED BY <1>9, <2>1 DEF FlushMessage, client, loop, TakeHead
<1>10. CASE Forward
  <2>1. Len(queue') = Len(queue) + 1 /\ Len(held) = 1 /\ held' = <<>>
        /\ Len(held') = 0 /\ forwarded' = forwarded + 1
        BY <1>10, ForwardFacts DEF Forward
  <2>2. QED BY <1>10, <2>1 DEF Forward, client, loop
<1>11. CASE Report
      BY <1>11 DEF Report, client, loop
<1>12. CASE ReceiveFirst
  <2>1. consumed' = consumed + 1 /\ Len(queue') = Len(queue) - 1
        /\ Len(queue) > 0 /\ Len(batch') = Len(batch) + 1
        BY <1>12, ConsumeFacts DEF ReceiveFirst
  <2>2. QED BY <1>12, <2>1 DEF ReceiveFirst, client, thread
<1>13. CASE DrainOne
  <2>1. consumed' = consumed + 1 /\ Len(queue') = Len(queue) - 1
        /\ Len(queue) > 0 /\ Len(batch') = Len(batch) + 1
        BY <1>13, ConsumeFacts DEF DrainOne
  <2>2. QED BY <1>13, <2>1 DEF DrainOne, client, thread
<1>14. CASE ReceiveClosed
      BY <1>14 DEF ReceiveClosed, client, thread
<1>15. CASE FlushedGone
      BY <1>15 DEF FlushedGone, client, thread
<1>16. CASE QueueGone
      BY <1>16 DEF QueueGone, client, thread
<1>17. CASE BatchCovered
      BY <1>17 DEF BatchCovered, client, thread, Covered
<1>18. CASE RequestFlush
      BY <1>18 DEF RequestFlush, client, thread
<1>19. CASE GetTarget
      BY <1>19 DEF GetTarget, client, thread
<1>20. CASE HandleBatch
      BY <1>20 DEF HandleBatch, client, thread
<1>21. CASE ExitBatch
      BY <1>21 DEF ExitBatch, client, thread
<1>22. CASE Finish
      BY <1>22 DEF Finish, client, thread
<1>23. CASE Join
      BY <1>23 DEF Join, client, thread
<1>24. CASE UNCHANGED vars
      BY <1>24 DEF vars, client, thread, loop
<1>25. QED
  BY <1>1, <1>2, <1>3, <1>4, <1>5, <1>6, <1>7, <1>8, <1>9, <1>10, <1>11, <1>12, <1>13, <1>14, <1>15, <1>16, <1>17, <1>18, <1>19, <1>20, <1>21, <1>22, <1>23, <1>24
     DEF Next, Relay, Owner, Batch, Terminated

-----------------------------------------------------------------------------
\* The strengthening is an invariant of the specification.
THEOREM InductiveInvariant == Spec => []IInv
<1>1. Init => IInv
  <2> SUFFICES ASSUME Init PROVE IInv OBVIOUS
  <2>1. TypeOK
    <3>1. <<>> \in Seq(Nat) /\ Len(<<>>) = 0 OBVIOUS
    <3>2. /\ source = <<>> /\ held = <<>> /\ queue = <<>> /\ flushed = <<>> /\ batch = <<>>
          /\ handled = <<>>
          BY DEF Init
    <3>3. sent \in Nat /\ forwarded \in Nat /\ consumed \in Nat /\ accepted \in Nat
          /\ left \in 0..QueueCap /\ target \in Nat \union {Unknown}
          BY CapIsNat DEF Init
    <3>4. open \in BOOLEAN /\ flush \in BOOLEAN /\ stop \in BOOLEAN /\ eof \in BOOLEAN
          BY DEF Init
    <3>5. relay = "select" /\ owner = "idle" BY DEF Init
    <3>6. QED BY <3>1, <3>2, <3>3, <3>4, <3>5, CapIsNat DEF TypeOK
  <2>2. /\ relay = "select" /\ owner = "idle" /\ flush = FALSE /\ stop = FALSE /\ open = TRUE
        /\ flushed = <<>> /\ held = <<>> /\ queue = <<>> /\ batch = <<>>
        /\ forwarded = 0 /\ consumed = 0
        BY DEF Init
  <2>3. Ending /\ Handshake /\ Captured BY <2>2 DEF Ending, Handshake, Captured, Serving
  <2>4. Counting BY <2>2 DEF Counting
  <2>5. Len(batch) = 0 /\ Len(batch) <= 2 * QueueCap + 2 BY <2>2, CapIsNat
  <2>6. Room BY <2>2, <2>5 DEF Room, Serving
  <2>7. QED BY <2>1, <2>3, <2>4, <2>6 DEF IInv
<1>2. IInv /\ [Next]_vars => IInv'
  BY TypeStep, CountingStep, EndingStep, HandshakeStep, RoomStep, CapturedStep DEF IInv
<1>3. QED BY <1>1, <1>2, PTL DEF Spec

\* Every variable keeps its type, and the queue its bound.
THEOREM TypeCorrect == Spec => []TypeOK
BY InductiveInvariant, PTL DEF IInv

\* A batch never exceeds twice the queue's capacity and two messages.
THEOREM BatchIsBounded == Spec => []BatchBounded
<1>1. IInv => BatchBounded BY DEF IInv, Room, BatchBounded
<1>2. QED BY <1>1, InductiveInvariant, PTL

\* An answer to a flush is always the answer to the flush being waited for.
THEOREM FlushAnsweredOnce == Spec => []FlushIsAnsweredOnce
<1>1. IInv => FlushIsAnsweredOnce
  <2> SUFFICES ASSUME IInv PROVE FlushIsAnsweredOnce OBVIOUS
  <2>1. flushed # <<>> => owner = "drain" /\ target = Unknown /\ ~flush
        BY DEF IInv, Handshake
  <2>2. owner \in {"idle", "request"} => flushed = <<>> /\ (flush => relay = "done")
        BY DEF IInv, Handshake
  <2>3. owner = "drain" /\ target # Unknown => target <= consumed + Len(queue)
        BY DEF IInv, Room
  <2>4. QED BY <2>1, <2>2, <2>3 DEF FlushIsAnsweredOnce
<1>2. QED BY <1>1, InductiveInvariant, PTL

\* While the client's end is open, a closed batch holds every message the relay
\* had accepted when the flush was asked for.
THEOREM CapturesWhileOpen == Spec => BatchCapturesWhileOpen
<1>1. IInv /\ [Next]_vars => [(open /\ owner = "drain" /\ owner' = "handle") => consumed >= accepted]_vars
  <2> SUFFICES ASSUME IInv, Next, open, owner = "drain", owner' = "handle"
               PROVE  consumed >= accepted
      OBVIOUS
  <2>1. BatchCovered \/ FlushedGone \/ QueueGone
        BY DEF Next, Relay, Owner, Batch, Send, CloseSource, RelayStops, TakeFlush, TakeMessage,
               SourceClosed, FlushMessage, FlushEnds, Forward, Report, RelayEnds, ReceiveFirst,
               ReceiveClosed, RequestFlush, GetTarget, DrainOne, HandleBatch, ExitBatch, Finish,
               Join, Terminated, vars, loop
  <2>2. ~stop /\ relay \notin {"closing", "done"} BY DEF IInv, Ending
  <2>3. BatchCovered BY <2>1, <2>2 DEF FlushedGone, QueueGone
  <2>4. target # Unknown /\ consumed >= target BY <2>3 DEF BatchCovered, Covered
  <2>5. accepted <= target BY <2>4 DEF IInv, Captured
  <2>6. accepted \in Nat /\ consumed \in Nat /\ target \in Nat
        BY <2>4 DEF IInv, TypeOK
  <2>7. QED BY <2>4, <2>5, <2>6
<1>2. QED BY <1>1, InductiveInvariant, PTL DEF Spec, BatchCapturesWhileOpen

-----------------------------------------------------------------------------
(* Order: the places a message can be in, read from the owner to the       *)
(* client, always hold the messages sent in the order sent.                *)

\* Everything sent, by the place it has reached; each hand-over moves the
\* boundary between two neighbouring places.
Line == handled \o batch \o queue \o held \o source
Sent(n) == [i \in 1..n |-> i]
Serviced == owner \in {"idle", "request", "drain", "handle"}

\* Concatenation of messages is associative.
LEMMA Associative ==
    ASSUME NEW a \in Seq(Nat), NEW b \in Seq(Nat), NEW c \in Seq(Nat)
    PROVE  (a \o b) \o c = a \o (b \o c)
BY ConcatAssociative, SMTT(30)

\* A sequence is its head and its tail.
LEMMA HeadThenTail ==
    ASSUME NEW s \in Seq(Nat), s # <<>>
    PROVE  /\ <<Head(s)>> \in Seq(Nat) /\ Tail(s) \in Seq(Nat)
           /\ s = <<Head(s)>> \o Tail(s)
<1>1. Head(s) \in Nat /\ Tail(s) \in Seq(Nat) /\ Len(Tail(s)) = Len(s) - 1
      /\ \A i \in 1 .. Len(Tail(s)) : Tail(s)[i] = s[i + 1]
    BY HeadTailProperties
<1>2. s[1] = Head(s)
    OBVIOUS
<1>3. <<Head(s)>> \in Seq(Nat) /\ Len(<<Head(s)>>) = 1 /\ <<Head(s)>>[1] = Head(s)
    BY <1>1
<1>4. /\ <<Head(s)>> \o Tail(s) \in Seq(Nat)
      /\ Len(<<Head(s)>> \o Tail(s)) = 1 + Len(Tail(s))
      /\ \A i \in 1 .. 1 + Len(Tail(s)) :
            (<<Head(s)>> \o Tail(s))[i] = IF i <= 1 THEN <<Head(s)>>[i] ELSE Tail(s)[i - 1]
    BY <1>1, <1>3, ConcatProperties
<1>5. Len(s) \in Nat /\ Len(Tail(s)) \in Nat
    BY <1>1, LenProperties
<1>6. \A i \in 1 .. Len(s) : s[i] = (<<Head(s)>> \o Tail(s))[i]
    BY <1>1, <1>2, <1>3, <1>4, <1>5
<1> QED
    BY <1>1, <1>3, <1>4, <1>5, <1>6, SeqEqual

\* Moving the first message of a place to the end of the place before it.
LEMMA MoveOne ==
    ASSUME NEW a \in Seq(Nat), NEW s \in Seq(Nat), s # <<>>
    PROVE  Append(a, Head(s)) \o Tail(s) = a \o s
<1>1. <<Head(s)>> \in Seq(Nat) /\ Tail(s) \in Seq(Nat) /\ s = <<Head(s)>> \o Tail(s)
    BY HeadThenTail
<1>2. Append(a, Head(s)) = a \o <<Head(s)>>
    BY <1>1, AppendIsConcat, HeadTailProperties
<1>3. (a \o <<Head(s)>>) \o Tail(s) = a \o (<<Head(s)>> \o Tail(s))
    BY <1>1, Associative, Zenon
<1> QED
    BY <1>1, <1>2, <1>3, Zenon

\* The client sends: the line grows at its end.
LEMMA SendOrder ==
    ASSUME TypeOK, Send, Line = Sent(sent) PROVE Line' = Sent(sent')
<1> DEFINE front == handled \o batch \o queue \o held
<1>1. front \in Seq(Nat) /\ source \in Seq(Nat) /\ sent \in Nat
    BY DEF TypeOK
<1>2. source' = Append(source, sent + 1) /\ sent' = sent + 1 /\ front' = front
    BY DEF Send, thread, loop
<1>3. Line = front \o source /\ Line' = front \o source'
    BY <1>2 DEF Line
<1> HIDE DEF front
<1>4. source' = source \o <<sent + 1>> /\ <<sent + 1>> \in Seq(Nat)
    BY <1>1, <1>2, AppendIsConcat
<1>5. Line' = Line \o <<sent + 1>> /\ Line \in Seq(Nat)
    BY <1>1, <1>3, <1>4, Associative
<1>6. Sent(sent) \in Seq(Nat) /\ Len(Sent(sent)) = sent /\ Sent(sent + 1) \in Seq(Nat)
      /\ Len(Sent(sent + 1)) = sent + 1
    BY <1>1 DEF Sent
<1>7. Sent(sent) \o <<sent + 1>> \in Seq(Nat) /\ Len(Sent(sent) \o <<sent + 1>>) = sent + 1
      /\ \A i \in 1 .. sent + 1 : (Sent(sent) \o <<sent + 1>>)[i] =
             IF i <= sent THEN Sent(sent)[i] ELSE <<sent + 1>>[i - sent]
    BY <1>1, <1>4, <1>6, ConcatProperties
<1>8. \A i \in 1 .. sent + 1 : (Sent(sent) \o <<sent + 1>>)[i] = Sent(sent + 1)[i]
    BY <1>1, <1>7 DEF Sent
<1>9. Sent(sent) \o <<sent + 1>> = Sent(sent + 1)
    BY <1>6, <1>7, <1>8, SeqEqual
<1> QED
    BY <1>2, <1>5, <1>9

\* The relay takes a message off the transport.
LEMMA TakeOrder ==
    ASSUME TypeOK, held = <<>>, NEW next, TakeHead(next), UNCHANGED <<handled, batch, queue>>
    PROVE  Line' = Line
<1> DEFINE front == handled \o batch \o queue
<1>1. front \in Seq(Nat) /\ source \in Seq(Nat) /\ source # <<>> /\ front' = front
    BY DEF TypeOK, TakeHead
<1>2. Line = (front \o <<>>) \o source /\ Line' = (front \o <<Head(source)>>) \o Tail(source)
    BY <1>1 DEF Line, TakeHead
<1> HIDE DEF front
<1>3. <<Head(source)>> \in Seq(Nat) /\ Tail(source) \in Seq(Nat)
      /\ source = <<Head(source)>> \o Tail(source)
    BY <1>1, HeadThenTail
<1>4. (front \o <<Head(source)>>) \o Tail(source) = front \o (<<Head(source)>> \o Tail(source))
    BY <1>1, <1>3, Associative, Zenon
<1>5. front \o <<>> = front
    BY <1>1, ConcatEmptySeq
<1> QED
    BY <1>2, <1>3, <1>4, <1>5, Zenon

\* The relay passes on what it holds.
LEMMA ForwardOrder ==
    ASSUME TypeOK, Forward PROVE Line' = Line
<1> DEFINE front == handled \o batch
<1>1. front \in Seq(Nat) /\ queue \in Seq(Nat) /\ held \in Seq(Nat) /\ front' = front
    BY DEF TypeOK, Forward, loop
<1>2. Line = ((front \o queue) \o held) \o source
      /\ Line' = ((front \o (queue \o held)) \o <<>>) \o source
    BY <1>1 DEF Line, Forward
<1> HIDE DEF front
<1>3. front \o (queue \o held) = (front \o queue) \o held
    BY <1>1, Associative, Zenon
<1>4. front \o (queue \o held) \in Seq(Nat)
    BY <1>1
<1>5. (front \o (queue \o held)) \o <<>> = front \o (queue \o held)
    BY <1>4, ConcatEmptySeq
<1> QED
    BY <1>2, <1>3, <1>5, Zenon

\* The owner takes a message from the queue into its batch.
LEMMA ConsumeOrder ==
    ASSUME TypeOK, Consume, UNCHANGED <<handled, held, source>> PROVE Line' = Line
<1>1. handled \in Seq(Nat) /\ batch \in Seq(Nat) /\ queue \in Seq(Nat) /\ queue # <<>>
    BY DEF TypeOK, Consume
<1>2. Append(batch, Head(queue)) \o Tail(queue) = batch \o queue
    BY <1>1, MoveOne
<1>3. Head(queue) \in Nat /\ Tail(queue) \in Seq(Nat)
    BY <1>1, HeadTailProperties
<1>4. Append(batch, Head(queue)) \in Seq(Nat)
    BY <1>1, <1>3
<1>5. (handled \o Append(batch, Head(queue))) \o Tail(queue)
            = handled \o (Append(batch, Head(queue)) \o Tail(queue))
    BY <1>1, <1>3, <1>4, Associative, ZenonT(60)
<1>6. (handled \o batch) \o queue = handled \o (batch \o queue)
    BY <1>1, Associative
<1> QED
    BY <1>2, <1>5, <1>6 DEF Line, Consume

\* The owner handles its batch.
LEMMA HandleOrder ==
    ASSUME TypeOK, HandleBatch PROVE Line' = Line
<1>1. handled \o batch \in Seq(Nat)
    BY DEF TypeOK
<1>2. (handled \o batch) \o <<>> = handled \o batch
    BY <1>1, ConcatEmptySeq
<1> QED
    BY <1>2 DEF Line, HandleBatch, client, thread

\* Every other step before the exit leaves all places as they are.
LEMMA OrderStep ==
    ASSUME IInv, NothingLostOrReordered, [Next]_vars PROVE NothingLostOrReordered'
<1> USE DEF NothingLostOrReordered, Line, Sent, Serviced
<1>1. TypeOK /\ Counting
    BY DEF IInv
<1> SUFFICES ASSUME Serviced' PROVE Line' = Sent(sent')
    OBVIOUS
<1>2. Serviced
    BY DEF Next, Relay, Owner, Batch, Send, CloseSource, RelayStops, TakeFlush, TakeMessage,
           SourceClosed, FlushMessage, FlushEnds, Forward, Report, RelayEnds, ReceiveFirst,
           ReceiveClosed, RequestFlush, GetTarget, FlushedGone, DrainOne, QueueGone, BatchCovered,
           HandleBatch, ExitBatch, Finish, Join, Terminated, vars, loop
<1>3. Line = Sent(sent)
    BY <1>2
<1> HIDE DEF NothingLostOrReordered, Line, Sent
<1>4. CASE Send
    BY <1>1, <1>3, <1>4, SendOrder
<1>5. CASE TakeMessage
    BY <1>1, <1>3, <1>5, TakeOrder DEF TakeMessage, Counting, client, loop
<1>6. CASE FlushMessage
    BY <1>1, <1>3, <1>6, TakeOrder DEF FlushMessage, Counting, client, loop
<1>7. CASE Forward
    <2>1. sent' = sent
        BY <1>7 DEF Forward, client
    <2> QED
        BY <1>1, <1>3, <1>7, <2>1, ForwardOrder
<1>8. CASE ReceiveFirst \/ DrainOne
    <2>1. Consume /\ UNCHANGED <<handled, held, source, sent>>
        BY <1>8 DEF ReceiveFirst, DrainOne, client, thread
    <2> QED
        BY <1>1, <1>3, <2>1, ConsumeOrder
<1>9. CASE HandleBatch
    <2>1. sent' = sent
        BY <1>9 DEF HandleBatch, client
    <2> QED
        BY <1>1, <1>3, <1>9, <2>1, HandleOrder
<1>10. ASSUME UNCHANGED <<handled, batch, queue, held, source, sent>> PROVE Line' = Sent(sent')
    BY <1>3, <1>10 DEF Line
<1>11. CASE \/ CloseSource \/ RelayStops \/ TakeFlush \/ SourceClosed \/ FlushEnds \/ Report
            \/ RelayEnds
    BY <1>10, <1>11 DEF CloseSource, RelayStops, TakeFlush, SourceClosed, FlushEnds, Report,
                        RelayEnds, client, thread, loop
<1>12. CASE \/ ReceiveClosed \/ RequestFlush \/ GetTarget \/ FlushedGone \/ QueueGone
            \/ BatchCovered \/ Finish \/ Join
    BY <1>10, <1>12 DEF ReceiveClosed, RequestFlush, GetTarget, FlushedGone, QueueGone,
                        BatchCovered, Finish, Join, client, thread
<1>13. CASE ExitBatch
    BY <1>13 DEF ExitBatch
<1>14. CASE UNCHANGED vars
    BY <1>10, <1>14 DEF vars, client, thread, loop
<1> QED
    BY <1>4, <1>5, <1>6, <1>7, <1>8, <1>9, <1>11, <1>12, <1>13, <1>14
    DEF Next, Relay, Owner, Batch, Terminated

\* Until the exit, nothing the client sent is lost, duplicated or overtaken on
\* its way through the relay, the queue and the batch.
THEOREM OrderIsKept == Spec => []NothingLostOrReordered
<1>1. Init => NothingLostOrReordered
    <2> SUFFICES ASSUME Init PROVE <<>> \o <<>> \o <<>> \o <<>> \o <<>> = [i \in 1..0 |-> i]
        BY DEF Init, NothingLostOrReordered
    <2>1. <<>> \in Seq(Nat) /\ <<>> \o <<>> = <<>>
        BY ConcatEmptySeq
    <2>2. [i \in 1..0 |-> i] = <<>>
        OBVIOUS
    <2> QED
        BY <2>1, <2>2
<1> QED
    BY <1>1, InductiveInvariant, OrderStep, PTL DEF Spec
=============================================================================
