---------------------------- MODULE ProtocolInbox ----------------------------
(***************************************************************************)
(* ProtocolInbox of nymph-lsp/src/server.rs: a relay thread copies client  *)
(* messages from the transport into a bounded queue, and the owner takes   *)
(* them from it in finite batches.  To close a batch the owner asks the    *)
(* relay for a flush and drains the queue until it has consumed as many    *)
(* messages as the relay reports to have forwarded.                        *)
(*                                                                         *)
(* Messages are numbered in the order the client sends them.               *)
(***************************************************************************)
EXTENDS Integers, Sequences, SequencesExt

CONSTANTS
    QueueCap,   \* PROTOCOL_QUEUE_CAPACITY: the queue, and the limit of a flush
    SourceCap,  \* messages the transport itself can hold
    MaxMsgs,    \* bound of the model: messages the client sends
    MayClose    \* whether the client may close the transport

ASSUME InboxCapacities ==
    /\ QueueCap \in Nat \ {0}
    /\ SourceCap \in Nat \ {0}
    /\ MaxMsgs \in Nat
    /\ MayClose \in BOOLEAN

VARIABLES
    sent, open, source,          \* the client and its transport
    relay, held, left, forwarded,  \* the relay thread
    queue, flush, flushed, stop, \* the channels between relay and owner
    owner, consumed, target, batch, eof, handled, \* the owner
    accepted                     \* auxiliary: taken by the relay when the flush was asked for

client == <<sent, open>>
thread == <<relay, held, left, forwarded>>
loop == <<owner, consumed, target, batch, eof, handled, accepted>>
vars == <<client, source, thread, queue, flush, flushed, stop, loop>>

Unknown == -1       \* no flush count received yet

Init ==
    /\ sent = 0 /\ open = TRUE /\ source = <<>>
    /\ relay = "select" /\ held = <<>> /\ left = 0 /\ forwarded = 0
    /\ queue = <<>> /\ flush = FALSE /\ flushed = <<>> /\ stop = FALSE
    /\ owner = "idle" /\ consumed = 0 /\ target = Unknown
    /\ batch = <<>> /\ eof = FALSE /\ handled = <<>> /\ accepted = 0

-----------------------------------------------------------------------------
\* The client.

Send ==
    /\ open
    /\ sent < MaxMsgs
    /\ Len(source) < SourceCap
    /\ sent' = sent + 1
    /\ source' = Append(source, sent + 1)
    /\ UNCHANGED <<open, thread, queue, flush, flushed, stop, loop>>

CloseSource ==
    /\ MayClose
    /\ open
    /\ open' = FALSE
    /\ UNCHANGED <<sent, source, thread, queue, flush, flushed, stop, loop>>

-----------------------------------------------------------------------------
\* The relay.  Its selects prefer the stop signal, then a flush request.

\* A mutant: a relay blocked on a full queue does not see the stop signal.
RelayStopsWhenFree ==
    /\ relay = "select"
    /\ stop
    /\ relay' = "closing"
    /\ UNCHANGED <<client, source, held, left, forwarded, queue, flush, flushed, stop, loop>>

RelayStops ==
    /\ relay \in {"select", "send", "flushSend"}
    /\ stop
    /\ relay' = "closing"
    /\ UNCHANGED <<client, source, held, left, forwarded, queue, flush, flushed, stop, loop>>

TakeFlush ==
    /\ relay = "select"
    /\ ~stop
    /\ flush
    /\ flush' = FALSE
    /\ relay' = "flush"
    /\ left' = QueueCap
    /\ UNCHANGED <<client, source, held, forwarded, queue, flushed, stop, loop>>

TakeHead(next) ==
    /\ source # <<>>
    /\ held' = <<Head(source)>>
    /\ source' = Tail(source)
    /\ relay' = next

TakeMessage ==
    /\ relay = "select"
    /\ ~stop
    /\ ~flush
    /\ TakeHead("send")
    /\ UNCHANGED <<client, left, forwarded, queue, flush, flushed, stop, loop>>

SourceClosed ==
    /\ relay = "select"
    /\ ~stop
    /\ ~flush
    /\ source = <<>>
    /\ ~open
    /\ relay' = "closing"
    /\ UNCHANGED <<client, source, held, left, forwarded, queue, flush, flushed, stop, loop>>

\* A mutant: a flush goes on for as long as there is anything to read.
FlushMessageUnbounded ==
    /\ relay = "flush"
    /\ TakeHead("flushSend")
    /\ left' = left - 1
    /\ UNCHANGED <<client, forwarded, queue, flush, flushed, stop, loop>>

FlushMessage ==
    /\ relay = "flush"
    /\ left > 0
    /\ TakeHead("flushSend")
    /\ left' = left - 1
    /\ UNCHANGED <<client, forwarded, queue, flush, flushed, stop, loop>>

\* A mutant: the message in hand when a flush ends is dropped with it.
FlushEndsTwice ==
    /\ relay \in {"flush", "flushSend"}
    /\ left = 0 \/ source = <<>>
    /\ relay' = "report"
    /\ UNCHANGED <<client, source, held, left, forwarded, queue, flush, flushed, stop, loop>>

FlushEnds ==
    /\ relay = "flush"
    /\ left = 0 \/ source = <<>>
    /\ relay' = "report"
    /\ UNCHANGED <<client, source, held, left, forwarded, queue, flush, flushed, stop, loop>>

\* A mutant: a message that does not fit is dropped.
ForwardOrDrop ==
    /\ relay \in {"send", "flushSend"}
    /\ ~stop
    /\ queue' = IF Len(queue) < QueueCap THEN queue \o held ELSE queue
    /\ held' = <<>>
    /\ forwarded' = Len(queue') - Len(queue) + forwarded
    /\ relay' = IF relay = "send" THEN "select" ELSE "flush"
    /\ UNCHANGED <<client, source, left, flush, flushed, stop, loop>>

Forward ==
    /\ relay \in {"send", "flushSend"}
    /\ ~stop
    /\ Len(queue) < QueueCap
    /\ queue' = queue \o held
    /\ held' = <<>>
    /\ forwarded' = forwarded + 1
    /\ relay' = IF relay = "send" THEN "select" ELSE "flush"
    /\ UNCHANGED <<client, source, left, flush, flushed, stop, loop>>

Report ==
    /\ relay = "report"
    /\ flushed = <<>>
    /\ flushed' = <<forwarded>>
    /\ relay' = "select"
    /\ UNCHANGED <<client, source, held, left, forwarded, queue, flush, stop, loop>>

\* The thread returns and its ends of the channels are dropped.
RelayEnds ==
    /\ relay = "closing"
    /\ relay' = "done"
    /\ UNCHANGED <<client, source, held, left, forwarded, queue, flush, flushed, stop, loop>>

-----------------------------------------------------------------------------
\* The owner: receive_owner_event, then batch().

Consume ==
    /\ queue # <<>>
    /\ queue' = Tail(queue)
    /\ batch' = Append(batch, Head(queue))
    /\ consumed' = consumed + 1

ReceiveFirst ==
    /\ owner = "idle"
    /\ Consume
    /\ owner' = "request"
    /\ UNCHANGED <<client, source, thread, flush, flushed, stop, target, eof, handled, accepted>>

ReceiveClosed ==
    /\ owner = "idle"
    /\ queue = <<>>
    /\ relay = "done"
    /\ owner' = "stopping"
    /\ eof' = TRUE
    /\ UNCHANGED <<client, source, thread, queue, flush, flushed, stop,
                   consumed, target, batch, handled, accepted>>

RequestFlush ==
    /\ owner = "request"
    /\ IF relay = "done"
       THEN /\ owner' = "handle"
            /\ UNCHANGED <<flush, target, accepted>>
       ELSE /\ ~flush
            /\ flush' = TRUE
            /\ owner' = "drain"
            /\ target' = Unknown
            /\ accepted' = forwarded + Len(held)
    /\ UNCHANGED <<client, source, thread, queue, flushed, stop, consumed, batch, eof, handled>>

Covered == target # Unknown /\ consumed >= target

GetTarget ==
    /\ owner = "drain"
    /\ ~Covered
    /\ flushed # <<>>
    /\ target' = Head(flushed)
    /\ flushed' = <<>>
    /\ UNCHANGED <<client, source, thread, queue, flush, stop,
                   owner, consumed, batch, eof, handled, accepted>>

\* The flush channel is looked at first, so its end cuts the batch short.
FlushedGone ==
    /\ owner = "drain"
    /\ ~Covered
    /\ flushed = <<>>
    /\ relay = "done"
    /\ owner' = "handle"
    /\ UNCHANGED <<client, source, thread, queue, flush, flushed, stop,
                   consumed, target, batch, eof, handled, accepted>>

DrainOne ==
    /\ owner = "drain"
    /\ ~Covered
    /\ flushed = <<>>
    /\ relay # "done"
    /\ Consume
    /\ UNCHANGED <<client, source, thread, flush, flushed, stop,
                   owner, target, eof, handled, accepted>>

\* The relay has dropped its end of the queue and not yet that of the flush channel.
QueueGone ==
    /\ owner = "drain"
    /\ ~Covered
    /\ flushed = <<>>
    /\ relay = "closing"
    /\ queue = <<>>
    /\ owner' = "handle"
    /\ eof' = TRUE
    /\ UNCHANGED <<client, source, thread, queue, flush, flushed, stop,
                   consumed, target, batch, handled, accepted>>

\* A mutant: the first count received closes the batch.
BatchCoveredEarly ==
    /\ owner = "drain"
    /\ target # Unknown
    /\ owner' = "handle"
    /\ UNCHANGED <<client, source, thread, queue, flush, flushed, stop,
                   consumed, target, batch, eof, handled, accepted>>

\* A mutant: an empty queue closes the batch before the count has arrived.
BatchCoveredWhenEmpty ==
    /\ owner = "drain"
    /\ queue = <<>>
    /\ owner' = "handle"
    /\ UNCHANGED <<client, source, thread, queue, flush, flushed, stop,
                   consumed, target, batch, eof, handled, accepted>>

BatchCovered ==
    /\ owner = "drain"
    /\ Covered
    /\ owner' = "handle"
    /\ UNCHANGED <<client, source, thread, queue, flush, flushed, stop,
                   consumed, target, batch, eof, handled, accepted>>

\* The whole batch is handled and none of its messages is the exit notification.
HandleBatch ==
    /\ owner = "handle"
    /\ handled' = handled \o batch
    /\ batch' = <<>>
    /\ owner' = IF eof THEN "stopping" ELSE "idle"
    /\ UNCHANGED <<client, source, thread, queue, flush, flushed, stop,
                   consumed, target, eof, accepted>>

\* The n-th message of the batch is the exit notification; the rest is dropped.
ExitBatch ==
    /\ owner = "handle"
    /\ \E n \in DOMAIN batch : handled' = handled \o SubSeq(batch, 1, n)
    /\ batch' = <<>>
    /\ owner' = "stopping"
    /\ UNCHANGED <<client, source, thread, queue, flush, flushed, stop,
                   consumed, target, eof, accepted>>

Finish ==
    /\ owner = "stopping"
    /\ stop' = TRUE
    /\ owner' = "joining"
    /\ UNCHANGED <<client, source, thread, queue, flush, flushed,
                   consumed, target, batch, eof, handled, accepted>>

Join ==
    /\ owner = "joining"
    /\ relay = "done"
    /\ owner' = "joined"
    /\ UNCHANGED <<client, source, thread, queue, flush, flushed, stop,
                   consumed, target, batch, eof, handled, accepted>>

Terminated == owner = "joined" /\ UNCHANGED vars

-----------------------------------------------------------------------------
Relay == RelayStops \/ TakeFlush \/ TakeMessage \/ SourceClosed \/ FlushMessage
         \/ FlushEnds \/ Forward \/ Report \/ RelayEnds
Batch == ReceiveFirst \/ ReceiveClosed \/ RequestFlush \/ GetTarget \/ FlushedGone
         \/ DrainOne \/ QueueGone \/ BatchCovered
Owner == Batch \/ HandleBatch \/ ExitBatch \/ Finish \/ Join

Next == Send \/ CloseSource \/ Relay \/ Owner \/ Terminated

Spec == Init /\ [][Next]_vars

\* Both threads run; the client need not send, nor the owner be told to exit.
LiveSpec == Spec /\ WF_vars(Relay) /\ WF_vars(Batch \/ HandleBatch \/ Finish \/ Join)

-----------------------------------------------------------------------------
\* Properties.

\* Every variable has its type; the queue and the flush channel respect their bounds.
TypeOK ==
    /\ sent \in Nat /\ open \in BOOLEAN /\ source \in Seq(Nat)
    /\ relay \in {"select", "send", "flush", "flushSend", "report", "closing", "done"}
    /\ held \in Seq(Nat) /\ left \in 0..QueueCap /\ forwarded \in Nat
    /\ queue \in Seq(Nat) /\ Len(queue) <= QueueCap
    /\ flush \in BOOLEAN /\ flushed \in Seq(Nat) /\ stop \in BOOLEAN
    /\ owner \in {"idle", "request", "drain", "handle", "stopping", "joining", "joined"}
    /\ consumed \in Nat /\ target \in Nat \union {Unknown}
    /\ batch \in Seq(Nat) /\ eof \in BOOLEAN /\ handled \in Seq(Nat)
    /\ accepted \in Nat

\* Until the exit, every message is in exactly one place and they are handled in
\* the order sent: neither the hand-over of the relay nor a flush overtakes.
NothingLostOrReordered ==
    owner \in {"idle", "request", "drain", "handle"} =>
        handled \o batch \o queue \o held \o source = [i \in 1..sent |-> i]

\* A batch is finite however fast the client writes: the first message, a full
\* queue, the message in the relay's hand, and one flush.
BatchBounded == Len(batch) <= 2 * QueueCap + 2

\* The count the owner drains to is the relay's, never one left by an earlier flush.
FlushIsAnsweredOnce ==
    /\ flushed # <<>> => owner = "drain" /\ target = Unknown /\ ~flush
    /\ owner \in {"idle", "request"} => flushed = <<>> /\ (flush => relay = "done")
    /\ owner = "drain" /\ target # Unknown => target <= consumed + Len(queue)

\* While the client's end is open, a batch holds every message the relay had
\* accepted when the flush was asked for.
BatchCapturesWhileOpen ==
    [][(open /\ owner = "drain" /\ owner' = "handle") => consumed >= accepted]_vars

\* Every message sent is handled, unless the owner stops first.
EveryMessageHandled ==
    \A n \in 1..MaxMsgs : sent >= n ~> (Len(handled) >= n \/ owner \in {"stopping", "joining", "joined"})

\* The owner's finish always joins the relay, even one blocked on a full queue.
RelayIsJoined == owner = "stopping" ~> owner = "joined"
=============================================================================
