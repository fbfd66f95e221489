------------------------------- MODULE EventBus -------------------------------
(***************************************************************************)
(* The event bus of one process (src/internal/events/bus.go), its          *)
(* subscribers, its file, and the loop of a fleet worker that forwards the *)
(* history to the coordinator (src/internal/fleet/worker.go).              *)
(*                                                                         *)
(* Events are numbered in the order of the history, so the history is the  *)
(* last MaxHistory numbers up to total.  A publish holds b.mu from start   *)
(* to end, except that it lets go of it to hand the event to the writer    *)
(* of the file when writes are asynchronous.                               *)
(*                                                                         *)
(* Left out: filters, transports, retention by age, rotation and Close.    *)
(***************************************************************************)
EXTENDS Integers, Sequences

CONSTANTS
  Publishers,     \* goroutines that publish
  Subscribers,    \* identifiers of subscriptions
  MaxEvents,      \* bound: events published
  MaxHistory,     \* capacity of the history
  Limit,          \* most events of one batch of the forwarder
  SubscriberCap,  \* capacity of the channel of a subscriber
  QueueCap        \* capacity of the channel of the writer

ASSUME BusAssumption ==
  /\ MaxEvents \in Nat /\ MaxHistory \in Nat \ {0}
  /\ Limit \in Nat \ {0} /\ SubscriberCap \in Nat \ {0} /\ QueueCap \in Nat \ {0}

VARIABLES
  total,        \* totalCount
  publishing,   \* the event a publisher has in hand, and its step
  channel,      \* subscriber -> its channel; the domain is who is subscribed
  got,          \* the last event each subscriber received
  writer,       \* asyncStarted, writeCh and the goroutine that writes; "stuck"
                \* when it waits for events on no channel at all
  writeQueue,   \* the events in writeCh and in the writer's hands
  file,         \* the events in the file
  accepted,     \* history: events handed to the writer or to the file
  everAsync,    \* history: were writes ever asynchronous?
  busPanicked,  \* a publisher sent on the closed writeCh
  cursor,       \* eventCursor of the forwarder
  batch,        \* what it has read and not yet sent
  received,     \* the events the coordinator published again
  smooth        \* history: no batch was cut off, too late or failed

forwardVars == <<cursor, batch, received, smooth>>
fileVars == <<writer, writeQueue, file, accepted, everAsync>>
busVars == <<total, publishing, channel, got, fileVars, busPanicked, forwardVars>>

Events == 1..MaxEvents
NotPublishing == [step |-> "idle", event |-> 0]

BusTypeOK ==
  /\ total \in 0..MaxEvents
  /\ publishing \in [Publishers -> [step : {"idle", "send", "fan out"}, event : 0..MaxEvents]]
  /\ DOMAIN channel \subseteq Subscribers
  /\ \A s \in DOMAIN channel : Len(channel[s]) <= SubscriberCap
  /\ got \in [Subscribers -> 0..MaxEvents]
  /\ writer \in {"off", "starting", "on", "closing", "stuck"}
  /\ Len(writeQueue) <= QueueCap + 1
  /\ file \in Seq(Events) /\ accepted \subseteq Events
  /\ everAsync \in BOOLEAN /\ busPanicked \in BOOLEAN /\ smooth \in BOOLEAN
  /\ cursor \in 0..MaxEvents
  /\ batch \in Seq(Events) /\ received \in Seq(Events)

BusInit ==
  /\ total = 0
  /\ publishing = [p \in Publishers |-> NotPublishing]
  /\ channel = <<>>
  /\ got = [s \in Subscribers |-> 0]
  /\ writer = "off" /\ writeQueue = <<>> /\ file = <<>> /\ accepted = {}
  /\ everAsync = FALSE /\ busPanicked = FALSE
  /\ cursor = 0 /\ batch = <<>> /\ received = <<>> /\ smooth = TRUE

Span(a, b) == [i \in 1..(b - a + 1) |-> a + i - 1]
Elements(s) == {s[i] : i \in DOMAIN s}

----------------------------------------------------------------------------
(* PublishCtx. *)

\* A subscriber whose channel is full misses the event.
FanOut(e) ==
  channel' = [s \in DOMAIN channel |->
                IF Len(channel[s]) < SubscriberCap THEN Append(channel[s], e)
                ELSE channel[s]]

\* writeCh is there to send to.
Asynchronous == writer \in {"starting", "on"}

\* Mutant: the lock is let go of before the fan-out.
PublishLetsGo(p) ==
  /\ publishing[p] = NotPublishing /\ total < MaxEvents
  /\ ~Asynchronous
  /\ total' = total + 1
  /\ publishing' = [publishing EXCEPT ![p] = [step |-> "fan out", event |-> total']]
  /\ UNCHANGED <<channel, got, fileVars, busPanicked, forwardVars>>

\* Writes to the file happen within the publish.
Publish(p) ==
  /\ publishing[p] = NotPublishing /\ total < MaxEvents
  /\ ~Asynchronous
  /\ total' = total + 1
  /\ file' = Append(file, total') /\ accepted' = accepted \cup {total'}
  /\ FanOut(total')
  /\ UNCHANGED <<publishing, got, writer, writeQueue, everAsync, busPanicked, forwardVars>>

PublishAsync(p) ==
  /\ publishing[p] = NotPublishing /\ total < MaxEvents
  /\ Asynchronous
  /\ total' = total + 1
  /\ publishing' = [publishing EXCEPT ![p] = [step |-> "send", event |-> total']]
  /\ UNCHANGED <<channel, got, fileVars, busPanicked, forwardVars>>

SendStep(p) ==
  /\ publishing[p].step = "send"
  /\ publishing' = [publishing EXCEPT ![p].step = "fan out"]

\* writeCh is read again without the lock: a full channel and one that has
\* been taken away in the meantime drop the event.
SendToWriter(p) ==
  /\ SendStep(p)
  /\ Asynchronous /\ Len(writeQueue) < QueueCap
  /\ writeQueue' = Append(writeQueue, publishing[p].event)
  /\ accepted' = accepted \cup {publishing[p].event}
  /\ UNCHANGED <<total, channel, got, writer, file, everAsync, busPanicked, forwardVars>>

SendDropped(p) ==
  /\ SendStep(p)
  /\ ~Asynchronous \/ Len(writeQueue) >= QueueCap
  /\ UNCHANGED <<total, channel, got, fileVars, busPanicked, forwardVars>>

\* It was read before it was taken away and is closed by now.
SendPanics(p) ==
  /\ publishing[p].step = "send" /\ writer \in {"closing", "stuck"}
  /\ busPanicked' = TRUE
  /\ UNCHANGED <<total, publishing, channel, got, fileVars, forwardVars>>

FanOutAsync(p) ==
  /\ publishing[p].step = "fan out"
  /\ FanOut(publishing[p].event)
  /\ publishing' = [publishing EXCEPT ![p] = NotPublishing]
  /\ UNCHANGED <<total, got, fileVars, busPanicked, forwardVars>>

----------------------------------------------------------------------------
(* Subscriptions. *)

Subscribe(s) ==
  /\ s \notin DOMAIN channel
  /\ channel' = [t \in DOMAIN channel \cup {s} |-> IF t = s THEN <<>> ELSE channel[t]]
  /\ UNCHANGED <<total, publishing, got, fileVars, busPanicked, forwardVars>>

Unsubscribe(s) ==
  /\ s \in DOMAIN channel
  /\ channel' = [t \in DOMAIN channel \ {s} |-> channel[t]]
  /\ UNCHANGED <<total, publishing, got, fileVars, busPanicked, forwardVars>>

Receive(s) ==
  /\ s \in DOMAIN channel /\ channel[s] # <<>>
  /\ got' = [got EXCEPT ![s] = Head(channel[s])]
  /\ channel' = [channel EXCEPT ![s] = Tail(@)]
  /\ UNCHANGED <<total, publishing, fileVars, busPanicked, forwardVars>>

----------------------------------------------------------------------------
(* The asynchronous writer. *)

StartAsyncWrites ==
  /\ writer = "off"
  /\ writer' = "starting" /\ everAsync' = TRUE
  /\ UNCHANGED <<total, publishing, channel, got, writeQueue, file, accepted, busPanicked,
                 forwardVars>>

\* startWriter reads writeCh after the lock was let go of.
StartWriter ==
  /\ writer = "starting"
  /\ writer' = "on"
  /\ UNCHANGED <<total, publishing, channel, got, writeQueue, file, accepted, everAsync,
                 busPanicked, forwardVars>>

WriteNext ==
  /\ writer \in {"on", "closing"} /\ writeQueue # <<>>
  /\ file' = Append(file, Head(writeQueue))
  /\ writeQueue' = Tail(writeQueue)
  /\ UNCHANGED <<total, publishing, channel, got, writer, accepted, everAsync, busPanicked,
                 forwardVars>>

\* writeCh is taken away and closed; publishes write to the file again.  A writer
\* that has not read it yet will find none, and the stop waits for it for ever.
StopAsyncWrites ==
  /\ Asynchronous
  /\ writer' = IF writer = "on" THEN "closing" ELSE "stuck"
  /\ UNCHANGED <<total, publishing, channel, got, writeQueue, file, accepted, everAsync,
                 busPanicked, forwardVars>>

\* Mutant: the drain is not waited for.
StopReturnsAtOnce ==
  /\ writer = "closing"
  /\ writer' = "off"
  /\ UNCHANGED <<total, publishing, channel, got, writeQueue, file, accepted, everAsync,
                 busPanicked, forwardVars>>

StopReturns ==
  /\ writer = "closing" /\ writeQueue = <<>>
  /\ writer' = "off"
  /\ UNCHANGED <<total, publishing, channel, got, writeQueue, file, accepted, everAsync,
                 busPanicked, forwardVars>>

----------------------------------------------------------------------------
(* eventForwardLoop and the coordinator. *)

\* Events the ring has dropped.
Forgotten == IF total > MaxHistory THEN total - MaxHistory ELSE 0

\* Mutant: the event at the cursor is sent again.
AfterInclusive(c) ==
  LET first == IF c > Forgotten THEN c - 1 ELSE Forgotten
      last == IF total - first > Limit THEN first + Limit ELSE total
  IN Span(first + 1, last)

\* HistoryAfterCursor: the events after c that the history still has, no more
\* than Limit of them; the next cursor is total all the same.
After(c) ==
  LET first == IF c > Forgotten THEN c ELSE Forgotten
      last == IF total - first > Limit THEN first + Limit ELSE total
  IN Span(first + 1, last)

ReadHistory ==
  /\ batch = <<>> /\ cursor # total
  /\ batch' = After(cursor)
  /\ cursor' = total
  /\ smooth' = (smooth /\ total - cursor <= Limit /\ cursor >= Forgotten)
  /\ UNCHANGED <<total, publishing, channel, got, fileVars, busPanicked, received>>

\* The batch arrives, with or without its answer.
SendBatch ==
  /\ batch # <<>>
  /\ received' = received \o batch
  /\ batch' = <<>>
  /\ UNCHANGED <<total, publishing, channel, got, fileVars, busPanicked, cursor, smooth>>

SendBatchFails ==
  /\ batch # <<>>
  /\ batch' = <<>>
  /\ smooth' = FALSE
  /\ UNCHANGED <<total, publishing, channel, got, fileVars, busPanicked, cursor, received>>

BusNext ==
  /\ ~busPanicked
  /\ \/ \E p \in Publishers :
          \/ Publish(p) \/ PublishAsync(p)
          \/ SendToWriter(p) \/ SendDropped(p) \/ SendPanics(p) \/ FanOutAsync(p)
     \/ \E s \in Subscribers : Subscribe(s) \/ Unsubscribe(s) \/ Receive(s)
     \/ StartAsyncWrites \/ StartWriter \/ WriteNext \/ StopAsyncWrites \/ StopReturns
     \/ ReadHistory \/ SendBatch \/ SendBatchFails

BusSpec == BusInit /\ [][BusNext]_busVars

----------------------------------------------------------------------------
(* Properties. *)

Ascending(s) == \A i, j \in DOMAIN s : i < j => s[i] < s[j]

\* The coordinator gets the events of a worker in their order and no event
\* twice, whatever batches fail and however far the history runs ahead; and
\* when no batch failed or was cut off, it has got every event up to the cursor
\* that is not in a batch (events/bus.go:463, fleet/worker.go:332).
ForwardedInOrder ==
  /\ Ascending(received \o batch)
  /\ smooth => received \o batch = Span(1, cursor)

\* A subscriber receives the events in the order of the history, over a full
\* channel and over an end and a new start of its subscription, as long as no
\* publish lets go of the lock (events/bus.go:320).
SubscriberInOrder ==
  \A s \in Subscribers : s \in DOMAIN channel /\ ~everAsync => Ascending(<<got[s]>> \o channel[s])

\* When StopAsyncWrites has returned, every event that was taken for the file
\* is in it, and never twice, whatever was published during the stop
\* (events/bus.go:613).
StopDrains ==
  /\ writer = "off" => Elements(file) = accepted
  /\ \A i, j \in DOMAIN file : file[i] = file[j] => i = j

=============================================================================
