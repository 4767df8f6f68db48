---------------------------- MODULE OrdersConsumer ----------------------------
(***************************************************************************)
(* RabbitMqOrdersConsumer: the queue invoices.orders.lifecycle, the pods   *)
(* that consume it, and the callback that hands each message to            *)
(* InvoicesService.handleOrdersEvent and then settles it.                  *)
(*                                                                         *)
(* A pod comes up as ServiceStart says, and connects to the broker once,   *)
(* before it listens for HTTP. Nothing listens to the connection           *)
(* or to the channel afterwards, so what the broker does to them decides:  *)
(* an abrupt loss is an unhandled 'error' event, which ends the process;   *)
(* an orderly close is only a 'close' event, which nobody hears; and the   *)
(* end of the consumer is a callback with no message, which returns. A     *)
(* callback that is running when its connection goes runs on, and its ack, *)
(* then its nack, throw: the rejection is unhandled and ends the process.  *)
(*                                                                         *)
(* handleOrdersEvent is EventRecords', one action from await to await.     *)
(***************************************************************************)
EXTENDS Naturals, Sequences, FiniteSets

CONSTANTS
    Pods,           \* one, or two while a rollout replaces one by the other
    Messages,       \* published messages
    NoMessage,
    Events, Invoices, InvoiceOf,
    EventOf,        \* EventOf[m]: the event message m carries
    Malformed,      \* messages that are not JSON
    Refused,        \* messages whose envelope is not a valid Orders event
    HandlerThrows,  \* whether calls of handleOrdersEvent may fail
    AutoCreate,     \* ServiceStart
    MaxCrashes,     \* bound: times a process ends
    MaxClosures     \* bound: connections closed and consumers cancelled

ASSUME ConsumerAssumption ==
    /\ NoMessage \notin Messages
    /\ InvoiceOf \in [Events -> Invoices]
    /\ EventOf \in [Messages -> Events]
    /\ Malformed \subseteq Messages
    /\ Refused \subseteq Messages
    /\ HandlerThrows \in BOOLEAN
    /\ AutoCreate \in BOOLEAN
    /\ MaxCrashes \in Nat
    /\ MaxClosures \in Nat

VARIABLES
    brokerUp,   \* whether RabbitMQ answers
    queue,      \* the messages ready for delivery, oldest first
    settled,    \* unpublished, pending, acked or dropped, by message
    pod,        \* each pod's process and its subscription
    database,   \* ServiceStart
    unacked,    \* the message the broker waits for each pod to settle
    running,    \* the callbacks each process is executing
    eventRec,   \* EventRecords
    onRecord,   \* EventRecords
    crashes,
    closures

broker == <<brokerUp, queue, settled, unacked>>
tables == <<eventRec, onRecord>>
vars == <<broker, pod, running, tables, database, crashes, closures>>

Records == INSTANCE EventRecords

StartUp == INSTANCE ServiceStart

\* A pod in one of these states has listened for HTTP ever since it subscribed.
ServingStates == {"consuming", "cancelled", "cut"}

PodStates == {"down"} \cup StartUp!Starting \cup ServingStates

Stages == {"lookup", "issue", "record", "returned", "thrown"}

Job == [message : Messages, stage : Stages]

TypeOK ==
    /\ brokerUp \in BOOLEAN
    /\ queue \in Seq(Messages)
    /\ settled \in [Messages -> {"unpublished", "pending", "acked", "dropped"}]
    /\ pod \in [Pods -> PodStates]
    /\ database \in {"absent", "empty", "migrated"}
    /\ unacked \in [Pods -> Messages \cup {NoMessage}]
    /\ running \in [Pods -> SUBSET Job]
    /\ eventRec \in [Events -> {"none", "failed", "processed"}]
    /\ onRecord \in [Invoices -> BOOLEAN]
    /\ crashes \in 0 .. MaxCrashes
    /\ closures \in 0 .. MaxClosures

Init ==
    /\ brokerUp = TRUE
    /\ queue = << >>
    /\ settled = [m \in Messages |-> "unpublished"]
    /\ StartUp!Init
    /\ unacked = [p \in Pods |-> NoMessage]
    /\ running = [p \in Pods |-> {}]
    /\ Records!Init
    /\ crashes = 0
    /\ closures = 0

-----------------------------------------------------------------------------
(* The broker *)

\* The channel is open: the pod's acks and nacks arrive.
Attached(p) == pod[p] \in {"consuming", "cancelled"}

\* When a pod's channel goes, the broker takes its unacked message back.
Requeue(p) ==
    /\ queue' = IF unacked[p] = NoMessage THEN queue ELSE <<unacked[p]>> \o queue
    /\ unacked' = [unacked EXCEPT ![p] = NoMessage]
    /\ UNCHANGED settled

\* Orders publishes a message to the durable queue.
Publish(m) ==
    /\ brokerUp
    /\ settled[m] = "unpublished"
    /\ settled' = [settled EXCEPT ![m] = "pending"]
    /\ queue' = Append(queue, m)
    /\ UNCHANGED <<brokerUp, unacked, pod, running, tables, database, crashes, closures>>

\* Deviation: the consumer reconnects as soon as its connection is closed,
\* while a callback may still be running.
CloseConnectionReconnecting(p) ==
    /\ Attached(p)
    /\ closures < MaxClosures
    /\ closures' = closures + 1
    /\ Requeue(p)
    /\ UNCHANGED <<brokerUp, pod, running, tables, database, crashes>>

\* The broker closes p's connection in good order (it is shut down, or an
\* operator does it): no error is raised, and p is never told again.
CloseConnection(p) ==
    /\ Attached(p)
    /\ closures < MaxClosures
    /\ closures' = closures + 1
    /\ pod' = [pod EXCEPT ![p] = "cut"]
    /\ Requeue(p)
    /\ UNCHANGED <<brokerUp, running, tables, database, crashes>>

\* The broker cancels the consumer, the queue's node having failed: the callback
\* is called with no message.
CancelConsumer(p) ==
    /\ pod[p] = "consuming"
    /\ closures < MaxClosures
    /\ closures' = closures + 1
    /\ pod' = [pod EXCEPT ![p] = "cancelled"]
    /\ UNCHANGED <<broker, running, tables, database, crashes>>

\* The broker is down when it has closed its connections, for as long as it
\* pleases.
BrokerStops ==
    /\ brokerUp
    /\ \A p \in Pods : ~ Attached(p)
    /\ closures < MaxClosures
    /\ closures' = closures + 1
    /\ brokerUp' = FALSE
    /\ UNCHANGED <<queue, settled, unacked, pod, running, tables, database, crashes>>

BrokerStarts ==
    /\ ~ brokerUp
    /\ brokerUp' = TRUE
    /\ UNCHANGED <<queue, settled, unacked, pod, running, tables, database, crashes, closures>>

-----------------------------------------------------------------------------
(* The process *)

Boot(p) ==
    /\ StartUp!Boot(p)
    /\ UNCHANGED <<broker, running, tables, crashes, closures>>

\* onModuleInit connects and subscribes, and HTTP is served. While the broker is
\* down connect rejects, the bootstrap fails and the process ends.
Subscribe(p) ==
    /\ pod[p] = "ready"
    /\ pod' = [pod EXCEPT ![p] = IF brokerUp THEN "consuming" ELSE "down"]
    /\ UNCHANGED <<broker, running, tables, database, crashes, closures>>

\* The process is gone and its callbacks with it.
Exit(p) ==
    /\ pod' = [pod EXCEPT ![p] = "down"]
    /\ running' = [running EXCEPT ![p] = {}]
    /\ Requeue(p)

\* The process is killed (a rollout, no shutdown hooks), fails, or loses its
\* connection abruptly.
Crash(p) ==
    /\ pod[p] # "down"
    /\ crashes < MaxCrashes
    /\ crashes' = crashes + 1
    /\ Exit(p)
    /\ UNCHANGED <<brokerUp, tables, database, closures>>

-----------------------------------------------------------------------------
(* The callback *)

\* j goes on to stage s.
Advance(p, j, s) ==
    running' = [running EXCEPT ![p] = (@ \ {j}) \cup {[j EXCEPT !.stage = s]}]

\* JSON.parse throws, validateOrdersEventEnvelope refuses ("ignored"), or the
\* event's record is looked up.
FirstStage(m) ==
    IF m \in Malformed THEN "thrown" ELSE
    IF m \in Refused THEN "returned" ELSE "lookup"

\* prefetch(1): the broker sends p a message when p owes it nothing.
Deliver(p) ==
    LET m == Head(queue) IN
    /\ pod[p] = "consuming"
    /\ unacked[p] = NoMessage
    /\ queue # << >>
    /\ queue' = Tail(queue)
    /\ unacked' = [unacked EXCEPT ![p] = m]
    /\ running' = [running EXCEPT ![p] =
          @ \cup {[message |-> m, stage |-> FirstStage(m)]}]
    /\ UNCHANGED <<brokerUp, settled, pod, tables, database, crashes, closures>>

\* Deviation: the envelope's validation accepts a type that routeVerifiedEvent
\* does not know: the event is marked SKIPPED.
LookupUnrouted(p, j) ==
    /\ j.stage = "lookup"
    /\ eventRec' = [eventRec EXCEPT ![EventOf[j.message]] = "skipped"]
    /\ Advance(p, j, "returned")
    /\ UNCHANGED <<broker, onRecord, pod, database, crashes, closures>>

\* handleOrdersEvent returns "deduped" for a PROCESSED event.
Lookup(p, j) ==
    /\ j.stage = "lookup"
    /\ Advance(p, j, IF eventRec[EventOf[j.message]] = "processed"
                     THEN "returned" ELSE "issue")
    /\ UNCHANGED <<broker, pod, tables, database, crashes, closures>>

\* Deviation: an event whose order cannot be read is skipped, and left without
\* a blocked invoice.
IssueSkipping(p, j) ==
    /\ j.stage = "issue"
    /\ Advance(p, j, "returned")
    /\ UNCHANGED <<broker, pod, tables, database, crashes, closures>>

\* The invoice is issued or blocked, or was issued before.
Issue(p, j) ==
    /\ j.stage = "issue"
    /\ Records!PutOnRecord(InvoiceOf[EventOf[j.message]])
    /\ Advance(p, j, "record")
    /\ UNCHANGED <<broker, pod, database, crashes, closures>>

\* The event is marked PROCESSED; if the answer is lost, that is an exception.
Record(p, j) ==
    /\ j.stage = "record"
    /\ Records!MarkProcessed(EventOf[j.message])
    /\ \/ Advance(p, j, "returned")
       \/ HandlerThrows /\ Advance(p, j, "thrown")
    /\ UNCHANGED <<broker, pod, database, crashes, closures>>

\* handleOrdersEvent throws, from the lookup without a trace, later with the
\* event marked FAILED if the database lets it.
Throw(p, j) ==
    /\ HandlerThrows
    /\ j.stage \in {"lookup", "issue", "record"}
    /\ \/ j.stage # "lookup" /\ Records!MarkFailed(EventOf[j.message])
       \/ UNCHANGED tables
    /\ Advance(p, j, "thrown")
    /\ UNCHANGED <<broker, pod, database, crashes, closures>>

\* The broker forgets j's message, settled as said, and the callback is over.
Settle(p, j, how) ==
    /\ Attached(p)
    /\ settled' = [settled EXCEPT ![j.message] = how]
    /\ unacked' = [unacked EXCEPT ![p] = NoMessage]
    /\ running' = [running EXCEPT ![p] = @ \ {j}]
    /\ UNCHANGED <<brokerUp, queue, pod, tables, database, crashes, closures>>

\* Deviation: "ignored" results are logged and not acknowledged.
AckUnlessIgnored(p, j) ==
    /\ j.stage = "returned"
    /\ IF j.message \in Refused
       THEN /\ running' = [running EXCEPT ![p] = @ \ {j}]
            /\ UNCHANGED <<broker, pod, tables, database, crashes, closures>>
       ELSE Settle(p, j, "acked")

\* Whatever handleOrdersEvent answered, "ignored" and "blocked" included.
Ack(p, j) ==
    /\ j.stage = "returned"
    /\ Settle(p, j, "acked")

\* Deviation: nack(message, false, true).
NackRequeuing(p, j) ==
    /\ j.stage = "thrown"
    /\ Attached(p)
    /\ Requeue(p)
    /\ running' = [running EXCEPT ![p] = @ \ {j}]
    /\ UNCHANGED <<brokerUp, pod, tables, database, crashes, closures>>

\* nack(message, false, false), and the queue has no dead-letter exchange.
Nack(p, j) ==
    /\ j.stage = "thrown"
    /\ Settle(p, j, "dropped")

\* On the closed channel ack throws, and so does nack in the catch block.
SettleFails(p, j) ==
    /\ pod[p] = "cut"
    /\ j.stage \in {"returned", "thrown"}
    /\ Exit(p)
    /\ UNCHANGED <<brokerUp, tables, database, crashes, closures>>

\* What the callback does next if nothing fails: it always has a next step.
Callback(p, j) ==
    \/ Lookup(p, j) \/ Issue(p, j) \/ Record(p, j)
    \/ Ack(p, j) \/ Nack(p, j) \/ SettleFails(p, j)

-----------------------------------------------------------------------------

\* The queue is drained or nobody listens to it. Without this step TLC would
\* report the end of the messages and faults the bounds allow as a deadlock.
Quiet ==
    /\ \A p \in Pods : running[p] = {} /\ unacked[p] = NoMessage
    /\ UNCHANGED vars

Next ==
    \/ \E m \in Messages : Publish(m)
    \/ \E p \in Pods : CancelConsumer(p) \/ CloseConnection(p)
    \/ BrokerStops \/ BrokerStarts
    \/ \E p \in Pods : Boot(p) \/ Subscribe(p) \/ Crash(p) \/ Deliver(p)
    \/ \E p \in Pods : \E j \in running[p] : Callback(p, j) \/ Throw(p, j)
    \/ Quiet

Spec == Init /\ [][Next]_vars

\* Kubernetes starts a process that has ended, the broker delivers what it can,
\* and every call the callback awaits comes back (they have timeouts, or the
\* database answers). Publishing, failing and recovering are nobody's duty.
Fairness ==
    \A p \in Pods :
        /\ WF_vars(Boot(p) \/ Subscribe(p))
        /\ WF_vars(Deliver(p))
        /\ WF_vars(\E j \in running[p] : Callback(p, j))

FairSpec == Spec /\ Fairness

-----------------------------------------------------------------------------
(* Properties *)

Valid == Messages \ (Malformed \cup Refused)

InvoiceFor(m) == InvoiceOf[EventOf[m]]

\* A message is acknowledged only when its invoice is on record, issued or
\* blocked: no crash, redelivery or duplicate loses an acknowledged order.
AckedIsOnRecord ==
    \A m \in Valid : settled[m] = "acked" => onRecord[InvoiceFor(m)]

\* A process runs one callback at a time, also after its connection is closed
\* under a running one: prefetch(1) counts per channel, and a second channel is
\* never opened. This is what InvoiceIssuance's serial run assumes of a pod.
OneCallbackPerProcess ==
    \A p \in Pods : Cardinality(running[p]) <= 1

\* A message that has left the queue is in the hands of one pod, whose process
\* is handling it: none is forgotten unacked, which prefetch(1) would turn into
\* a consumer that waits for ever.
UnackedIsHandled ==
    \A p \in Pods : unacked[p] # NoMessage =>
        /\ Attached(p)
        /\ \E j \in running[p] : j.message = unacked[p]

\* As long as some pod listens again and again, every published message is
\* settled: no message, however bad, blocks the ones behind it.
EveryMessageSettled ==
    ([]<> \E p \in Pods : pod[p] = "consuming") =>
        \A m \in Messages :
            (settled[m] = "pending") ~> (settled[m] \in {"acked", "dropped"})

\* As long as the broker stays up, every pod comes to serve, again and again,
\* whatever races its start loses: for the new database, for the migration, or
\* with a crash between any two of its steps.
EveryPodServes ==
    (<>[]brokerUp) => \A p \in Pods : []<>(pod[p] \in ServingStates)

-----------------------------------------------------------------------------
(* Properties the documents state and the code does not have *)

\* When the consumer cannot connect, "issuance can still be driven through the
\* guarded synthetic ingestion route": a pod comes to serve HTTP, broker or not.
ServesWithoutBroker ==
    \A p \in Pods : (pod[p] = "down") ~> (pod[p] \in ServingStates)

\* "Every order that reaches the created state has exactly one proforma invoice
\* record", and every paid one a final one: once published, an event's invoice
\* comes to be on record, if the broker stays up from some time on.
EveryOrderOnRecord ==
    (<>[]brokerUp) =>
        \A m \in Valid : (settled[m] = "pending") ~> onRecord[InvoiceFor(m)]

=============================================================================
