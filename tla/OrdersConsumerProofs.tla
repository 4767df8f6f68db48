------------------------- MODULE OrdersConsumerProofs -------------------------
(***************************************************************************)
(* Proofs about OrdersConsumer, for any number of pods, messages and       *)
(* events, and any number of crashes and closures.                         *)
(*                                                                         *)
(* What a pod owes the broker and what its process is doing are two        *)
(* variables that different actors change. The inductive invariant ties    *)
(* them: a process has no callback and owes nothing, or it has one, which  *)
(* handles the message it owes, or handles a message the broker has taken  *)
(* back when the connection was cut. And a callback past the step that     *)
(* puts its invoice on record has it there.                                *)
(***************************************************************************)
EXTENDS OrdersConsumer, FiniteSetTheorems, TLAPS

CallbackOK(p) ==
    \/ running[p] = {} /\ unacked[p] = NoMessage
    \/ \E j \in Job :
          /\ running[p] = {j}
          /\ \/ Attached(p) /\ unacked[p] = j.message
             \/ pod[p] = "cut" /\ unacked[p] = NoMessage

JobOK(j) ==
    j.message \in Valid /\ j.stage \in {"record", "returned"}
        => onRecord[InvoiceFor(j.message)]

ProcessedOnRecord ==
    \A e \in Events : eventRec[e] = "processed" => onRecord[InvoiceOf[e]]

IInv ==
    /\ TypeOK
    /\ \A p \in Pods : CallbackOK(p)
    /\ \A p \in Pods : \A j \in running[p] : JobOK(j)
    /\ ProcessedOnRecord
    /\ AckedIsOnRecord

-----------------------------------------------------------------------------
(* Types *)

LEMMA InitTyped == Init => TypeOK
BY ConsumerAssumption
DEF Init, TypeOK, StartUp!Init, Records!Init, PodStates, Job

LEMMA StartTyped ==
  ASSUME TypeOK, NEW p \in Pods, StartUp!Boot(p)
  PROVE  /\ pod' \in [Pods -> PodStates]
         /\ database' \in {"absent", "empty", "migrated"}
<1> USE DEF TypeOK, PodStates, StartUp!Starting, StartUp!Goes
<1>1. CASE StartUp!Launch(p)
  BY <1>1 DEF StartUp!Launch
<1>2. CASE StartUp!CreateDatabase(p)
  BY <1>2 DEF StartUp!CreateDatabase
<1>3. CASE StartUp!Connect(p)
  BY <1>3 DEF StartUp!Connect
<1>4. CASE StartUp!Migrate(p)
  BY <1>4 DEF StartUp!Migrate
<1> QED
  BY <1>1, <1>2, <1>3, <1>4 DEF StartUp!Boot

LEMMA RequeueTyped ==
  ASSUME TypeOK, NEW p \in Pods, Requeue(p)
  PROVE  /\ queue' \in Seq(Messages)
         /\ unacked' \in [Pods -> Messages \cup {NoMessage}]
         /\ settled' = settled
<1>1. unacked[p] # NoMessage => <<unacked[p]>> \in Seq(Messages)
  BY DEF TypeOK
<1>2. unacked[p] # NoMessage => <<unacked[p]>> \o queue \in Seq(Messages)
  BY <1>1 DEF TypeOK
<1> QED
  BY <1>2 DEF Requeue, TypeOK

LEMMA AdvanceTyped ==
  ASSUME TypeOK, NEW p \in Pods, NEW j \in running[p], NEW s \in Stages, Advance(p, j, s)
  PROVE  running' \in [Pods -> SUBSET Job]
<1>1. j \in Job
  BY DEF TypeOK
<1>2. [j EXCEPT !.stage = s] \in Job
  BY <1>1 DEF Job
<1> QED
  BY <1>2 DEF Advance, TypeOK

LEMMA ExitTyped ==
  ASSUME TypeOK, NEW p \in Pods, Exit(p)
  PROVE  /\ pod' \in [Pods -> PodStates]
         /\ running' \in [Pods -> SUBSET Job]
         /\ queue' \in Seq(Messages)
         /\ unacked' \in [Pods -> Messages \cup {NoMessage}]
         /\ settled' = settled
<1>1. pod' \in [Pods -> PodStates] /\ running' \in [Pods -> SUBSET Job]
  BY DEF Exit, TypeOK, PodStates
<1> QED
  BY <1>1, RequeueTyped DEF Exit

LEMMA CallbackTyped ==
  ASSUME TypeOK, NEW p \in Pods, NEW j \in running[p],
         Callback(p, j) \/ Throw(p, j)
  PROVE  TypeOK'
<1>1. j \in Job /\ j.message \in Messages /\ EventOf[j.message] \in Events
  BY ConsumerAssumption DEF TypeOK, Job
<1>2. CASE Lookup(p, j)
  BY <1>2, AdvanceTyped DEF Lookup, Stages, TypeOK, broker, tables
<1>3. CASE Issue(p, j)
  BY <1>1, <1>3, AdvanceTyped DEF Issue, Records!PutOnRecord, Stages, TypeOK, broker
<1>4. CASE Record(p, j)
  BY <1>1, <1>4, AdvanceTyped DEF Record, Records!MarkProcessed, Stages, TypeOK, broker
<1>5. CASE Ack(p, j)
  BY <1>1, <1>5 DEF Ack, Settle, TypeOK, tables
<1>6. CASE Nack(p, j)
  BY <1>1, <1>6 DEF Nack, Settle, TypeOK, tables
<1>7. CASE SettleFails(p, j)
  <2>1. Exit(p) /\ UNCHANGED <<brokerUp, tables, database, crashes, closures>>
    BY <1>7 DEF SettleFails
  <2> QED
    BY <2>1, ExitTyped DEF TypeOK, tables
<1>8. CASE Throw(p, j)
  BY <1>1, <1>8, AdvanceTyped DEF Throw, Records!MarkFailed, Stages, TypeOK, broker, tables
<1> QED
  BY <1>2, <1>3, <1>4, <1>5, <1>6, <1>7, <1>8 DEF Callback

LEMMA NextTyped == TypeOK /\ [Next]_vars => TypeOK'
<1> SUFFICES ASSUME TypeOK, [Next]_vars
             PROVE  TypeOK'
  OBVIOUS
<1> USE ConsumerAssumption
<1>1. ASSUME NEW m \in Messages, Publish(m) PROVE TypeOK'
  BY <1>1 DEF Publish, TypeOK, tables
<1>2. ASSUME NEW p \in Pods, CancelConsumer(p) PROVE TypeOK'
  BY <1>2 DEF CancelConsumer, TypeOK, PodStates, ServingStates, broker, tables
<1>3. ASSUME NEW p \in Pods, CloseConnection(p) PROVE TypeOK'
  <2>1. /\ queue' \in Seq(Messages)
        /\ unacked' \in [Pods -> Messages \cup {NoMessage}]
        /\ settled' = settled
    BY <1>3, RequeueTyped DEF CloseConnection
  <2>2. closures' \in 0 .. MaxClosures
    BY <1>3 DEF CloseConnection, TypeOK
  <2>3. pod' \in [Pods -> PodStates]
    BY <1>3 DEF CloseConnection, TypeOK, PodStates, ServingStates
  <2> QED
    BY <1>3, <2>1, <2>2, <2>3 DEF CloseConnection, TypeOK, tables
<1>4. CASE BrokerStops \/ BrokerStarts
  <2>1. brokerUp' \in BOOLEAN
    BY <1>4 DEF BrokerStops, BrokerStarts
  <2>2. closures' \in 0 .. MaxClosures
    <3>1. CASE BrokerStops
      BY <3>1 DEF BrokerStops, TypeOK
    <3>2. CASE BrokerStarts
      BY <3>2 DEF BrokerStarts, TypeOK
    <3> QED
      BY <1>4, <3>1, <3>2
  <2>3. UNCHANGED <<queue, settled, unacked, pod, running, tables, database, crashes>>
    BY <1>4 DEF BrokerStops, BrokerStarts
  <2> QED
    BY <2>1, <2>2, <2>3 DEF TypeOK, tables
<1>5. ASSUME NEW p \in Pods, Boot(p) PROVE TypeOK'
  <2>1. /\ pod' \in [Pods -> PodStates]
        /\ database' \in {"absent", "empty", "migrated"}
    BY <1>5, StartTyped DEF Boot
  <2> QED
    BY <1>5, <2>1 DEF Boot, TypeOK, broker, tables
<1>6. ASSUME NEW p \in Pods, Subscribe(p) PROVE TypeOK'
  BY <1>6 DEF Subscribe, TypeOK, PodStates, ServingStates, broker, tables
<1>7. ASSUME NEW p \in Pods, Crash(p) PROVE TypeOK'
  <2>1. Exit(p) /\ crashes < MaxCrashes /\ crashes' = crashes + 1
        /\ UNCHANGED <<brokerUp, tables, database, closures>>
    BY <1>7 DEF Crash
  <2> QED
    BY <2>1, ExitTyped DEF TypeOK, tables
<1>8. ASSUME NEW p \in Pods, Deliver(p) PROVE TypeOK'
  <2>1. Head(queue) \in Messages /\ Tail(queue) \in Seq(Messages)
    BY <1>8 DEF Deliver, TypeOK
  <2>2. [message |-> Head(queue), stage |-> FirstStage(Head(queue))] \in Job
    BY <2>1 DEF FirstStage, Job, Stages
  <2> QED
    BY <1>8, <2>1, <2>2 DEF Deliver, TypeOK, tables
<1>9. ASSUME NEW p \in Pods, NEW j \in running[p], Callback(p, j) \/ Throw(p, j)
      PROVE  TypeOK'
  BY <1>9, CallbackTyped
<1>10. CASE UNCHANGED vars
  BY <1>10 DEF TypeOK, vars, broker, tables
<1> QED
  BY <1>1, <1>2, <1>3, <1>4, <1>5, <1>6, <1>7, <1>8, <1>9, <1>10 DEF Next, Quiet

\* Every reachable state of the consumer is well typed.
THEOREM TypeCorrect == Spec => []TypeOK
BY InitTyped, NextTyped, PTL DEF Spec

-----------------------------------------------------------------------------
(* Callbacks *)

LEMMA CallbackFrame ==
  ASSUME NEW q \in Pods, CallbackOK(q), UNCHANGED <<running[q], unacked[q]>>,
         pod'[q] = pod[q] \/ (pod[q] = "consuming" /\ pod'[q] = "cancelled")
  PROVE  CallbackOK(q)'
BY DEF CallbackOK, Attached

LEMMA ExitsClean ==
  ASSUME TypeOK, NEW p \in Pods, Exit(p), \A q \in Pods : CallbackOK(q)
  PROVE  \A q \in Pods : CallbackOK(q)'
<1> SUFFICES ASSUME NEW q \in Pods PROVE CallbackOK(q)'
  OBVIOUS
<1>1. CASE q = p
  <2>1. running'[q] = {} /\ unacked'[q] = NoMessage
    BY <1>1 DEF Exit, Requeue, TypeOK
  <2> QED
    BY <2>1 DEF CallbackOK
<1>2. CASE q # p
  <2>1. UNCHANGED <<running[q], unacked[q], pod[q]>>
    BY <1>2 DEF Exit, Requeue, TypeOK
  <2> QED
    BY <2>1, CallbackFrame
<1> QED
  BY <1>1, <1>2

LEMMA OneJob ==
  ASSUME NEW p \in Pods, CallbackOK(p), NEW j \in running[p]
  PROVE  /\ j \in Job /\ running[p] = {j}
         /\ \/ Attached(p) /\ unacked[p] = j.message
            \/ pod[p] = "cut" /\ unacked[p] = NoMessage
BY DEF CallbackOK

LEMMA AdvanceKeeps ==
  ASSUME TypeOK, NEW p \in Pods, NEW j \in running[p], NEW s \in Stages,
         Advance(p, j, s), UNCHANGED <<unacked, pod>>,
         \A q \in Pods : CallbackOK(q)
  PROVE  \A q \in Pods : CallbackOK(q)'
<1> SUFFICES ASSUME NEW q \in Pods PROVE CallbackOK(q)'
  OBVIOUS
<1>1. CASE q = p
  <2> DEFINE k == [j EXCEPT !.stage = s]
  <2>1. k \in Job /\ k.message = j.message
    BY OneJob DEF Job
  <2>2. running'[p] = {k}
    BY OneJob DEF Advance, TypeOK
  <2>3. \/ Attached(p) /\ unacked[p] = k.message
        \/ pod[p] = "cut" /\ unacked[p] = NoMessage
    BY <2>1, OneJob
  <2>4. \/ Attached(p)' /\ unacked'[p] = k.message
        \/ pod'[p] = "cut" /\ unacked'[p] = NoMessage
    BY <2>3 DEF Attached
  <2> HIDE DEF k
  <2> QED
    BY <1>1, <2>1, <2>2, <2>4 DEF CallbackOK
<1>2. CASE q # p
  <2>1. UNCHANGED <<running[q], unacked[q], pod[q]>>
    BY <1>2 DEF Advance, TypeOK
  <2> QED
    BY <2>1, CallbackFrame
<1> QED
  BY <1>1, <1>2

LEMMA SettleKeeps ==
  ASSUME TypeOK, NEW p \in Pods, NEW j \in running[p], NEW how, Settle(p, j, how),
         \A q \in Pods : CallbackOK(q)
  PROVE  \A q \in Pods : CallbackOK(q)'
<1> SUFFICES ASSUME NEW q \in Pods PROVE CallbackOK(q)'
  OBVIOUS
<1>1. CASE q = p
  <2>1. running'[q] = {} /\ unacked'[q] = NoMessage
    BY <1>1, OneJob DEF Settle, TypeOK
  <2> QED
    BY <2>1 DEF CallbackOK
<1>2. CASE q # p
  <2>1. UNCHANGED <<running[q], unacked[q], pod[q]>>
    BY <1>2 DEF Settle, TypeOK
  <2> QED
    BY <2>1, CallbackFrame
<1> QED
  BY <1>1, <1>2

\* A pod that is coming up has no callback and owes nothing.
LEMMA StartsClean ==
  ASSUME TypeOK, NEW p \in Pods, NEW stage,
         pod[p] \notin ServingStates, pod' = [pod EXCEPT ![p] = stage],
         UNCHANGED <<running, unacked>>, \A q \in Pods : CallbackOK(q)
  PROVE  \A q \in Pods : CallbackOK(q)'
<1> SUFFICES ASSUME NEW q \in Pods PROVE CallbackOK(q)'
  OBVIOUS
<1>1. CASE q = p
  <2>1. running[p] = {} /\ unacked[p] = NoMessage
    BY DEF CallbackOK, Attached, ServingStates
  <2> QED
    BY <1>1, <2>1 DEF CallbackOK
<1>2. CASE q # p
  <2>1. UNCHANGED <<running[q], unacked[q], pod[q]>>
    BY <1>2 DEF TypeOK
  <2> QED
    BY <2>1, CallbackFrame
<1> QED
  BY <1>1, <1>2

LEMMA CallbacksKept ==
  ASSUME TypeOK, [Next]_vars, \A q \in Pods : CallbackOK(q)
  PROVE  \A q \in Pods : CallbackOK(q)'
<1>1. ASSUME UNCHANGED <<running, unacked, pod>>
      PROVE  \A q \in Pods : CallbackOK(q)'
  BY <1>1, CallbackFrame
<1>2. ASSUME NEW m \in Messages, Publish(m)
      PROVE  \A q \in Pods : CallbackOK(q)'
  BY <1>1, <1>2 DEF Publish
<1>3. ASSUME NEW p \in Pods, CancelConsumer(p)
      PROVE  \A q \in Pods : CallbackOK(q)'
  <2> SUFFICES ASSUME NEW q \in Pods PROVE CallbackOK(q)'
    OBVIOUS
  <2>1. /\ UNCHANGED <<running[q], unacked[q]>>
        /\ pod'[q] = pod[q] \/ (pod[q] = "consuming" /\ pod'[q] = "cancelled")
    BY <1>3 DEF CancelConsumer, TypeOK, broker
  <2> QED
    BY <2>1, CallbackFrame
<1>4. ASSUME NEW p \in Pods, CloseConnection(p)
      PROVE  \A q \in Pods : CallbackOK(q)'
  <2> SUFFICES ASSUME NEW q \in Pods PROVE CallbackOK(q)'
    OBVIOUS
  <2>1. CASE q = p
    <3>1. running'[q] = running[q] /\ unacked'[q] = NoMessage /\ pod'[q] = "cut"
      BY <1>4, <2>1 DEF CloseConnection, Requeue, TypeOK
    <3> QED
      BY <3>1 DEF CallbackOK
  <2>2. CASE q # p
    <3>1. UNCHANGED <<running[q], unacked[q], pod[q]>>
      BY <1>4, <2>2 DEF CloseConnection, Requeue, TypeOK
    <3> QED
      BY <3>1, CallbackFrame
  <2> QED
    BY <2>1, <2>2
<1>5. CASE BrokerStops \/ BrokerStarts
  BY <1>1, <1>5 DEF BrokerStops, BrokerStarts
<1>6. ASSUME NEW p \in Pods, Boot(p)
      PROVE  \A q \in Pods : CallbackOK(q)'
  <2>1. pod[p] \notin ServingStates
    BY <1>6 DEF Boot, StartUp!Boot, StartUp!Launch, StartUp!CreateDatabase,
                StartUp!Connect, StartUp!Migrate, ServingStates
  <2>2. PICK stage : pod' = [pod EXCEPT ![p] = stage]
    BY <1>6 DEF Boot, StartUp!Boot, StartUp!Launch, StartUp!CreateDatabase,
                StartUp!Connect, StartUp!Migrate, StartUp!Goes
  <2>3. UNCHANGED <<running, unacked>>
    BY <1>6 DEF Boot, broker
  <2> QED
    BY <2>1, <2>2, <2>3, StartsClean
<1>7. ASSUME NEW p \in Pods, Subscribe(p)
      PROVE  \A q \in Pods : CallbackOK(q)'
  <2>1. PICK stage : pod' = [pod EXCEPT ![p] = stage]
    BY <1>7 DEF Subscribe
  <2>2. pod[p] \notin ServingStates /\ UNCHANGED <<running, unacked>>
    BY <1>7 DEF Subscribe, ServingStates, broker
  <2> QED
    BY <2>1, <2>2, StartsClean
<1>8. ASSUME NEW p \in Pods, Crash(p)
      PROVE  \A q \in Pods : CallbackOK(q)'
  BY <1>8, ExitsClean DEF Crash
<1>9. ASSUME NEW p \in Pods, Deliver(p)
      PROVE  \A q \in Pods : CallbackOK(q)'
  <2> DEFINE k == [message |-> Head(queue), stage |-> FirstStage(Head(queue))]
  <2> SUFFICES ASSUME NEW q \in Pods PROVE CallbackOK(q)'
    OBVIOUS
  <2>1. CASE q = p
    <3>1. Head(queue) \in Messages
      BY <1>9 DEF Deliver, TypeOK
    <3>2. k \in Job /\ k.message = Head(queue)
      BY <3>1 DEF FirstStage, Job, Stages
    <3>3. running[p] = {}
      BY <1>9, ConsumerAssumption DEF CallbackOK, Deliver, Attached, Job
    <3>4. running'[p] = {k} /\ unacked'[p] = Head(queue) /\ pod'[p] = "consuming"
      BY <1>9, <3>3 DEF Deliver, TypeOK
    <3> HIDE DEF k
    <3> QED
      BY <2>1, <3>2, <3>4 DEF CallbackOK, Attached
  <2>2. CASE q # p
    <3>1. UNCHANGED <<running[q], unacked[q], pod[q]>>
      BY <1>9, <2>2 DEF Deliver, TypeOK
    <3> QED
      BY <3>1, CallbackFrame
  <2> QED
    BY <2>1, <2>2
<1>10. ASSUME NEW p \in Pods, NEW j \in running[p], Callback(p, j) \/ Throw(p, j)
       PROVE  \A q \in Pods : CallbackOK(q)'
  <2>1. ASSUME NEW s \in Stages, Advance(p, j, s), UNCHANGED <<broker, pod>>
        PROVE  \A q \in Pods : CallbackOK(q)'
    BY <2>1, AdvanceKeeps DEF broker
  <2>2. CASE Lookup(p, j)
    BY <2>1, <2>2 DEF Lookup, Stages
  <2>3. CASE Issue(p, j)
    BY <2>1, <2>3 DEF Issue, Stages
  <2>4. CASE Record(p, j)
    BY <2>1, <2>4 DEF Record, Stages
  <2>5. CASE Throw(p, j)
    BY <2>1, <2>5 DEF Throw, Stages
  <2>6. CASE Ack(p, j) \/ Nack(p, j)
    BY <2>6, SettleKeeps DEF Ack, Nack
  <2>7. CASE SettleFails(p, j)
    BY <2>7, ExitsClean DEF SettleFails
  <2> QED
    BY <1>10, <2>2, <2>3, <2>4, <2>5, <2>6, <2>7 DEF Callback
<1>11. CASE UNCHANGED vars
  BY <1>1, <1>11 DEF vars, broker
<1> QED
  BY <1>2, <1>3, <1>4, <1>5, <1>6, <1>7, <1>8, <1>9, <1>10, <1>11 DEF Next, Quiet

-----------------------------------------------------------------------------
(* Records *)

LEMMA RecordsGrow ==
  ASSUME TypeOK, [Next]_vars
  PROVE  \A i \in Invoices : onRecord[i] => onRecord'[i]
<1>1. ASSUME NEW p \in Pods, NEW j \in running[p], Issue(p, j)
      PROVE  \A i \in Invoices : onRecord[i] => onRecord'[i]
  BY <1>1 DEF Issue, Records!PutOnRecord, TypeOK
<1>2. ASSUME NEW p \in Pods, NEW j \in running[p], Callback(p, j) \/ Throw(p, j),
             ~ Issue(p, j)
      PROVE  onRecord' = onRecord
  BY <1>2 DEF Callback, Lookup, Record, Ack, Nack, Settle, SettleFails, Throw,
              Records!MarkProcessed, Records!MarkFailed, tables
<1>3. \/ onRecord' = onRecord
      \/ \E p \in Pods : \E j \in running[p] : Callback(p, j) \/ Throw(p, j)
  BY DEF Next, Quiet, Publish, CancelConsumer, CloseConnection, BrokerStops,
         BrokerStarts, Boot, Subscribe, Crash, Deliver, vars, tables
<1> QED
  BY <1>1, <1>2, <1>3

\* Only a callback that records it makes an event PROCESSED.
LEMMA ProcessedKept ==
  ASSUME TypeOK, [Next]_vars, ProcessedOnRecord
  PROVE  ProcessedOnRecord'
<1>1. ASSUME eventRec' = eventRec PROVE ProcessedOnRecord'
  BY <1>1, RecordsGrow, ConsumerAssumption DEF ProcessedOnRecord
<1>2. ASSUME NEW p \in Pods, NEW j \in running[p], Record(p, j)
      PROVE  ProcessedOnRecord'
  BY <1>2 DEF Record, Records!MarkProcessed, ProcessedOnRecord, TypeOK
<1>3. ASSUME NEW p \in Pods, NEW j \in running[p], Throw(p, j)
      PROVE  ProcessedOnRecord'
  BY <1>3 DEF Throw, Records!MarkFailed, ProcessedOnRecord, TypeOK, tables
<1>4. ASSUME NEW p \in Pods, NEW j \in running[p], Callback(p, j), ~ Record(p, j)
      PROVE  eventRec' = eventRec
  BY <1>4 DEF Callback, Lookup, Issue, Ack, Nack, Settle, SettleFails,
              Records!PutOnRecord, tables
<1>5. \/ eventRec' = eventRec
      \/ \E p \in Pods : \E j \in running[p] : Callback(p, j) \/ Throw(p, j)
  BY DEF Next, Quiet, Publish, CancelConsumer, CloseConnection, BrokerStops,
         BrokerStarts, Boot, Subscribe, Crash, Deliver, vars, tables
<1> QED
  BY <1>1, <1>2, <1>3, <1>4, <1>5

LEMMA JobKept ==
  ASSUME TypeOK, [Next]_vars, NEW j \in Job, JobOK(j)
  PROVE  JobOK(j)'
<1>1. j.message \in Valid => InvoiceFor(j.message) \in Invoices
  BY ConsumerAssumption DEF Valid, InvoiceFor, Job
<1> QED
  BY <1>1, RecordsGrow DEF JobOK, InvoiceFor

\* A callback is new, goes on, or stays as it is.
LEMMA JobsKept ==
  ASSUME TypeOK, [Next]_vars, ProcessedOnRecord,
         \A p \in Pods : \A j \in running[p] : JobOK(j)
  PROVE  (\A p \in Pods : \A j \in running[p] : JobOK(j))'
<1>1. ASSUME NEW q \in Pods, NEW k \in running'[q], k \in running[q]
      PROVE  JobOK(k)'
  BY <1>1, JobKept DEF TypeOK
<1>2. ASSUME NEW p \in Pods, Deliver(p), NEW q \in Pods, NEW k \in running'[q],
             k \notin running[q]
      PROVE  JobOK(k)'
  <2>1. k = [message |-> Head(queue), stage |-> FirstStage(Head(queue))]
    BY <1>2 DEF Deliver, TypeOK
  <2>2. k.message = Head(queue) /\ k.stage = FirstStage(Head(queue))
    BY <2>1
  <2> QED
    BY <2>2 DEF JobOK, FirstStage, Valid
<1>3. ASSUME NEW p \in Pods, NEW j \in running[p], Callback(p, j) \/ Throw(p, j),
             NEW q \in Pods, NEW k \in running'[q], k \notin running[q]
      PROVE  JobOK(k)'
  <2>1. /\ JobOK(j) /\ j \in Job
        /\ j.message \in Valid => InvoiceFor(j.message) \in Invoices
    BY ConsumerAssumption DEF Valid, InvoiceFor, Job, TypeOK
  <2>2. ASSUME NEW s \in Stages, Advance(p, j, s)
        PROVE  k.message = j.message /\ k.stage = s
    <3>1. k = [j EXCEPT !.stage = s]
      BY <1>3, <2>2 DEF Advance, TypeOK
    <3> QED
      BY <2>1, <3>1 DEF Job
  <2>3. CASE Lookup(p, j)
    <3>1. CASE eventRec[EventOf[j.message]] = "processed"
      <4>1. k.message = j.message /\ onRecord' = onRecord
        BY <2>2, <2>3, <3>1 DEF Lookup, Stages, tables
      <4>2. onRecord[InvoiceFor(j.message)]
        BY <2>1, <3>1, ConsumerAssumption DEF ProcessedOnRecord, InvoiceFor, Job
      <4> QED
        BY <4>1, <4>2 DEF JobOK, InvoiceFor
    <3>2. CASE eventRec[EventOf[j.message]] # "processed"
      BY <2>2, <2>3, <3>2 DEF Lookup, Stages, JobOK
    <3> QED
      BY <3>1, <3>2
  <2>4. CASE Issue(p, j)
    <3>1. k.message = j.message
      BY <2>2, <2>4 DEF Issue, Stages
    <3>2. k.message \in Valid => onRecord'[InvoiceFor(k.message)]
      BY <2>1, <2>4, <3>1 DEF Issue, Records!PutOnRecord, InvoiceFor, TypeOK
    <3> QED
      BY <3>2 DEF JobOK, InvoiceFor
  <2>5. CASE Record(p, j)
    <3>1. k.message = j.message /\ onRecord' = onRecord /\ j.stage = "record"
      BY <2>2, <2>5 DEF Record, Stages, Records!MarkProcessed
    <3> QED
      BY <2>1, <3>1 DEF JobOK, InvoiceFor
  <2>6. CASE Throw(p, j)
    BY <2>2, <2>6 DEF Throw, Stages, JobOK
  <2>7. CASE Ack(p, j) \/ Nack(p, j) \/ SettleFails(p, j)
    BY <1>3, <2>7 DEF Ack, Nack, Settle, SettleFails, Exit, TypeOK
  <2> QED
    BY <1>3, <2>3, <2>4, <2>5, <2>6, <2>7 DEF Callback
<1>4. \/ \A q \in Pods : running'[q] \subseteq running[q]
      \/ \E p \in Pods : Deliver(p)
      \/ \E p \in Pods : \E j \in running[p] : Callback(p, j) \/ Throw(p, j)
  BY DEF Next, Quiet, Publish, CancelConsumer, CloseConnection, BrokerStops,
         BrokerStarts, Boot, Subscribe, Crash, Exit, vars, TypeOK
<1> SUFFICES ASSUME NEW q \in Pods, NEW k \in running'[q]
             PROVE  JobOK(k)'
  OBVIOUS
<1> QED
  BY <1>1, <1>2, <1>3, <1>4

LEMMA AckedKept ==
  ASSUME TypeOK, [Next]_vars, AckedIsOnRecord,
         \A p \in Pods : \A j \in running[p] : JobOK(j)
  PROVE  AckedIsOnRecord'
<1> SUFFICES ASSUME NEW m \in Valid, settled'[m] = "acked"
             PROVE  onRecord'[InvoiceFor(m)]
  BY DEF AckedIsOnRecord, InvoiceFor
<1>1. m \in Messages /\ InvoiceFor(m) \in Invoices
  BY ConsumerAssumption DEF Valid, InvoiceFor
<1>2. CASE settled[m] = "acked"
  BY <1>1, <1>2, RecordsGrow DEF AckedIsOnRecord
<1>3. ASSUME NEW p \in Pods, NEW j \in running[p], Ack(p, j), settled[m] # "acked"
      PROVE  onRecord'[InvoiceFor(m)]
  <2>1. j.message = m /\ j.stage = "returned"
    BY <1>1, <1>3 DEF Ack, Settle, TypeOK
  <2>2. onRecord[InvoiceFor(m)]
    BY <2>1 DEF JobOK
  <2> QED
    BY <1>1, <2>2, RecordsGrow
<1>4. ASSUME NEW p \in Pods, NEW j \in running[p], Nack(p, j), settled[m] # "acked"
      PROVE  FALSE
  BY <1>1, <1>4 DEF Nack, Settle, TypeOK
<1>5. ASSUME NEW n \in Messages, Publish(n), settled[m] # "acked"
      PROVE  FALSE
  BY <1>1, <1>5 DEF Publish, TypeOK
<1>6. \/ settled' = settled
      \/ \E n \in Messages : Publish(n)
      \/ \E p \in Pods : \E j \in running[p] : Ack(p, j) \/ Nack(p, j)
  BY DEF Next, Quiet, CancelConsumer, CloseConnection, BrokerStops, BrokerStarts,
         Boot, Subscribe, Crash, Exit, Deliver, Callback, Lookup, Issue, Record,
         Throw, SettleFails, Requeue, vars, broker
<1> QED
  BY <1>2, <1>3, <1>4, <1>5, <1>6

-----------------------------------------------------------------------------
(* The inductive invariant and the theorems *)

LEMMA InitIInv == Init => IInv
<1> SUFFICES ASSUME Init PROVE IInv
  OBVIOUS
<1>1. \A p \in Pods : running[p] = {} /\ unacked[p] = NoMessage
  BY DEF Init
<1>2. ProcessedOnRecord /\ AckedIsOnRecord
  BY DEF Init, Records!Init, ProcessedOnRecord, AckedIsOnRecord, Valid
<1> QED
  BY <1>1, <1>2, InitTyped DEF IInv, CallbackOK

LEMMA NextIInv == IInv /\ [Next]_vars => IInv'
BY NextTyped, CallbacksKept, JobsKept, ProcessedKept, AckedKept DEF IInv

\* The invariant holds in every reachable state: a callback's stage agrees with what
\* its pod owes the broker and with the record it has written.
THEOREM Inductive == Spec => []IInv
BY InitIInv, NextIInv, PTL DEF Spec

\* No crash, redelivery or duplicate loses an acknowledged order: its invoice is
\* on record, issued or blocked.
THEOREM AckedOnRecord == Spec => []AckedIsOnRecord
<1>1. IInv => AckedIsOnRecord
  BY DEF IInv
<1> QED
  BY <1>1, Inductive, PTL

\* A process runs one callback at a time, also when its connection has been
\* closed under a running one.
THEOREM OneCallback == Spec => []OneCallbackPerProcess
<1>1. ASSUME IInv PROVE OneCallbackPerProcess
  <2> SUFFICES ASSUME NEW p \in Pods PROVE Cardinality(running[p]) <= 1
    BY DEF OneCallbackPerProcess
  <2>1. running[p] = {} \/ \E j : running[p] = {j}
    BY <1>1 DEF IInv, CallbackOK
  <2>2. CASE running[p] = {}
    <3>1. Cardinality(running[p]) = 0
      BY <2>2, FS_EmptySet
    <3> QED
      BY <3>1
  <2>3. ASSUME NEW j, running[p] = {j}
        PROVE  Cardinality(running[p]) <= 1
    <3>1. Cardinality(running[p]) = 1
      BY <2>3, FS_Singleton
    <3> QED
      BY <3>1
  <2> QED
    BY <2>1, <2>2, <2>3
<1> QED
  BY <1>1, Inductive, PTL

\* What a pod owes the broker its process is handling: prefetch(1) never turns a
\* forgotten message into a consumer that waits for ever.
THEOREM NothingForgotten == Spec => []UnackedIsHandled
<1>1. IInv => UnackedIsHandled
  BY DEF IInv, CallbackOK, UnackedIsHandled
<1> QED
  BY <1>1, Inductive, PTL

=============================================================================
