------------------------------- MODULE QosBus -------------------------------
(***************************************************************************)
(* The domain event bus of domain/events/qos/bus.go.  An event is          *)
(* published by its caller, or through a buffered channel by one goroutine *)
(* of the bus; either calls the subscribed handlers in order, a QoS0       *)
(* handler in a goroutine of its own, a QoS1 handler with retries.         *)
(*                                                                         *)
(* Handlers return an error or not (a panic is an error) and do not wait   *)
(* for the bus.  They are subscribed before the first event; counters are  *)
(* left out.                                                               *)
(*                                                                         *)
(* A definition marked "Slip" is not part of the specification: it is a    *)
(* mistake the definition after it could hold.                             *)
(***************************************************************************)
EXTENDS Integers, Sequences

CONSTANTS
  Happenings,  \* the events, each published once
  QoSOf,       \* the handlers: the QoS of each, in order of subscription
  MaxRetries,
  AsyncBuffer  \* cfg.BufferSize

Handlers == DOMAIN QoSOf

ASSUME BusAssumption ==
  /\ QoSOf \in Seq({0, 1})
  /\ MaxRetries \in Nat /\ AsyncBuffer \in Nat

VARIABLES
  event,      \* event -> [at, async, handler, tries], tries of the current handler
  asyncCh,    \* b.asyncCh
  asyncAt,    \* the bus' goroutine: "select", "exited" or the event it publishes
  qClosed,    \* b.closed
  qCtxDone,   \* b.ctx is done
  qStopped,   \* b.stopCh is closed
  qClose,     \* Close: "idle", "cancel", "stop", "wait" or "returned"
  heard,      \* history: event -> handler -> [calls, won]
  spawned     \* [event, handler] of the QoS0 goroutines that have not run

qosVars == <<event, asyncCh, asyncAt, qClosed, qCtxDone, qStopped, qClose, heard, spawned>>

Fresh == [at |-> "new", async |-> FALSE, handler |-> 1, tries |-> 0]

QosInit ==
  /\ event = [e \in Happenings |-> Fresh]
  /\ asyncCh = <<>> /\ asyncAt = "select"
  /\ qClosed = FALSE /\ qCtxDone = FALSE /\ qStopped = FALSE /\ qClose = "idle"
  /\ heard = [e \in Happenings |-> [h \in Handlers |-> [calls |-> 0, won |-> FALSE]]]
  /\ spawned = {}

At(e, place) == event' = [event EXCEPT ![e].at = place]

Refused == qClosed \/ qCtxDone

\* PublishAsync looks at closed and the contexts, its caller's too.
CheckAsync(e) ==
  /\ event[e].at = "new"
  /\ \/ ~Refused /\ event' = [event EXCEPT ![e].at = "sending", ![e].async = TRUE]
     \/ event' = [event EXCEPT ![e].at = "dropped", ![e].async = TRUE]
  /\ UNCHANGED <<asyncCh, asyncAt, qClosed, qCtxDone, qStopped, qClose, heard, spawned>>

\* And sends without the lock: the bus may have been closed meanwhile.
SendAsync(e) ==
  /\ event[e].at = "sending"
  /\ IF Len(asyncCh) < AsyncBuffer
       THEN asyncCh' = Append(asyncCh, e) /\ At(e, "queued")
       ELSE UNCHANGED asyncCh /\ At(e, "dropped")
  /\ UNCHANGED <<asyncAt, qClosed, qCtxDone, qStopped, qClose, heard, spawned>>

\* A caller publishes the event itself.
PublishSync(e) ==
  /\ event[e].at = "new"
  /\ At(e, "check")
  /\ UNCHANGED <<asyncCh, asyncAt, qClosed, qCtxDone, qStopped, qClose, heard, spawned>>

\* The bus' goroutine takes an event to publish.
TakeAsync ==
  /\ asyncAt = "select" /\ asyncCh # <<>>
  /\ asyncAt' = Head(asyncCh) /\ asyncCh' = Tail(asyncCh)
  /\ At(Head(asyncCh), "check")
  /\ UNCHANGED <<qClosed, qCtxDone, qStopped, qClose, heard, spawned>>

\* Its select picks the stop channel: what is queued stays.
AsyncStops ==
  /\ asyncAt = "select" /\ qStopped
  /\ asyncAt' = "exited"
  /\ UNCHANGED <<event, asyncCh, qClosed, qCtxDone, qStopped, qClose, heard, spawned>>

\* Publish of e has returned.
PublishEnds(e) == asyncAt' = IF asyncAt = e THEN "select" ELSE asyncAt

\* Slip: the bus' goroutine publishes under the context of the event's publisher.
StartPublishCallerContext(e) ==
  /\ event[e].at = "check"
  /\ \/ At(e, "canceled") /\ PublishEnds(e)
     \/ ~Refused /\ At(e, "deliver") /\ UNCHANGED asyncAt
  /\ UNCHANGED <<asyncCh, qClosed, qCtxDone, qStopped, qClose, heard, spawned>>

\* Publish's own check, and its copy of the handlers.
StartPublish(e) ==
  /\ event[e].at = "check"
  /\ IF Refused
       THEN At(e, "canceled") /\ PublishEnds(e)
       ELSE IF Handlers = {} THEN At(e, "done") /\ PublishEnds(e)
            ELSE At(e, "deliver") /\ UNCHANGED asyncAt
  /\ UNCHANGED <<asyncCh, qClosed, qCtxDone, qStopped, qClose, heard, spawned>>

\* The loop of Publish goes to the next handler, whatever became of this one.
NextHandler(e) ==
  IF event[e].handler = Len(QoSOf)
    THEN At(e, "done") /\ PublishEnds(e)
    ELSE /\ event' = [event EXCEPT ![e].at = "deliver", ![e].handler = @ + 1, ![e].tries = 0]
         /\ UNCHANGED asyncAt

DeliverQoS0(e) ==
  /\ event[e].at = "deliver" /\ QoSOf[event[e].handler] = 0
  /\ spawned' = spawned \cup {<<e, event[e].handler>>}
  /\ NextHandler(e)
  /\ UNCHANGED <<asyncCh, qClosed, qCtxDone, qStopped, qClose, heard>>

Called(e, h, success) ==
  heard' = [heard EXCEPT ![e][h].calls = @ + 1, ![e][h].won = @ \/ success]

\* The goroutine of a QoS0 delivery: nothing waits for it, not even Close.
HandleQoS0(e, h) ==
  /\ <<e, h>> \in spawned
  /\ spawned' = spawned \ {<<e, h>>}
  /\ \E success \in BOOLEAN : Called(e, h, success)
  /\ UNCHANGED <<event, asyncCh, asyncAt, qClosed, qCtxDone, qStopped, qClose>>

\* Slip: the last retry is left out.
HandleQoS1OneLess(e) ==
  LET h == event[e].handler IN
  /\ event[e].at = "deliver" /\ QoSOf[h] = 1
  /\ \/ Called(e, h, TRUE) /\ NextHandler(e)
     \/ /\ Called(e, h, FALSE)
        /\ IF event[e].tries + 1 < MaxRetries
             THEN At(e, "pause") /\ UNCHANGED asyncAt
             ELSE NextHandler(e)
  /\ UNCHANGED <<asyncCh, qClosed, qCtxDone, qStopped, qClose, spawned>>

\* One attempt of deliverQoS1.
HandleQoS1(e) ==
  LET h == event[e].handler IN
  /\ event[e].at = "deliver" /\ QoSOf[h] = 1
  /\ \/ Called(e, h, TRUE) /\ NextHandler(e)
     \/ /\ Called(e, h, FALSE)
        /\ IF event[e].tries < MaxRetries
             THEN At(e, "pause") /\ UNCHANGED asyncAt
             ELSE NextHandler(e)
  /\ UNCHANGED <<asyncCh, qClosed, qCtxDone, qStopped, qClose, spawned>>

\* The retry interval is over.
Retry(e) ==
  /\ event[e].at = "pause"
  /\ event' = [event EXCEPT ![e].at = "deliver", ![e].tries = @ + 1]
  /\ UNCHANGED <<asyncCh, asyncAt, qClosed, qCtxDone, qStopped, qClose, heard, spawned>>

\* The bus' context ends the pause, or that of a publishing caller.
GiveUpRetry(e) ==
  /\ event[e].at = "pause"
  /\ qCtxDone \/ ~event[e].async
  /\ NextHandler(e)
  /\ UNCHANGED <<asyncCh, qClosed, qCtxDone, qStopped, qClose, heard, spawned>>

CloseQos ==
  /\ qClose = "idle"
  /\ qClosed' = TRUE /\ qClose' = "cancel"
  /\ UNCHANGED <<event, asyncCh, asyncAt, qCtxDone, qStopped, heard, spawned>>

CancelQos ==
  /\ qClose = "cancel"
  /\ qCtxDone' = TRUE /\ qClose' = "stop"
  /\ UNCHANGED <<event, asyncCh, asyncAt, qClosed, qStopped, heard, spawned>>

StopQos ==
  /\ qClose = "stop"
  /\ qStopped' = TRUE /\ qClose' = "wait"
  /\ UNCHANGED <<event, asyncCh, asyncAt, qClosed, qCtxDone, heard, spawned>>

\* wg.Wait returns.
QosClosed ==
  /\ qClose = "wait" /\ asyncAt = "exited"
  /\ qClose' = "returned"
  /\ UNCHANGED <<event, asyncCh, asyncAt, qClosed, qCtxDone, qStopped, heard, spawned>>

PublishStep(e) ==
  \/ StartPublish(e) \/ DeliverQoS0(e) \/ HandleQoS1(e) \/ Retry(e) \/ GiveUpRetry(e)

CloseStep == CancelQos \/ StopQos \/ QosClosed

QosNext ==
  \/ \E e \in Happenings : CheckAsync(e) \/ SendAsync(e) \/ PublishSync(e) \/ PublishStep(e)
  \/ \E e \in Happenings, h \in Handlers : HandleQoS0(e, h)
  \/ TakeAsync \/ AsyncStops
  \/ CloseQos \/ CloseStep

QosSpec == QosInit /\ [][QosNext]_qosVars

QosProgress == (\E e \in Happenings : PublishStep(e)) \/ TakeAsync \/ AsyncStops \/ CloseStep

\* Something that can go on does: handlers return and pauses end.
QosFairSpec == QosSpec /\ WF_qosVars(QosProgress)

-----------------------------------------------------------------------------
(* Properties *)

QosTypeOK ==
  /\ event \in [Happenings -> [at: {"new", "sending", "queued", "check", "deliver", "pause",
                                    "done", "canceled", "dropped"},
                               async: BOOLEAN, handler: 1..(Len(QoSOf) + 1), tries: 0..MaxRetries]]
  /\ asyncCh \in Seq(Happenings) /\ Len(asyncCh) <= AsyncBuffer
  /\ asyncAt \in Happenings \cup {"select", "exited"}
  /\ qClosed \in BOOLEAN /\ qCtxDone \in BOOLEAN /\ qStopped \in BOOLEAN
  /\ qClose \in {"idle", "cancel", "stop", "wait", "returned"}
  /\ spawned \subseteq Happenings \X Handlers

\* At least once: when a Publish the bus makes itself has ended, each QoS1 handler has
\* taken the event, or has failed MaxRetries + 1 times, or the bus was closed; each is
\* called at least once even then, and none more often. At most once: a QoS0 handler
\* gets an event once, or will, whoever published it and whatever Close did meanwhile.
DeliveredByQoS ==
  \A e \in Happenings, h \in Handlers :
    LET calls == heard[e][h].calls
        owed == IF <<e, h>> \in spawned THEN 1 ELSE 0
    IN IF QoSOf[h] = 0
         THEN calls + owed <= 1 /\ (event[e].at = "done" => calls + owed = 1)
         ELSE event[e].at = "done" =>
                /\ calls \in 1..(MaxRetries + 1)
                /\ event[e].async =>
                     heard[e][h].won \/ calls = MaxRetries + 1 \/ qCtxDone

EventItem ==
  [e \in Happenings |->
     IF ~event[e].async THEN "new"
     ELSE CASE event[e].at \in {"new", "sending", "dropped"} -> "new"
            [] event[e].at = "done" -> "handled"
            [] event[e].at = "canceled" -> "discarded"
            [] OTHER -> "accepted"]
BusQueue == INSTANCE WorkQueue WITH Items <- Happenings, item <- EventItem, open <- ~qClosed

\* The asynchronous side of the bus is a work queue: an event it has taken is
\* delivered once, and is given up only when the bus is closed.
BusImplementsQueue == BusQueue!Spec

\* Close returns, also in the middle of the retries of a handler that keeps failing,
\* and a bus that is open has delivered what it took.
QosSettled ==
  /\ qClose \in {"idle", "returned"}
  /\ \A e \in Happenings : event[e].at \notin {"check", "deliver", "pause"}
  /\ qClosed \/ asyncCh = <<>>
QosSettles == []<>QosSettled
=============================================================================
