------------------------- MODULE BackgroundServices ------------------------
(***************************************************************************)
(* The services that take work over a channel: the job manager, the stream *)
(* writers, the QoS bus and the exchange adapter's subscriptions.  They    *)
(* share no state; each is a module of its own, and this one says what all *)
(* of them promise.                                                        *)
(***************************************************************************)
EXTENDS JobManager, StreamWriter, QosBus, ConnectorStreams

\* All of them side by side, in any interleaving of their steps.
BackgroundSpec == JobsSpec /\ WriterSpec /\ QosSpec /\ StreamsSpec

\* They implement one abstract work queue: an item is handled only after it was
\* accepted, once, and none that was accepted is given up before the queue begins to
\* close (service/jobs/manager.go, storage/dual/writer.go,
\* providers/storage/dualstream.go, domain/events/qos/bus.go, providers/bybit/adapter.go).
QueuesImplementWorkQueue ==
    /\ JobsImplementQueue
    /\ WriterImplementsQueue
    /\ BusImplementsQueue
    /\ StreamsImplementQueue
=============================================================================
