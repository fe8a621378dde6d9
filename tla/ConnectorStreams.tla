-------------------------- MODULE ConnectorStreams -------------------------
(***************************************************************************)
(* The subscriptions of the exchange adapter (providers/bybit/adapter.go): *)
(* orders, positions, balances, tickers and stream events.  Each is one    *)
(* goroutine that takes an update from the connector's channel, translates *)
(* it and sends it on a channel of 100 to its consumer.  The five are      *)
(* alike, so one stands for each of them.                                  *)
(*                                                                         *)
(* The connector and its channel are external.  The consumer reads when it *)
(* likes, and ends the subscription's context when it leaves.              *)
(***************************************************************************)
EXTENDS Integers, Sequences

CONSTANTS Updates,      \* the updates of the exchange
          RelayBuffer   \* capacity of the adapter's channel

ASSUME RelayAssumption == RelayBuffer \in Nat

VARIABLES
    update,        \* update -> "new", "sent", "held", "passed", "read" or "dropped"
    connCh,        \* the connector's channel
    connClosed,    \* the connector has closed it
    relay,         \* the goroutine: "none", "select", "holds" (an update) or "exited"
    relayCh,       \* the adapter's channel; closed when the goroutine has exited
    subDone        \* the subscription's context is done

streamsVars == <<update, connCh, connClosed, relay, relayCh, subDone>>

StreamsInit ==
    /\ update = [u \in Updates |-> "new"]
    /\ connCh = <<>> /\ connClosed = FALSE
    /\ relay = "none" /\ relayCh = <<>>
    /\ subDone = FALSE

Becomes(u, where) == update' = [update EXCEPT ![u] = where]

\* The connector's channel is there, or the subscription fails and nothing runs.
SubscribeStream ==
    /\ relay = "none"
    /\ relay' = "select"
    /\ UNCHANGED <<update, connCh, connClosed, relayCh, subDone>>

Emit(u) ==
    /\ update[u] = "new" /\ ~connClosed
    /\ Becomes(u, "sent") /\ connCh' = Append(connCh, u)
    /\ UNCHANGED <<connClosed, relay, relayCh, subDone>>

CloseConnector ==
    /\ ~connClosed /\ connClosed' = TRUE
    /\ UNCHANGED <<update, connCh, relay, relayCh, subDone>>

TakeUpdate ==
    /\ relay = "select" /\ connCh # <<>>
    /\ relay' = "holds" /\ connCh' = Tail(connCh) /\ Becomes(Head(connCh), "held")
    /\ UNCHANGED <<connClosed, relayCh, subDone>>

\* The select finds the context done, or the connector's channel closed and empty.
RelayExits ==
    /\ relay = "select"
    /\ subDone \/ (connClosed /\ connCh = <<>>)
    /\ relay' = "exited"
    /\ UNCHANGED <<update, connCh, connClosed, relayCh, subDone>>

\* The inner select: the update goes on as soon as there is room for it.
Forward(u) ==
    /\ update[u] = "held" /\ Len(relayCh) < RelayBuffer
    /\ relay' = "select" /\ relayCh' = Append(relayCh, u) /\ Becomes(u, "passed")
    /\ UNCHANGED <<connCh, connClosed, subDone>>

\* Or the context is done: the goroutine ends with the update in its hands.
GiveUp(u) ==
    /\ update[u] = "held" /\ subDone
    /\ relay' = "exited" /\ Becomes(u, "dropped")
    /\ UNCHANGED <<connCh, connClosed, relayCh, subDone>>

\* The consumer reads; what was passed stays readable after the channel is closed.
Read ==
    /\ relayCh # <<>>
    /\ relayCh' = Tail(relayCh) /\ Becomes(Head(relayCh), "read")
    /\ UNCHANGED <<connCh, connClosed, relay, subDone>>

Leave ==
    /\ ~subDone /\ subDone' = TRUE
    /\ UNCHANGED <<update, connCh, connClosed, relay, relayCh>>

RelayStep == TakeUpdate \/ RelayExits \/ \E u \in Updates : Forward(u) \/ GiveUp(u)

StreamsNext ==
    \/ SubscribeStream
    \/ \E u \in Updates : Emit(u)
    \/ CloseConnector
    \/ RelayStep
    \/ Read
    \/ Leave

StreamsSpec == StreamsInit /\ [][StreamsNext]_streamsVars

-----------------------------------------------------------------------------
\* An update that the goroutine has taken is an item of the abstract work queue;
\* the consumer's context closes it, a connector that hangs up does not.
StreamsQueue == INSTANCE WorkQueue WITH
    Items <- Updates,
    item <- [u \in Updates |->
               CASE update[u] \in {"new", "sent"} -> "new"
                 [] update[u] \in {"held", "passed"} -> "accepted"
                 [] update[u] = "read" -> "handled"
                 [] OTHER -> "discarded"],
    open <- ~subDone

\* No update that was taken is lost while the consumer stays, however slow it is
\* and whenever the connector hangs up (adapter.go:202-397).
StreamsImplementQueue == StreamsQueue!Spec

\* The goroutine has nothing to wait for but room or updates, and has ended once
\* its context is done or the connector has hung up with room left.
StreamsSettled ==
    /\ relay = "select" => connCh = <<>> /\ ~connClosed /\ ~subDone
    /\ relay = "holds" => Len(relayCh) = RelayBuffer /\ ~subDone
=============================================================================
