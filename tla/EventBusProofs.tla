--------------------------- MODULE EventBusProofs --------------------------
(***************************************************************************)
(* Theorems about EventBus for any publishers, subscriptions and sizes.    *)
(***************************************************************************)
EXTENDS EventBus, TLAPS

-----------------------------------------------------------------------------
(* Channels *)

\* What is in a channel.
InChannel(ch) == {ch[i] : i \in 1..Len(ch)}

\* A send keeps what is in the channel and adds the event.
LEMMA AppendHolds ==
  ASSUME NEW E, NEW ch \in Seq(E), NEW e \in E
  PROVE  /\ Append(ch, e) \in Seq(E)
         /\ Len(Append(ch, e)) = Len(ch) + 1
         /\ InChannel(Append(ch, e)) = InChannel(ch) \cup {e}
<1>1. /\ Append(ch, e) \in Seq(E)
      /\ Len(Append(ch, e)) = Len(ch) + 1
      /\ \A i \in 1..Len(ch) : Append(ch, e)[i] = ch[i]
      /\ Append(ch, e)[Len(ch) + 1] = e
      /\ Len(ch) \in Nat
  OBVIOUS
<1> QED BY <1>1 DEF InChannel

\* A receive takes out the head and nothing else.
LEMMA TailHolds ==
  ASSUME NEW E, NEW ch \in Seq(E), ch # <<>>
  PROVE  /\ Head(ch) \in E
         /\ Tail(ch) \in Seq(E)
         /\ Len(Tail(ch)) = Len(ch) - 1
         /\ InChannel(ch) \subseteq InChannel(Tail(ch)) \cup {Head(ch)}
<1>1. /\ Head(ch) \in E /\ Head(ch) = ch[1]
      /\ Tail(ch) \in Seq(E)
      /\ Len(Tail(ch)) = Len(ch) - 1
      /\ \A i \in 1..Len(ch) - 1 : Tail(ch)[i] = ch[i + 1]
      /\ Len(ch) \in Nat
  OBVIOUS
<1>2. ASSUME NEW i \in 1..Len(ch), i # 1
      PROVE  ch[i] \in InChannel(Tail(ch))
  <2>1. i - 1 \in 1..Len(Tail(ch)) /\ Tail(ch)[i - 1] = ch[i]
    BY <1>1, <1>2
  <2> QED BY <2>1 DEF InChannel
<1> QED BY <1>1, <1>2 DEF InChannel

-----------------------------------------------------------------------------
(* Type correctness *)

\* A publisher that has begun a call has a number to give to its event.
PubNumbered == \A p \in Pubs : pub[p].at # "idle" => pub[p].n >= 1

TypeInv == TypeOK /\ PubNumbered

\* A subscription's record is replaced by another one.
LEMMA RecordType ==
  ASSUME TypeOK, NEW s \in Subs, NEW r \in Subscriptions, Len(r.ch) <= Capacity,
         sub' = [sub EXCEPT ![s] = r]
  PROVE  /\ sub' \in [Subs -> Subscriptions]
         /\ \A t \in Subs : Len(sub'[t].ch) <= Capacity
<1>1. \A t \in Subs : sub'[t] = IF t = s THEN r ELSE sub[t]
  BY DEF TypeOK
<1>2. \A t \in Subs : Len(sub'[t].ch) <= Capacity
  BY <1>1 DEF TypeOK
<1> QED BY <1>2 DEF TypeOK

\* A publisher's record.
Publishers ==
  [at: {"idle", "checked", "sending"}, n: 0..MaxPublish, todo: SUBSET Subs]

\* A publisher's record is replaced by another one.
LEMMA PublisherType ==
  ASSUME TypeInv, NEW p \in Pubs, NEW r \in Publishers, r.at = "idle" \/ r.n >= 1,
         pub' = [pub EXCEPT ![p] = r]
  PROVE  pub' \in [Pubs -> Publishers] /\ PubNumbered'
<1>1. pub \in [Pubs -> Publishers]
  BY DEF TypeInv, TypeOK, Publishers
<1>2. \A t \in Pubs : pub'[t] = IF t = p THEN r ELSE pub[t]
  BY <1>1
<1>3. PubNumbered'
  BY <1>2 DEF TypeInv, PubNumbered
<1> QED BY <1>1, <1>3

\* The sends of a publisher keep the types.
LEMMA SendType ==
  ASSUME TypeInv, NEW p \in Pubs, NEW s \in Subs,
         Send(p, s) \/ Drop(p, s) \/ GiveUp(p, s) \/ SendPanics(p, s)
  PROVE  TypeInv'
<1> USE CapacityAssumption, MaxPublishAssumption
<1>1. CASE Send(p, s)
  <2> DEFINE event == [from |-> p, n |-> pub[p].n]
  <2>1. event \in Events
    BY <1>1 DEF Send, TypeInv, TypeOK, PubNumbered, Events
  <2>2. /\ sub[s].ch \in Seq(Events)
        /\ Append(sub[s].ch, event) \in Seq(Events)
        /\ Len(Append(sub[s].ch, event)) = Len(sub[s].ch) + 1
        /\ Len(sub[s].ch) \in Nat
    BY <2>1, AppendHolds DEF TypeInv, TypeOK, Subscriptions
  <2>3. /\ sub' \in [Subs -> Subscriptions]
        /\ \A t \in Subs : Len(sub'[t].ch) <= Capacity
    <3> DEFINE r == [sub[s] EXCEPT !.ch = Append(sub[s].ch, event)]
    <3>1. sub[s] \in Subscriptions /\ Len(sub[s].ch) < Capacity
      BY <1>1 DEF Send, TypeInv, TypeOK
    <3>2. r \in Subscriptions /\ r.ch = Append(sub[s].ch, event)
      BY <2>2, <3>1 DEF Subscriptions
    <3>3. Len(r.ch) <= Capacity
      BY <2>2, <3>1, <3>2
    <3>4. sub' = [sub EXCEPT ![s] = r]
      BY <1>1 DEF Send
    <3> QED BY <3>2, <3>3, <3>4, RecordType DEF TypeInv
  <2>4. owed' \in [Subs -> SUBSET Events]
    BY <1>1, <2>1 DEF Send, TypeInv, TypeOK
  <2>5. /\ pub' \in [Pubs -> [at: {"idle", "checked", "sending"},
                              n: 0..MaxPublish, todo: SUBSET Subs]]
        /\ PubNumbered'
    BY <1>1, ZenonT(60) DEF Send, Passed, TypeInv, TypeOK, PubNumbered
  <2> QED BY <1>1, <2>3, <2>4, <2>5 DEF Send, TypeInv, TypeOK
<1>2. CASE Drop(p, s)
  BY <1>2, ZenonT(60) DEF Drop, Passed, TypeInv, TypeOK, PubNumbered
<1>3. CASE GiveUp(p, s)
  BY <1>3 DEF GiveUp, TypeInv, TypeOK, PubNumbered
<1>4. CASE SendPanics(p, s)
  <2>1. [from |-> p, n |-> pub[p].n] \in Events
    BY <1>4 DEF SendPanics, TypeInv, TypeOK, PubNumbered, Events
  <2>2. lost' \in [Subs -> SUBSET Events]
    BY <1>4, <2>1 DEF SendPanics, TypeInv, TypeOK
  <2>3. /\ pub' \in [Pubs -> [at: {"idle", "checked", "sending"},
                              n: 0..MaxPublish, todo: SUBSET Subs]]
        /\ PubNumbered'
    <3> DEFINE r == [pub[p] EXCEPT !.at = "idle", !.todo = {}]
    <3>1. pub[p] \in Publishers
      BY DEF TypeInv, TypeOK, Publishers
    <3>2. r \in Publishers /\ r.at = "idle"
      BY <3>1 DEF Publishers
    <3>3. pub' = [pub EXCEPT ![p] = r]
      BY <1>4 DEF SendPanics
    <3> QED BY <3>2, <3>3, PublisherType DEF Publishers
  <2>4. UNCHANGED <<closed, ctxDone, lock, shutdown, sub, delivered, owed>>
    BY <1>4 DEF SendPanics
  <2> QED BY <2>2, <2>3, <2>4 DEF TypeInv, TypeOK
<1> QED BY <1>1, <1>2, <1>3, <1>4

\* The first two steps of a Publish keep the types.
LEMMA PublishType ==
  ASSUME TypeInv, NEW p \in Pubs, Publish(p) \/ CopySubscriptions(p)
  PROVE  TypeInv'
<1> USE MaxPublishAssumption
<1>1. pub[p] \in Publishers /\ (pub[p].at # "idle" => pub[p].n >= 1)
  BY DEF TypeInv, TypeOK, PubNumbered, Publishers
<1>2. ASSUME NEW r \in Publishers, r.at = "idle" \/ r.n >= 1, pub' = [pub EXCEPT ![p] = r],
             UNCHANGED <<closed, ctxDone, lock, shutdown, sub, delivered, owed, lost>>
      PROVE  TypeInv'
  BY <1>2, PublisherType DEF TypeInv, TypeOK, Publishers
<1>3. CASE Publish(p)
  <2> DEFINE r == [pub[p] EXCEPT !.n = pub[p].n + 1, !.at = "checked"]
  <2>0. pub[p].n \in 0..MaxPublish /\ pub[p].n < MaxPublish
    BY <1>1, <1>3, PublishesAssumption DEF Publish, Publishers
  <2>1. r \in Publishers /\ r.n = pub[p].n + 1
    <3>1. pub[p].n + 1 \in 0..MaxPublish
      BY <2>0
    <3>2. \A m \in 0..MaxPublish : /\ [pub[p] EXCEPT !.n = m, !.at = "checked"] \in Publishers
                                   /\ [pub[p] EXCEPT !.n = m, !.at = "checked"].n = m
      BY <1>1 DEF Publishers
    <3> QED BY <3>1, <3>2
  <2>2. pub' = [pub EXCEPT ![p] = r]
    BY <1>3 DEF Publish, TypeInv, TypeOK
  <2>3. r.n >= 1
    BY <2>0, <2>1
  <2> QED BY <1>2, <1>3, <2>1, <2>2, <2>3 DEF Publish
<1>4. CASE CopySubscriptions(p)
  <2> DEFINE r == [pub[p] EXCEPT !.at = IF Registered = {} THEN "idle" ELSE "sending",
                                 !.todo = Registered]
  <2>1. r \in Publishers /\ r.n >= 1
    BY <1>1, <1>4 DEF CopySubscriptions, Publishers, Registered
  <2>2. pub' = [pub EXCEPT ![p] = r]
    BY <1>4 DEF CopySubscriptions, TypeInv, TypeOK
  <2> QED BY <1>2, <1>4, <2>1, <2>2 DEF CopySubscriptions
<1> QED BY <1>3, <1>4

\* A receive keeps the types.
LEMMA TakeType ==
  ASSUME TypeInv, NEW s \in Subs, Take(s)
  PROVE  TypeInv'
<1> USE CapacityAssumption, MaxPublishAssumption
<1> DEFINE event == Head(sub[s].ch)
<1>1. sub[s].ch \in Seq(Events) /\ sub[s].ch # <<>>
  BY DEF Take, TypeInv, TypeOK, Subscriptions
<1>2. /\ event \in Events
      /\ Tail(sub[s].ch) \in Seq(Events)
      /\ Len(Tail(sub[s].ch)) = Len(sub[s].ch) - 1
      /\ Len(sub[s].ch) \in Nat
  BY <1>1, TailHolds
<1>3. /\ sub' \in [Subs -> Subscriptions]
      /\ \A t \in Subs : Len(sub'[t].ch) <= Capacity
  <2> DEFINE r == [sub[s] EXCEPT !.ch = Tail(sub[s].ch),
                !.worker = IF sub[s].worker = "waiting" THEN "handling" ELSE "drain_handling"]
  <2>1. sub[s] \in Subscriptions /\ Len(sub[s].ch) <= Capacity
    BY DEF TypeInv, TypeOK
  <2>2. r \in Subscriptions /\ r.ch = Tail(sub[s].ch)
    BY <1>2, <2>1 DEF Subscriptions
  <2>3. Len(r.ch) <= Capacity
    BY <1>2, <2>1, <2>2
  <2>4. sub' = [sub EXCEPT ![s] = r]
    BY DEF Take
  <2> QED BY <2>2, <2>3, <2>4, RecordType DEF TypeInv
<1>4. event.from \in Pubs /\ event.n \in 1..MaxPublish
  BY <1>2 DEF Events
<1>5. /\ delivered[s] \in [Pubs -> Seq(1..MaxPublish)]
      /\ delivered[s][event.from] \in Seq(1..MaxPublish)
  BY <1>4 DEF TypeInv, TypeOK
<1>6. Append(delivered[s][event.from], event.n) \in Seq(1..MaxPublish)
  BY <1>4, <1>5
<1>7. delivered' = [delivered EXCEPT ![s][event.from] = Append(@, event.n)]
  BY DEF Take
<1>8. delivered' \in [Subs -> [Pubs -> Seq(1..MaxPublish)]]
  <2> HIDE DEF event
  <2> QED BY <1>4, <1>5, <1>6, <1>7 DEF TypeInv, TypeOK
<1>9. owed' \in [Subs -> SUBSET Events]
  BY DEF Take, TypeInv, TypeOK
<1> QED BY <1>3, <1>8, <1>9 DEF Take, TypeInv, TypeOK, PubNumbered

\* The other steps of a subscription only set fields of its record.
LEMMA SubscriptionType ==
  ASSUME TypeInv, NEW s \in Subs, NEW q \in {0, 1},
         \/ Subscribe(s, q) \/ HandlerLeaves(s) \/ Unsubscribe(s) \/ CloseChannel(s)
         \/ HandlerReturns(s) \/ StartDrain(s) \/ WorkerExits(s) \/ ShutdownCancels(s)
  PROVE  TypeInv'
<1>1. sub[s] \in Subscriptions
  BY DEF TypeInv, TypeOK
<1>2. ASSUME NEW r \in Subscriptions, r.ch = sub[s].ch,
             sub' = [sub EXCEPT ![s] = r],
             lock' \in Subs \cup {"free", "shutdown"},
             UNCHANGED <<closed, ctxDone, shutdown, pub, delivered, owed, lost>>
      PROVE  TypeInv'
  BY <1>2, RecordType DEF TypeInv, TypeOK, PubNumbered
<1>3. CASE Subscribe(s, q)
  <2> DEFINE r == [sub[s] EXCEPT !.state = "registered", !.qos = q, !.worker = "waiting"]
  <2>1. r \in Subscriptions /\ r.ch = sub[s].ch
    BY <1>1 DEF Subscriptions
  <2>2. sub' = [sub EXCEPT ![s] = r]
    BY <1>3 DEF Subscribe, TypeInv, TypeOK
  <2>3. /\ lock' \in Subs \cup {"free", "shutdown"}
        /\ UNCHANGED <<closed, ctxDone, shutdown, pub, delivered, owed, lost>>
    BY <1>3 DEF Subscribe, TypeInv, TypeOK
  <2> QED BY <1>2, <2>1, <2>2, <2>3
<1>4. CASE HandlerLeaves(s)
  <2> DEFINE r == [sub[s] EXCEPT !.leaving = TRUE]
  <2>1. r \in Subscriptions /\ r.ch = sub[s].ch
    BY <1>1 DEF Subscriptions
  <2>2. sub' = [sub EXCEPT ![s] = r]
    BY <1>4 DEF HandlerLeaves, TypeInv, TypeOK
  <2>3. /\ lock' \in Subs \cup {"free", "shutdown"}
        /\ UNCHANGED <<closed, ctxDone, shutdown, pub, delivered, owed, lost>>
    BY <1>4 DEF HandlerLeaves, TypeInv, TypeOK
  <2> QED BY <1>2, <2>1, <2>2, <2>3
<1>5. CASE Unsubscribe(s)
  <2> DEFINE r == [sub[s] EXCEPT !.canceled = TRUE]
  <2>1. r \in Subscriptions /\ r.ch = sub[s].ch
    BY <1>1 DEF Subscriptions
  <2>2. sub' = [sub EXCEPT ![s] = r]
    BY <1>5 DEF Unsubscribe, TypeInv, TypeOK
  <2>3. /\ lock' \in Subs \cup {"free", "shutdown"}
        /\ UNCHANGED <<closed, ctxDone, shutdown, pub, delivered, owed, lost>>
    BY <1>5 DEF Unsubscribe, TypeInv, TypeOK
  <2> QED BY <1>2, <2>1, <2>2, <2>3
<1>6. CASE CloseChannel(s)
  <2> DEFINE r == [sub[s] EXCEPT !.chClosed = TRUE, !.state = "removed"]
  <2>1. r \in Subscriptions /\ r.ch = sub[s].ch
    BY <1>1 DEF Subscriptions
  <2>2. sub' = [sub EXCEPT ![s] = r]
    BY <1>6 DEF CloseChannel, TypeInv, TypeOK
  <2>3. /\ lock' \in Subs \cup {"free", "shutdown"}
        /\ UNCHANGED <<closed, ctxDone, shutdown, pub, delivered, owed, lost>>
    BY <1>6 DEF CloseChannel, TypeInv, TypeOK
  <2> QED BY <1>2, <2>1, <2>2, <2>3
<1>7. CASE HandlerReturns(s)
  <2> DEFINE r == [sub[s] EXCEPT !.leaving = FALSE,
                !.worker = IF sub[s].worker = "handling" THEN "waiting" ELSE "draining"]
  <2>1. r \in Subscriptions /\ r.ch = sub[s].ch
    BY <1>1 DEF Subscriptions
  <2>2. sub' = [sub EXCEPT ![s] = r]
    BY <1>7 DEF HandlerReturns, TypeInv, TypeOK
  <2>3. /\ lock' \in Subs \cup {"free", "shutdown"}
        /\ UNCHANGED <<closed, ctxDone, shutdown, pub, delivered, owed, lost>>
    BY <1>7 DEF HandlerReturns, TypeInv, TypeOK
  <2> QED BY <1>2, <2>1, <2>2, <2>3
<1>8. CASE StartDrain(s)
  <2> DEFINE r == [sub[s] EXCEPT !.worker = "draining"]
  <2>1. r \in Subscriptions /\ r.ch = sub[s].ch
    BY <1>1 DEF Subscriptions
  <2>2. sub' = [sub EXCEPT ![s] = r]
    BY <1>8 DEF StartDrain, TypeInv, TypeOK
  <2>3. /\ lock' \in Subs \cup {"free", "shutdown"}
        /\ UNCHANGED <<closed, ctxDone, shutdown, pub, delivered, owed, lost>>
    BY <1>8 DEF StartDrain, TypeInv, TypeOK
  <2> QED BY <1>2, <2>1, <2>2, <2>3
<1>9. CASE WorkerExits(s)
  <2> DEFINE r == [sub[s] EXCEPT !.worker = "exited"]
  <2>1. r \in Subscriptions /\ r.ch = sub[s].ch
    BY <1>1 DEF Subscriptions
  <2>2. sub' = [sub EXCEPT ![s] = r]
    BY <1>9 DEF WorkerExits, TypeInv, TypeOK
  <2>3. /\ lock' \in Subs \cup {"free", "shutdown"}
        /\ UNCHANGED <<closed, ctxDone, shutdown, pub, delivered, owed, lost>>
    BY <1>9 DEF WorkerExits, TypeInv, TypeOK
  <2> QED BY <1>2, <2>1, <2>2, <2>3
<1>10. CASE ShutdownCancels(s)
  <2> DEFINE r == [sub[s] EXCEPT !.canceled = TRUE]
  <2>1. r \in Subscriptions /\ r.ch = sub[s].ch
    BY <1>1 DEF Subscriptions
  <2>2. sub' = [sub EXCEPT ![s] = r]
    BY <1>10 DEF ShutdownCancels, TypeInv, TypeOK
  <2>3. /\ lock' \in Subs \cup {"free", "shutdown"}
        /\ UNCHANGED <<closed, ctxDone, shutdown, pub, delivered, owed, lost>>
    BY <1>10 DEF ShutdownCancels, TypeInv, TypeOK
  <2> QED BY <1>2, <2>1, <2>2, <2>3
<1> QED BY <1>3, <1>4, <1>5, <1>6, <1>7, <1>8, <1>9, <1>10

\* What Shutdown and the engine's context change is neither a subscription nor
\* a publisher.
BusStep ==
  \/ CloseBus \/ ShutdownLocks \/ ShutdownUnlocks
  \/ ShutdownCancelsContext \/ ShutdownEnds \/ CancelParent

LEMMA BusType == ASSUME TypeInv, BusStep PROVE TypeInv'
BY DEF BusStep, CloseBus, ShutdownLocks, ShutdownUnlocks, ShutdownCancelsContext,
       ShutdownEnds, CancelParent, TypeInv, TypeOK, PubNumbered

\* The steps of Next, sorted by what they change.
LEMMA NextSteps ==
  ASSUME Next
  PROVE  \/ \E p \in Pubs : Publish(p) \/ CopySubscriptions(p)
         \/ \E p \in Pubs, s \in Subs :
              Send(p, s) \/ Drop(p, s) \/ GiveUp(p, s) \/ SendPanics(p, s)
         \/ \E s \in Subs : Take(s)
         \/ \E s \in Subs, q \in {0, 1} :
              \/ Subscribe(s, q) \/ HandlerLeaves(s) \/ Unsubscribe(s) \/ CloseChannel(s)
              \/ HandlerReturns(s) \/ StartDrain(s) \/ WorkerExits(s) \/ ShutdownCancels(s)
         \/ BusStep
BY DEF Next, PublisherStep, WorkerStep, ShutdownStep, BusStep

\* Type correctness of the bus, for any number of publishers and subscriptions
\* and any channel size.
THEOREM TypeCorrect == Spec => []TypeInv
<1>1. Init => TypeInv
  <2> SUFFICES ASSUME Init PROVE TypeInv
    OBVIOUS
  <2>1. NoSubscription \in Subscriptions /\ Len(NoSubscription.ch) = 0
    BY DEF NoSubscription, Subscriptions
  <2>2. sub \in [Subs -> Subscriptions] /\ \A s \in Subs : Len(sub[s].ch) <= Capacity
    BY <2>1, CapacityAssumption DEF Init
  <2>3. delivered \in [Subs -> [Pubs -> Seq(1..MaxPublish)]]
    BY DEF Init
  <2>4. pub \in [Pubs -> [at: {"idle", "checked", "sending"},
                         n: 0..MaxPublish, todo: SUBSET Subs]] /\ PubNumbered
    BY MaxPublishAssumption DEF Init, PubNumbered
  <2> QED BY <2>2, <2>3, <2>4 DEF Init, TypeInv, TypeOK
<1>2. TypeInv /\ [Next]_vars => TypeInv'
  <2> SUFFICES ASSUME TypeInv, [Next]_vars PROVE TypeInv'
    OBVIOUS
  <2>1. CASE Next
    BY <2>1, NextSteps, SendType, PublishType, TakeType, SubscriptionType, BusType
  <2>2. CASE UNCHANGED vars
    BY <2>2 DEF vars, TypeInv, TypeOK, PubNumbered
  <2> QED BY <2>1, <2>2
<1> QED BY <1>1, <1>2, PTL DEF Spec

\* Every variable keeps its type, and no channel overflows.
COROLLARY TypeTheorem == Spec => []TypeOK
<1>1. TypeInv => TypeOK
  BY DEF TypeInv
<1> QED BY <1>1, TypeCorrect, PTL

-----------------------------------------------------------------------------
(* Nothing runs after Shutdown *)

\* The flag is set before anything else happens in Shutdown.
QuietInv == (shutdown # "not_called" => closed) /\ QuietAfterShutdown

\* Shutdown leaves no goroutine behind: Subscribe refuses a closed bus, and a
\* goroutine that has exited does nothing more.
THEOREM QuietTheorem == Spec => []QuietAfterShutdown
<1>1. Init => QuietInv
  BY DEF Init, QuietInv, QuietAfterShutdown
<1>2. TypeOK /\ QuietInv /\ [Next]_vars => QuietInv'
  <2> SUFFICES ASSUME TypeOK, QuietInv, [Next]_vars PROVE QuietInv'
    OBVIOUS
  <2>1. ASSUME NEW p \in Pubs, Publish(p) \/ CopySubscriptions(p) PROVE QuietInv'
    BY <2>1 DEF Publish, CopySubscriptions, QuietInv, QuietAfterShutdown
  <2>2. ASSUME NEW p \in Pubs, NEW s \in Subs,
               Send(p, s) \/ Drop(p, s) \/ GiveUp(p, s) \/ SendPanics(p, s)
        PROVE  QuietInv'
    <3>1. UNCHANGED <<closed, shutdown>>
      BY <2>2 DEF Send, Drop, GiveUp, SendPanics
    <3>2. CASE Send(p, s)
      <4>1. sub' = [sub EXCEPT ![s].ch = Append(@, [from |-> p, n |-> pub[p].n])]
        BY <3>2 DEF Send
      <4>2. \A t \in Subs : sub'[t].worker = sub[t].worker
        BY <4>1 DEF TypeOK, Subscriptions
      <4> QED BY <3>1, <4>2 DEF QuietInv, QuietAfterShutdown
    <3>3. CASE Drop(p, s) \/ GiveUp(p, s) \/ SendPanics(p, s)
      BY <3>1, <3>3 DEF Drop, GiveUp, SendPanics, QuietInv, QuietAfterShutdown
    <3> QED BY <2>2, <3>2, <3>3
  <2>3. ASSUME NEW s \in Subs, Take(s) PROVE QuietInv'
    BY <2>3 DEF Take, QuietInv, QuietAfterShutdown
  <2>4. ASSUME NEW s \in Subs, NEW q \in {0, 1},
               \/ Subscribe(s, q) \/ HandlerLeaves(s) \/ Unsubscribe(s) \/ CloseChannel(s)
               \/ HandlerReturns(s) \/ StartDrain(s) \/ WorkerExits(s) \/ ShutdownCancels(s)
        PROVE  QuietInv'
    <3>1. UNCHANGED <<closed, shutdown>>
      BY <2>4 DEF Subscribe, HandlerLeaves, Unsubscribe, CloseChannel, HandlerReturns,
                  StartDrain, WorkerExits, ShutdownCancels
    <3>2. \A t \in Subs : sub'[t].worker = sub[t].worker \/ t = s
      BY <2>4 DEF Subscribe, HandlerLeaves, Unsubscribe, CloseChannel, HandlerReturns,
                  StartDrain, WorkerExits, ShutdownCancels, TypeOK, Subscriptions
    <3>3. CASE Subscribe(s, q)
      BY <3>1, <3>3 DEF Subscribe, QuietInv, QuietAfterShutdown
    <3>4. CASE HandlerLeaves(s) \/ HandlerReturns(s) \/ StartDrain(s)
      BY <3>1, <3>4 DEF HandlerLeaves, HandlerReturns, StartDrain, QuietInv, QuietAfterShutdown
    <3>5. CASE Unsubscribe(s) \/ CloseChannel(s) \/ ShutdownCancels(s)
      <4>1. sub'[s].worker = sub[s].worker
        BY <3>5 DEF Unsubscribe, CloseChannel, ShutdownCancels, TypeOK, Subscriptions
      <4> QED BY <3>1, <3>2, <4>1 DEF QuietInv, QuietAfterShutdown
    <3>6. CASE WorkerExits(s)
      <4>1. sub'[s].worker = "exited"
        BY <3>6 DEF WorkerExits, TypeOK, Subscriptions
      <4> QED BY <3>1, <3>2, <4>1 DEF QuietInv, QuietAfterShutdown
    <3> QED BY <2>4, <3>3, <3>4, <3>5, <3>6
  <2>5. ASSUME BusStep PROVE QuietInv'
    BY <2>5 DEF BusStep, CloseBus, ShutdownLocks, ShutdownUnlocks, ShutdownCancelsContext,
                ShutdownEnds, CancelParent, QuietInv, QuietAfterShutdown
  <2>6. CASE UNCHANGED vars
    BY <2>6 DEF vars, QuietInv, QuietAfterShutdown
  <2> QED BY <2>1, <2>2, <2>3, <2>4, <2>5, <2>6, NextSteps
<1>3. QuietInv => QuietAfterShutdown
  BY DEF QuietInv
<1> QED BY <1>1, <1>2, <1>3, TypeTheorem, PTL DEF Spec

-----------------------------------------------------------------------------
(* Nothing that was accepted is lost *)

\* What is owed lies in the channel; a goroutine that drains or has exited was
\* cancelled, as was every subscription whose channel is closed.
OwedInv ==
  \A s \in Subs :
    /\ owed[s] \subseteq InChannel(sub[s].ch)
    /\ sub[s].chClosed => sub[s].canceled
    /\ sub[s].worker \in {"draining", "drain_handling", "exited"} => SubCtxDone(s)
    /\ sub[s].worker = "exited" => owed[s] = {}

\* The events of a subscription that a step leaves as it is.
LEMMA OwedSends ==
  ASSUME TypeInv, OwedInv, NEW p \in Pubs, NEW s \in Subs,
         Send(p, s) \/ Drop(p, s) \/ GiveUp(p, s) \/ SendPanics(p, s)
  PROVE  OwedInv'
<1>1. CASE Send(p, s)
  <2> DEFINE event == [from |-> p, n |-> pub[p].n]
  <2>0. event \in Events
    BY <1>1, MaxPublishAssumption DEF Send, TypeInv, TypeOK, PubNumbered, Events
  <2>1. event \in Events /\ sub[s].ch \in Seq(Events)
    BY <2>0 DEF TypeInv, TypeOK, Subscriptions
  <2>2. InChannel(Append(sub[s].ch, event)) = InChannel(sub[s].ch) \cup {event}
    BY <2>1, AppendHolds
  <2>3. /\ sub' = [sub EXCEPT ![s].ch = Append(@, event)]
        /\ owed' = IF SubCtxDone(s) THEN owed ELSE [owed EXCEPT ![s] = @ \cup {event}]
        /\ UNCHANGED ctxDone
    BY <1>1 DEF Send
  <2>4. ASSUME NEW t \in Subs
        PROVE  /\ sub'[t].chClosed = sub[t].chClosed
               /\ sub'[t].canceled = sub[t].canceled
               /\ sub'[t].worker = sub[t].worker
               /\ SubCtxDone(t)' = SubCtxDone(t)
               /\ t # s => sub'[t] = sub[t] /\ owed'[t] = owed[t]
               /\ SubCtxDone(s) => owed'[t] = owed[t]
    BY <2>3 DEF TypeInv, TypeOK, Subscriptions, SubCtxDone
  <2>5. /\ sub'[s].ch = Append(sub[s].ch, event)
        /\ owed'[s] \subseteq owed[s] \cup {event}
    BY <2>3 DEF TypeInv, TypeOK, Subscriptions
  <2>6. owed'[s] \subseteq InChannel(sub'[s].ch)
    BY <2>2, <2>5 DEF OwedInv
  <2>7. ASSUME NEW t \in Subs
        PROVE  /\ owed'[t] \subseteq InChannel(sub'[t].ch)
               /\ sub'[t].worker = "exited" => owed'[t] = {}
    BY <2>4, <2>6 DEF OwedInv
  <2> QED BY <2>4, <2>7 DEF OwedInv, InChannel
<1>2. CASE Drop(p, s) \/ GiveUp(p, s) \/ SendPanics(p, s)
  BY <1>2 DEF Drop, GiveUp, SendPanics, OwedInv, SubCtxDone, InChannel
<1> QED BY <1>1, <1>2

\* The event that is received is owed no more, and the rest is still there.
LEMMA OwedTake == ASSUME TypeInv, OwedInv, NEW s \in Subs, Take(s) PROVE OwedInv'
<1>1. sub[s].ch \in Seq(Events) /\ sub[s].ch # <<>>
  BY DEF Take, TypeInv, TypeOK, Subscriptions
<1>2. InChannel(sub[s].ch) \subseteq InChannel(Tail(sub[s].ch)) \cup {Head(sub[s].ch)}
  BY <1>1, TailHolds
<1>3. /\ owed'[s] = owed[s] \ {Head(sub[s].ch)}
      /\ sub'[s].ch = Tail(sub[s].ch)
      /\ sub'[s].chClosed = sub[s].chClosed
      /\ sub'[s].canceled = sub[s].canceled
      /\ sub[s].worker \in {"waiting", "draining"}
      /\ sub'[s].worker = IF sub[s].worker = "waiting" THEN "handling" ELSE "drain_handling"
      /\ UNCHANGED ctxDone
      /\ \A t \in Subs \ {s} : sub'[t] = sub[t] /\ owed'[t] = owed[t]
  BY DEF Take, TypeInv, TypeOK, Subscriptions
<1>4. owed'[s] \subseteq InChannel(sub'[s].ch)
  BY <1>2, <1>3 DEF OwedInv
<1>5. /\ sub'[s].chClosed => sub'[s].canceled
      /\ sub'[s].worker \in {"draining", "drain_handling", "exited"} => SubCtxDone(s)'
      /\ sub'[s].worker # "exited"
  BY <1>3 DEF OwedInv, SubCtxDone
<1>6. ASSUME NEW t \in Subs \ {s}
      PROVE  /\ owed'[t] \subseteq InChannel(sub'[t].ch)
             /\ sub'[t].chClosed => sub'[t].canceled
             /\ sub'[t].worker \in {"draining", "drain_handling", "exited"} => SubCtxDone(t)'
             /\ sub'[t].worker = "exited" => owed'[t] = {}
  BY <1>3 DEF OwedInv, SubCtxDone
<1> QED BY <1>4, <1>5, <1>6 DEF OwedInv, InChannel

\* No other step changes a channel; the goroutine exits when its own is empty.
LEMMA OwedSubscription ==
  ASSUME TypeInv, OwedInv, NEW s \in Subs, NEW q \in {0, 1},
         \/ Subscribe(s, q) \/ HandlerLeaves(s) \/ Unsubscribe(s) \/ CloseChannel(s)
         \/ HandlerReturns(s) \/ StartDrain(s) \/ WorkerExits(s) \/ ShutdownCancels(s)
  PROVE  OwedInv'
<1>1. /\ UNCHANGED <<ctxDone, owed>>
      /\ \A t \in Subs \ {s} : sub'[t] = sub[t]
      /\ sub'[s].ch = sub[s].ch
      /\ sub[s].canceled => sub'[s].canceled
      /\ sub'[s].chClosed => sub[s].chClosed \/ sub[s].canceled
      /\ sub'[s].worker \in {"draining", "drain_handling", "exited"} =>
           \/ sub[s].worker \in {"draining", "drain_handling", "exited"}
           \/ SubCtxDone(s)
           \/ sub[s].chClosed
      /\ sub'[s].worker = "exited" => sub[s].worker = "exited" \/ sub[s].ch = <<>>
  BY DEF Subscribe, HandlerLeaves, Unsubscribe, CloseChannel, HandlerReturns,
         StartDrain, WorkerExits, ShutdownCancels, TypeInv, TypeOK, Subscriptions
<1>2. sub[s].ch = <<>> => owed[s] = {}
  BY DEF OwedInv, InChannel
<1>3. /\ owed'[s] \subseteq InChannel(sub'[s].ch)
      /\ sub'[s].chClosed => sub'[s].canceled
      /\ sub'[s].worker = "exited" => owed'[s] = {}
      /\ sub'[s].worker \in {"draining", "drain_handling", "exited"} => SubCtxDone(s)'
  BY <1>1, <1>2 DEF OwedInv, SubCtxDone
<1> QED BY <1>1, <1>3 DEF OwedInv, SubCtxDone, InChannel

\* Every event that a subscription's channel accepted before its cancellation is
\* delivered before its goroutine exits, however cancellation, close and drain
\* interleave with the senders.
THEOREM AcceptedTheorem == Spec => []AcceptedIsDelivered
<1>1. Init => OwedInv
  BY DEF Init, OwedInv, NoSubscription, InChannel
<1>2. TypeInv /\ OwedInv /\ [Next]_vars => OwedInv'
  <2> SUFFICES ASSUME TypeInv, OwedInv, [Next]_vars PROVE OwedInv'
    OBVIOUS
  <2>1. ASSUME NEW p \in Pubs, Publish(p) \/ CopySubscriptions(p) PROVE OwedInv'
    BY <2>1 DEF Publish, CopySubscriptions, OwedInv, SubCtxDone, InChannel
  <2>2. ASSUME BusStep PROVE OwedInv'
    <3>1. UNCHANGED <<sub, owed>> /\ (ctxDone => ctxDone')
      BY <2>2 DEF BusStep, CloseBus, ShutdownLocks, ShutdownUnlocks,
                  ShutdownCancelsContext, ShutdownEnds, CancelParent
    <3> QED BY <3>1 DEF OwedInv, SubCtxDone, InChannel
  <2>3. CASE UNCHANGED vars
    BY <2>3 DEF vars, OwedInv, SubCtxDone, InChannel
  <2> QED BY <2>1, <2>2, <2>3, NextSteps, OwedSends, OwedTake, OwedSubscription
<1>3. OwedInv => AcceptedIsDelivered
  BY DEF OwedInv, AcceptedIsDelivered
<1> QED BY <1>1, <1>2, <1>3, TypeCorrect, PTL DEF Spec

-----------------------------------------------------------------------------
(* What a publisher sends arrives in order and without gaps *)

\* The numbers of p's events that reached the channel of s.
Queued(s, p) == {e.n : e \in {d \in InChannel(sub[s].ch) : d.from = p}}
Called(s, p) == {delivered[s][p][i] : i \in 1..Len(delivered[s][p])}
Seen(s, p) == Called(s, p) \cup Queued(s, p)

\* p has an event that may still be sent to s.
Awaits(s, p) ==
  pub[p].at = "checked" \/ (pub[p].at = "sending" /\ s \in pub[p].todo)

\* The numbers of p's events that a panic kept from s, and all that is known of.
Lost(s, p) == {e.n : e \in {d \in lost[s] : d.from = p}}
Known(s, p) == Seen(s, p) \cup Lost(s, p)

\* From any member of S on, T holds every number up to top.
NoGap(S, T, top) == \A m \in S, x \in Nat : m <= x /\ x <= top => x \in T

\* Calls of OnEvent rise, what is queued rises, and comes after what was called.
Rising(s) ==
  /\ \A p \in Pubs : \A i, j \in 1..Len(delivered[s][p]) :
       i < j => delivered[s][p][i] < delivered[s][p][j]
  /\ \A i, j \in 1..Len(sub[s].ch) :
       i < j /\ sub[s].ch[i].from = sub[s].ch[j].from => sub[s].ch[i].n < sub[s].ch[j].n
  /\ \A i \in 1..Len(sub[s].ch) :
       \A m \in Called(s, sub[s].ch[i].from) : m < sub[s].ch[i].n

\* No event is newer than the publisher's call; one that waits is newer than all.
Newest(s, p) == \A m \in Seen(s, p) : m <= pub[p].n /\ (Awaits(s, p) => m < pub[p].n)

\* A QoS1 subscription has seen or lost to a panic everything since its first
\* event: up to the current call while the bus is up, and between its events when
\* it is not.
Complete(s, p) ==
  s \in Guaranteed =>
    /\ \A a \in Seen(s, p) : NoGap(Seen(s, p), Known(s, p), a)
    /\ ~sub[s].chClosed /\ Awaits(s, p) => NoGap(Seen(s, p), Known(s, p), pub[p].n - 1)
    /\ ~sub[s].chClosed /\ ~ctxDone /\ ~Awaits(s, p) =>
         NoGap(Seen(s, p), Known(s, p), pub[p].n)

\* A subscription that was not made has seen nothing and is in no copy; one
\* that was removed has a closed channel.
Made(s) ==
  /\ sub[s].state = "none" =>
       /\ sub[s].ch = <<>> /\ sub[s].worker = "none"
       /\ \A p \in Pubs : delivered[s][p] = <<>> /\ s \notin pub[p].todo
  /\ sub[s].state = "removed" => sub[s].chClosed

OrderInv ==
  \A s \in Subs :
    /\ Rising(s) /\ Made(s)
    /\ \A p \in Pubs : Newest(s, p) /\ Complete(s, p)

\* Numbers are natural numbers.
LEMMA SeenType ==
  ASSUME TypeOK, NEW s \in Subs, NEW p \in Pubs
  PROVE  /\ Called(s, p) \subseteq Nat /\ Queued(s, p) \subseteq Nat
         /\ Seen(s, p) \subseteq Nat /\ pub[p].n \in Nat
<1>1. delivered[s][p] \in Seq(1..MaxPublish) /\ sub[s].ch \in Seq(Events)
  BY DEF TypeOK, Subscriptions
<1>2. Called(s, p) \subseteq Nat
  BY <1>1, MaxPublishAssumption DEF Called
<1>3. InChannel(sub[s].ch) \subseteq Events
  BY <1>1 DEF InChannel
<1>4. Queued(s, p) \subseteq Nat
  BY <1>3, MaxPublishAssumption DEF Queued, Events
<1> QED BY <1>2, <1>4, MaxPublishAssumption DEF Seen, TypeOK

\* A step that leaves the channel and the calls of s alone keeps what s has seen.
LEMMA SeenKept ==
  ASSUME NEW s \in Subs, sub'[s].ch = sub[s].ch, delivered'[s] = delivered[s]
  PROVE  /\ \A p \in Pubs : Seen(s, p)' = Seen(s, p)
         /\ Rising(s) => Rising(s)'
<1>1. \A p : Called(s, p)' = Called(s, p)
  BY DEF Called
<1>2. \A p : Queued(s, p)' = Queued(s, p)
  BY DEF Queued, InChannel
<1> QED BY <1>1, <1>2 DEF Seen, Rising

\* What a panic kept from s stays lost.
LEMMA LostGrows ==
  ASSUME NEW s \in Subs, lost[s] \subseteq lost'[s]
  PROVE  \A p \in Pubs : Seen(s, p)' = Seen(s, p) => Known(s, p) \subseteq Known(s, p)'
<1>1. \A p : Lost(s, p) \subseteq Lost(s, p)'
  BY DEF Lost
<1> QED BY <1>1 DEF Known

\* The order is kept when nothing is sent: an event stops waiting only in a bus
\* that is done, for a QoS0 subscription, or in a panic.
LEMMA OrderUnsent ==
  ASSUME NEW s \in Subs, NEW p \in Pubs, Newest(s, p), Complete(s, p), pub[p].n \in Nat,
         Seen(s, p)' = Seen(s, p), lost[s] \subseteq lost'[s], pub'[p].n = pub[p].n,
         sub'[s].qos = sub[s].qos, sub[s].chClosed => sub'[s].chClosed,
         ctxDone => ctxDone',
         Awaits(s, p)' => Awaits(s, p),
         Awaits(s, p) =>
           \/ Awaits(s, p)' \/ ctxDone' \/ s \notin Guaranteed
           \/ pub[p].n \in Known(s, p)'
  PROVE  Newest(s, p)' /\ Complete(s, p)'
<1>1. (s \in Guaranteed)' = (s \in Guaranteed)
  BY DEF Guaranteed
<1>2. Newest(s, p)'
  BY DEF Newest
<1>3. Known(s, p) \subseteq Known(s, p)'
  BY LostGrows
<1>4. \A top : NoGap(Seen(s, p), Known(s, p), top) => NoGap(Seen(s, p)', Known(s, p)', top)
  BY <1>3 DEF NoGap
<1>5. Complete(s, p)'
  <2> SUFFICES ASSUME s \in Guaranteed
               PROVE  /\ \A a \in Seen(s, p)' : NoGap(Seen(s, p)', Known(s, p)', a)
                      /\ ~sub'[s].chClosed /\ Awaits(s, p)' =>
                           NoGap(Seen(s, p)', Known(s, p)', pub'[p].n - 1)
                      /\ ~sub'[s].chClosed /\ ~ctxDone' /\ ~Awaits(s, p)' =>
                           NoGap(Seen(s, p)', Known(s, p)', pub'[p].n)
    BY <1>1 DEF Complete
  <2>1. \A a \in Seen(s, p)' : NoGap(Seen(s, p)', Known(s, p)', a)
    BY <1>4 DEF Complete
  <2>2. ~sub'[s].chClosed /\ Awaits(s, p)' => NoGap(Seen(s, p)', Known(s, p)', pub'[p].n - 1)
    BY <1>4 DEF Complete
  <2>3. ASSUME ~sub'[s].chClosed, ~ctxDone', ~Awaits(s, p)'
        PROVE  NoGap(Seen(s, p)', Known(s, p)', pub[p].n)
    <3>1. CASE ~Awaits(s, p)
      BY <1>4, <2>3, <3>1 DEF Complete
    <3>2. CASE Awaits(s, p)
      <4>1. pub[p].n \in Known(s, p)'
        BY <2>3, <3>2
      <4>2. NoGap(Seen(s, p)', Known(s, p)', pub[p].n - 1)
        BY <1>4, <2>3, <3>2 DEF Complete
      <4>3. ASSUME NEW x \in Nat, x <= pub[p].n PROVE x = pub[p].n \/ x <= pub[p].n - 1
        BY <4>3
      <4> QED BY <4>1, <4>2, <4>3 DEF NoGap
    <3> QED BY <3>1, <3>2
  <2> QED BY <2>1, <2>2, <2>3
<1> QED BY <1>2, <1>5

\* The order is kept where neither the publisher nor the subscription changed.
LEMMA OrderKept ==
  ASSUME TypeOK, NEW s \in Subs, NEW p \in Pubs, Newest(s, p), Complete(s, p),
         Seen(s, p)' = Seen(s, p), lost[s] \subseteq lost'[s], pub'[p] = pub[p],
         sub'[s].qos = sub[s].qos, sub[s].chClosed => sub'[s].chClosed,
         ctxDone => ctxDone'
  PROVE  Newest(s, p)' /\ Complete(s, p)'
<1>1. Awaits(s, p)' = Awaits(s, p)
  BY DEF Awaits
<1>2. pub[p].n \in Nat
  BY SeenType
<1> QED BY <1>1, <1>2, OrderUnsent

\* Shutdown's own steps and the engine's context.
LEMMA OrderBus == ASSUME TypeInv, OrderInv, BusStep PROVE OrderInv'
<1>1. UNCHANGED <<sub, pub, delivered, lost>> /\ (ctxDone => ctxDone')
  BY DEF BusStep, CloseBus, ShutdownLocks, ShutdownUnlocks, ShutdownCancelsContext,
         ShutdownEnds, CancelParent
<1>2. ASSUME NEW s \in Subs
      PROVE  Rising(s)' /\ Made(s)' /\ \A p \in Pubs : Newest(s, p)' /\ Complete(s, p)'
  <2>1. Rising(s)' /\ \A p \in Pubs : Seen(s, p)' = Seen(s, p)
    BY <1>1, SeenKept DEF OrderInv
  <2>2. Made(s)'
    BY <1>1 DEF OrderInv, Made
  <2>3. \A p \in Pubs : Newest(s, p)' /\ Complete(s, p)'
    BY <1>1, <2>1, OrderKept DEF OrderInv, TypeInv
  <2> QED BY <2>1, <2>2, <2>3
<1> QED BY <1>2 DEF OrderInv

\* A subscription that was not made has seen nothing.
LEMMA UnmadeSeen ==
  ASSUME NEW s \in Subs, NEW p \in Pubs, Made(s), sub[s].state = "none"
  PROVE  Seen(s, p) = {}
<1>1. sub[s].ch = <<>> /\ delivered[s][p] = <<>>
  BY DEF Made
<1>2. Called(s, p) = {}
  BY <1>1 DEF Called
<1>3. Queued(s, p) = {}
  BY <1>1 DEF Queued, InChannel
<1> QED BY <1>2, <1>3 DEF Seen

\* Subscribe, Unsubscribe and the steps of a goroutine between two receives.
LEMMA OrderSubscription ==
  ASSUME TypeInv, OrderInv, NEW s \in Subs, NEW q \in {0, 1},
         \/ Subscribe(s, q) \/ HandlerLeaves(s) \/ Unsubscribe(s) \/ CloseChannel(s)
         \/ HandlerReturns(s) \/ StartDrain(s) \/ WorkerExits(s) \/ ShutdownCancels(s)
  PROVE  OrderInv'
<1>1. UNCHANGED <<ctxDone, pub, delivered, lost>>
  BY DEF Subscribe, HandlerLeaves, Unsubscribe, CloseChannel, HandlerReturns,
         StartDrain, WorkerExits, ShutdownCancels
<1>2. /\ \A t \in Subs \ {s} : sub'[t] = sub[t]
      /\ sub'[s].ch = sub[s].ch
      /\ sub[s].chClosed => sub'[s].chClosed
  <2>1. CASE Subscribe(s, q)
    BY <2>1 DEF Subscribe, TypeInv, TypeOK, Subscriptions
  <2>2. CASE Unsubscribe(s) \/ CloseChannel(s) \/ ShutdownCancels(s)
    <3>1. sub[s] \in Subscriptions /\ sub \in [Subs -> Subscriptions]
      BY DEF TypeInv, TypeOK
    <3>2. CASE Unsubscribe(s) \/ ShutdownCancels(s)
      <4>1. sub' = [sub EXCEPT ![s] = [sub[s] EXCEPT !.canceled = TRUE]]
        BY <3>1, <3>2 DEF Unsubscribe, ShutdownCancels
      <4> QED BY ONLY <3>1, <4>1, SMTT(30) DEF Subscriptions
    <3>3. CASE CloseChannel(s)
      <4>1. sub' = [sub EXCEPT ![s] = [sub[s] EXCEPT !.chClosed = TRUE, !.state = "removed"]]
        BY <3>1, <3>3 DEF CloseChannel
      <4> QED BY ONLY <3>1, <4>1, SMTT(30) DEF Subscriptions
    <3> QED BY <2>2, <3>2, <3>3
  <2>3. CASE HandlerLeaves(s)
    BY <2>3 DEF HandlerLeaves, TypeInv, TypeOK, Subscriptions
  <2>4. CASE HandlerReturns(s)
    <3>1. sub' = [sub EXCEPT ![s] = [sub[s] EXCEPT !.leaving = FALSE,
                    !.worker = IF sub[s].worker = "handling" THEN "waiting" ELSE "draining"]]
      BY <2>4 DEF HandlerReturns, TypeInv, TypeOK
    <3> QED BY <3>1 DEF TypeInv, TypeOK, Subscriptions
  <2>5. CASE StartDrain(s) \/ WorkerExits(s)
    BY <2>5, ZenonT(60) DEF StartDrain, WorkerExits, TypeInv, TypeOK, Subscriptions
  <2> QED BY <2>1, <2>2, <2>3, <2>4, <2>5
<1>3. sub'[s].qos = sub[s].qos \/ (sub[s].state = "none" /\ sub'[s].state = "registered")
  BY DEF Subscribe, HandlerLeaves, Unsubscribe, CloseChannel, HandlerReturns,
         StartDrain, WorkerExits, ShutdownCancels, TypeInv, TypeOK, Subscriptions
<1>4. /\ sub'[s].state = "none" => sub[s].state = "none" /\ sub'[s].worker = "none"
      /\ sub'[s].state = "removed" => sub'[s].chClosed
  <2>1. CASE Subscribe(s, q)
    BY <2>1 DEF Subscribe, TypeInv, TypeOK, Subscriptions
  <2>2. CASE Unsubscribe(s) \/ ShutdownCancels(s)
    <3>1. sub[s] \in Subscriptions /\ sub \in [Subs -> Subscriptions]
      BY DEF TypeInv, TypeOK
    <3>2. sub' = [sub EXCEPT ![s] = [sub[s] EXCEPT !.canceled = TRUE]]
      BY <2>2, <3>1 DEF Unsubscribe, ShutdownCancels
    <3>3. sub'[s].state = sub[s].state
      BY ONLY <3>1, <3>2, SMTT(30) DEF Subscriptions
    <3> QED BY <2>2, <3>3 DEF Unsubscribe, ShutdownCancels, Registered
  <2>3. CASE CloseChannel(s)
    BY <2>3 DEF CloseChannel, TypeInv, TypeOK, Subscriptions
  <2>4. CASE HandlerLeaves(s) \/ HandlerReturns(s) \/ StartDrain(s) \/ WorkerExits(s)
    <3>1. /\ sub'[s].state = sub[s].state
          /\ sub'[s].chClosed = sub[s].chClosed
          /\ sub[s].worker # "none"
      BY <2>4 DEF HandlerLeaves, HandlerReturns, StartDrain, WorkerExits,
                  TypeInv, TypeOK, Subscriptions
    <3> QED BY <3>1 DEF OrderInv, Made
  <2> QED BY <2>1, <2>2, <2>3, <2>4
<1>5. ASSUME NEW t \in Subs
      PROVE  Rising(t)' /\ Made(t)' /\ \A p \in Pubs : Newest(t, p)' /\ Complete(t, p)'
  <2>1. sub'[t].ch = sub[t].ch /\ delivered'[t] = delivered[t]
    BY <1>1, <1>2
  <2>2. Rising(t)' /\ \A p \in Pubs : Seen(t, p)' = Seen(t, p)
    BY <2>1, SeenKept DEF OrderInv
  <2>3. Made(t)'
    <3>1. CASE t = s
      BY <1>1, <1>2, <1>4, <3>1 DEF OrderInv, Made
    <3>2. CASE t # s
      BY <1>1, <1>2, <3>2 DEF OrderInv, Made
    <3> QED BY <3>1, <3>2
  <2>4. ASSUME NEW p \in Pubs PROVE Newest(t, p)' /\ Complete(t, p)'
    <3>1. CASE sub'[t].qos = sub[t].qos
      <4>1. sub[t].chClosed => sub'[t].chClosed
        BY <1>2
      <4> QED BY <1>1, <2>2, <3>1, <4>1, OrderKept DEF OrderInv, TypeInv
    <3>2. CASE t = s /\ sub[s].state = "none"
      <4>1. Seen(t, p)' = {}
        BY <2>2, <3>2, UnmadeSeen DEF OrderInv
      <4> QED BY <4>1 DEF Newest, Complete, NoGap
    <3> QED BY <1>2, <1>3, <3>1, <3>2
  <2> QED BY <2>2, <2>3, <2>4
<1> QED BY <1>5 DEF OrderInv

\* The check and the copy of a Publish: the next number waits for every
\* subscription, then for those in the copy; the others have seen nothing or are
\* closed.
LEMMA OrderPublish ==
  ASSUME TypeInv, OrderInv, NEW p \in Pubs, Publish(p) \/ CopySubscriptions(p)
  PROVE  OrderInv'
<1>1. /\ UNCHANGED <<ctxDone, sub, delivered, lost>>
      /\ \A r \in Pubs \ {p} : pub'[r] = pub[r]
  BY DEF Publish, CopySubscriptions, TypeInv, TypeOK
<1>2. ASSUME NEW s \in Subs
      PROVE  /\ Rising(s)'
             /\ \A r \in Pubs : Seen(s, r)' = Seen(s, r)
             /\ \A r \in Pubs \ {p} : Newest(s, r)' /\ Complete(s, r)'
  <2>1. Rising(s)' /\ \A r \in Pubs : Seen(s, r)' = Seen(s, r)
    BY <1>1, SeenKept DEF OrderInv
  <2> QED BY <1>1, <2>1, OrderKept DEF OrderInv, TypeInv
<1>3. ASSUME NEW s \in Subs, Publish(p) PROVE Made(s)' /\ Newest(s, p)' /\ Complete(s, p)'
  <2>1. /\ pub[p].at = "idle" /\ ~ctxDone
        /\ pub'[p].at = "checked" /\ pub'[p].n = pub[p].n + 1 /\ pub'[p].todo = pub[p].todo
        /\ pub[p].n \in Nat
    BY <1>3, MaxPublishAssumption DEF Publish, TypeInv, TypeOK
  <2>2. Made(s)'
    BY <1>1, <2>1 DEF OrderInv, Made
  <2>3. ~Awaits(s, p) /\ Awaits(s, p)'
    BY <2>1 DEF Awaits
  <2>4. Seen(s, p)' = Seen(s, p) /\ Seen(s, p) \subseteq Nat
    BY <1>2, SeenType DEF TypeInv
  <2>5. Newest(s, p)'
    BY <2>1, <2>4 DEF OrderInv, Newest
  <2>6. Complete(s, p)'
    <3>1. pub'[p].n - 1 = pub[p].n
      BY <2>1
    <3>2. (s \in Guaranteed)' = (s \in Guaranteed)
      BY <1>1 DEF Guaranteed
    <3>3. Known(s, p)' = Known(s, p)
      BY <1>1, <2>4 DEF Known, Lost
    <3> QED BY <1>1, <2>1, <2>3, <2>4, <3>1, <3>2, <3>3 DEF OrderInv, Complete, NoGap
  <2> QED BY <2>2, <2>5, <2>6
<1>4. ASSUME NEW s \in Subs, CopySubscriptions(p)
      PROVE  Made(s)' /\ Newest(s, p)' /\ Complete(s, p)'
  <2>1. /\ pub[p].at = "checked"
        /\ pub'[p].at \in {"idle", "sending"} /\ pub'[p].n = pub[p].n
        /\ pub'[p].todo = Registered
        /\ Registered # {} => pub'[p].at = "sending"
    BY <1>4 DEF CopySubscriptions, TypeInv, TypeOK
  <2>2. Awaits(s, p) /\ (Awaits(s, p)' <=> s \in Registered)
    BY <2>1 DEF Awaits
  <2>3. Made(s)'
    BY <1>1, <2>1 DEF OrderInv, Made, Registered
  <2>4. Seen(s, p)' = Seen(s, p)
    BY <1>2
  <2>5. Newest(s, p)'
    BY <2>1, <2>2, <2>4 DEF OrderInv, Newest
  <2>6. Complete(s, p)'
    <3>1. (s \in Guaranteed)' = (s \in Guaranteed)
      BY <1>1 DEF Guaranteed
    <3>0. Known(s, p)' = Known(s, p)
      BY <1>1, <2>4 DEF Known, Lost
    <3>2. CASE s \in Registered
      BY <1>1, <2>1, <2>2, <2>4, <3>0, <3>1, <3>2 DEF OrderInv, Complete, NoGap
    <3>3. CASE sub[s].state = "none"
      <4>1. Seen(s, p)' = {}
        BY <2>4, <3>3, UnmadeSeen DEF OrderInv
      <4> QED BY <4>1 DEF Complete, NoGap
    <3>4. CASE sub[s].state = "removed"
      <4>1. sub'[s].chClosed
        BY <1>1, <3>4 DEF OrderInv, Made
      <4> QED BY <1>1, <2>4, <3>0, <3>1, <4>1 DEF OrderInv, Complete, NoGap
    <3>5. sub[s].state \in {"none", "registered", "removed"}
      BY DEF TypeInv, TypeOK, Subscriptions
    <3> QED BY <3>2, <3>3, <3>4, <3>5 DEF Registered
  <2> QED BY <2>3, <2>5, <2>6
<1> QED BY <1>2, <1>3, <1>4 DEF OrderInv

\* An event sent to s adds its number to what s has seen of its publisher.
LEMMA SeenSent ==
  ASSUME TypeOK, NEW s \in Subs, NEW e \in Events,
         sub'[s].ch = Append(sub[s].ch, e), delivered'[s] = delivered[s]
  PROVE  /\ Seen(s, e.from)' = Seen(s, e.from) \cup {e.n}
         /\ \A p \in Pubs \ {e.from} : Seen(s, p)' = Seen(s, p)
<1>1. sub[s].ch \in Seq(Events)
  BY DEF TypeOK, Subscriptions
<1>2. InChannel(sub'[s].ch) = InChannel(sub[s].ch) \cup {e}
  BY <1>1, AppendHolds
<1>3. \A p : Called(s, p)' = Called(s, p)
  BY DEF Called
<1>4. \A p : Queued(s, p)' = {d.n : d \in {d \in InChannel(sub'[s].ch) : d.from = p}}
  BY DEF Queued, InChannel
<1>5. Queued(s, e.from)' = Queued(s, e.from) \cup {e.n}
  BY <1>2, <1>4 DEF Queued
<1>6. \A p \in Pubs \ {e.from} : Queued(s, p)' = Queued(s, p)
  BY <1>2, <1>4 DEF Queued
<1> QED BY <1>3, <1>5, <1>6 DEF Seen

\* The next number closes the set of numbers known.
LEMMA NextNumber ==
  ASSUME NEW S \in SUBSET Nat, NEW T, NEW n \in Nat,
         \A m \in S : m < n, NoGap(S, T, n - 1)
  PROVE  /\ NoGap(S \cup {n}, T \cup {n}, n)
         /\ \A a \in S \cup {n} : NoGap(S \cup {n}, T \cup {n}, a)
<1>1. NoGap(S \cup {n}, T \cup {n}, n)
  <2> SUFFICES ASSUME NEW m \in S \cup {n}, NEW x \in Nat, m <= x, x <= n
               PROVE  x \in T \cup {n}
    BY DEF NoGap
  <2>1. CASE x = n
    BY <2>1
  <2>2. CASE x # n
    <3>1. x <= n - 1 /\ m \in S
      BY <2>2
    <3> QED BY <3>1 DEF NoGap
  <2> QED BY <2>1, <2>2
<1>2. ASSUME NEW a \in S \cup {n} PROVE NoGap(S \cup {n}, T \cup {n}, a)
  <2>1. a <= n /\ a \in Nat
    OBVIOUS
  <2> QED BY <1>1, <2>1 DEF NoGap
<1> QED BY <1>1, <1>2

\* The channel of a Send rises, and comes after what was called.
LEMMA RisingSent ==
  ASSUME TypeInv, OrderInv, NEW p \in Pubs, NEW s \in Subs, Send(p, s)
  PROVE  Rising(s)'
<1> DEFINE ch == sub[s].ch
           e == [from |-> p, n |-> pub[p].n]
<1>1. /\ sub'[s].ch = Append(ch, e) /\ delivered'[s] = delivered[s]
      /\ Awaits(s, p)
  BY DEF Send, TypeInv, TypeOK, Awaits, Subscriptions
<1>2. e \in Events /\ ch \in Seq(Events)
  <2>1. pub[p].n \in 1..MaxPublish
    BY MaxPublishAssumption DEF Send, TypeInv, TypeOK, PubNumbered
  <2> QED BY <2>1 DEF TypeInv, TypeOK, Events, Subscriptions
<1>3. \A m \in Seen(s, p) : m < e.n
  BY <1>1 DEF OrderInv, Newest
<1>4. /\ Len(sub'[s].ch) = Len(ch) + 1 /\ Len(ch) \in Nat
      /\ \A i \in 1..Len(ch) : sub'[s].ch[i] = ch[i]
      /\ sub'[s].ch[Len(ch) + 1] = e
  <2> HIDE DEF e, ch
  <2> QED BY <1>1, <1>2
<1>5. \A q : Called(s, q)' = Called(s, q)
  BY <1>1 DEF Called
<1>6. \A i \in 1..Len(ch) : ch[i].from = p => ch[i].n < e.n
  <2>1. \A i \in 1..Len(ch) : ch[i].from = p => ch[i].n \in Seen(s, p)
    BY DEF Seen, Queued, InChannel
  <2> QED BY <1>3, <2>1
<1>7. \A m \in Called(s, p) : m < e.n
  BY <1>3 DEF Seen
<1>8. Rising(s)
  BY DEF OrderInv
<1>9. e.from = p
  OBVIOUS
<1> HIDE DEF e
<1>10. \A i, j \in 1..Len(ch) + 1 :
         i < j /\ sub'[s].ch[i].from = sub'[s].ch[j].from => sub'[s].ch[i].n < sub'[s].ch[j].n
  <2> SUFFICES ASSUME NEW i \in 1..Len(ch) + 1, NEW j \in 1..Len(ch) + 1, i < j,
                      sub'[s].ch[i].from = sub'[s].ch[j].from
               PROVE  sub'[s].ch[i].n < sub'[s].ch[j].n
    OBVIOUS
  <2>1. i \in 1..Len(ch) /\ sub'[s].ch[i] = ch[i]
    BY <1>4
  <2>2. CASE j = Len(ch) + 1
    BY <1>4, <1>6, <1>9, <2>1, <2>2
  <2>3. CASE j # Len(ch) + 1
    <3>1. j \in 1..Len(ch) /\ sub'[s].ch[j] = ch[j]
      BY <1>4, <2>3
    <3> QED BY <1>8, <2>1, <3>1 DEF Rising
  <2> QED BY <2>2, <2>3
<1>11. \A i \in 1..Len(ch) + 1 :
         \A m \in Called(s, sub'[s].ch[i].from) : m < sub'[s].ch[i].n
  <2> SUFFICES ASSUME NEW i \in 1..Len(ch) + 1
               PROVE  \A m \in Called(s, sub'[s].ch[i].from) : m < sub'[s].ch[i].n
    OBVIOUS
  <2>1. CASE i = Len(ch) + 1
    BY <1>4, <1>7, <1>9, <2>1
  <2>2. CASE i # Len(ch) + 1
    <3>1. i \in 1..Len(ch) /\ sub'[s].ch[i] = ch[i]
      BY <1>4, <2>2
    <3> QED BY <1>8, <3>1 DEF Rising
  <2> QED BY <2>1, <2>2
<1>12. \A r \in Pubs : \A i, j \in 1..Len(delivered'[s][r]) :
         i < j => delivered'[s][r][i] < delivered'[s][r][j]
  BY <1>1, <1>8 DEF Rising
<1> QED BY <1>4, <1>5, <1>10, <1>11, <1>12 DEF Rising

\* A Send: the number that waited is the next one.
LEMMA OrderSend ==
  ASSUME TypeInv, OrderInv, NEW p \in Pubs, NEW s \in Subs, Send(p, s)
  PROVE  Newest(s, p)' /\ Complete(s, p)'
<1>0. PICK e \in Events : e = [from |-> p, n |-> pub[p].n]
  <2>1. pub[p].n \in 1..MaxPublish
    BY MaxPublishAssumption DEF Send, TypeInv, TypeOK, PubNumbered
  <2> QED BY <2>1 DEF Events
<1>1. /\ sub'[s].ch = Append(sub[s].ch, e) /\ delivered'[s] = delivered[s]
      /\ sub'[s].qos = sub[s].qos /\ ~sub[s].chClosed
      /\ Awaits(s, p) /\ ~Awaits(s, p)' /\ pub'[p].n = pub[p].n /\ lost'[s] = lost[s]
  BY <1>0 DEF Send, Passed, TypeInv, TypeOK, Awaits, Subscriptions
<1>3. Seen(s, p)' = Seen(s, p) \cup {pub[p].n}
  <2>1. e.from = p /\ e.n = pub[p].n
    BY <1>0
  <2> QED BY <1>1, <2>1, SeenSent DEF TypeInv
<1>4. Seen(s, p) \subseteq Nat /\ pub[p].n \in Nat /\ \A m \in Seen(s, p) : m < pub[p].n
  BY <1>1, SeenType DEF OrderInv, Newest, TypeInv
<1>5. Newest(s, p)'
  BY <1>1, <1>3, <1>4 DEF Newest
<1>6. Complete(s, p)'
  <2>1. (s \in Guaranteed)' = (s \in Guaranteed)
    BY <1>1 DEF Guaranteed
  <2>2. CASE s \in Guaranteed
    <3>1. NoGap(Seen(s, p), Known(s, p), pub[p].n - 1)
      BY <1>1, <2>2 DEF OrderInv, Complete
    <3>2. Known(s, p)' = Known(s, p) \cup {pub[p].n}
      BY <1>1, <1>3 DEF Known, Lost
    <3>3. /\ NoGap(Seen(s, p)', Known(s, p)', pub[p].n)
          /\ \A a \in Seen(s, p)' : NoGap(Seen(s, p)', Known(s, p)', a)
      <4>1. /\ NoGap(Seen(s, p) \cup {pub[p].n}, Known(s, p) \cup {pub[p].n}, pub[p].n)
            /\ \A a \in Seen(s, p) \cup {pub[p].n} :
                 NoGap(Seen(s, p) \cup {pub[p].n}, Known(s, p) \cup {pub[p].n}, a)
        BY <1>4, <3>1, NextNumber
      <4> QED BY <1>3, <3>2, <4>1
    <3> QED BY <1>1, <3>3 DEF Complete
  <2>3. CASE s \notin Guaranteed
    BY <2>1, <2>3 DEF Complete
  <2> QED BY <2>2, <2>3
<1> QED BY <1>5, <1>6

\* The ways past one subscription, for all publishers and subscriptions.
LEMMA OrderSends ==
  ASSUME TypeInv, OrderInv, NEW p \in Pubs, NEW s \in Subs,
         Send(p, s) \/ Drop(p, s) \/ GiveUp(p, s) \/ SendPanics(p, s)
  PROVE  OrderInv'
<1>1. /\ UNCHANGED <<ctxDone, delivered>>
      /\ \A t \in Subs \ {s} : sub'[t] = sub[t]
      /\ \A r \in Pubs \ {p} : pub'[r] = pub[r]
      /\ pub'[p].n = pub[p].n /\ pub[p].at = "sending" /\ s \in pub[p].todo
      /\ pub'[p].todo \subseteq pub[p].todo
  BY DEF Send, Drop, GiveUp, SendPanics, Passed, TypeInv, TypeOK
<1>0. \A t \in Subs : lost[t] \subseteq lost'[t]
  BY DEF Send, Drop, GiveUp, SendPanics
<1>2. /\ sub'[s].qos = sub[s].qos /\ sub'[s].chClosed = sub[s].chClosed
      /\ sub'[s].state = sub[s].state /\ sub'[s].worker = sub[s].worker
      /\ Send(p, s) \/ sub'[s] = sub[s]
  BY DEF Send, Drop, GiveUp, SendPanics, TypeInv, TypeOK, Subscriptions
<1>3. \A t \in Subs : Made(t)'
  <2>1. ASSUME NEW t \in Subs \ {s} PROVE Made(t)'
    BY <1>1, <2>1 DEF OrderInv, Made
  <2>2. Made(s)'
    <3>1. sub[s].state # "none"
      BY <1>1 DEF OrderInv, Made
    <3> QED BY <1>2, <3>1 DEF OrderInv, Made
  <2> QED BY <2>1, <2>2
<1>4. ASSUME NEW t \in Subs, t # s \/ ~Send(p, s)
      PROVE  Rising(t)' /\ \A r \in Pubs : Newest(t, r)' /\ Complete(t, r)'
  <2>1. sub'[t] = sub[t] /\ delivered'[t] = delivered[t]
    BY <1>1, <1>2, <1>4
  <2>2. Rising(t)' /\ \A r \in Pubs : Seen(t, r)' = Seen(t, r)
    BY <2>1, SeenKept DEF OrderInv
  <2>3. \A r \in Pubs \ {p} : Newest(t, r)' /\ Complete(t, r)'
    BY <1>0, <1>1, <2>1, <2>2, OrderKept DEF OrderInv, TypeInv
  <2>4. Awaits(t, p)' => Awaits(t, p)
    <3>1. pub'[p].at # "checked"
      BY DEF Send, Drop, GiveUp, SendPanics, Passed, TypeInv, TypeOK
    <3> QED BY <1>1, <3>1 DEF Awaits
  <2>5. Awaits(t, p) =>
           \/ Awaits(t, p)' \/ ctxDone' \/ t \notin Guaranteed \/ pub[p].n \in Known(t, p)'
    <3>1. CASE Send(p, s) \/ Drop(p, s)
      <4>1. /\ pub'[p].todo = pub[p].todo \ {s}
            /\ pub[p].todo # {s} => pub'[p].at = "sending"
        BY <3>1 DEF Send, Drop, Passed, TypeInv, TypeOK
      <4>2. CASE t # s
        BY <1>1, <4>1, <4>2 DEF Awaits
      <4>3. CASE t = s
        BY <1>4, <3>1, <4>3 DEF Drop
      <4> QED BY <4>2, <4>3
    <3>2. CASE GiveUp(p, s)
      BY <3>2 DEF GiveUp
    <3>3. CASE SendPanics(p, s)
      <4>1. Awaits(t, p) => [from |-> p, n |-> pub[p].n] \in lost'[t]
        BY <1>1, <3>3 DEF SendPanics, Awaits
      <4>2. [from |-> p, n |-> pub[p].n] \in lost'[t] => pub[p].n \in Lost(t, p)'
        BY DEF Lost
      <4> QED BY <4>1, <4>2 DEF Known
    <3> QED BY <3>1, <3>2, <3>3
  <2>6. Newest(t, p)' /\ Complete(t, p)'
    <3>1. pub[p].n \in Nat
      BY SeenType DEF TypeInv
    <3> QED BY <1>0, <1>1, <2>1, <2>2, <2>4, <2>5, <3>1, OrderUnsent DEF OrderInv
  <2> QED BY <2>2, <2>3, <2>6
<1>5. ASSUME Send(p, s)
      PROVE  Rising(s)' /\ \A r \in Pubs : Newest(s, r)' /\ Complete(s, r)'
  <2>1. ASSUME NEW r \in Pubs \ {p} PROVE Seen(s, r)' = Seen(s, r)
    <3>1. PICK e \in Events : e = [from |-> p, n |-> pub[p].n]
      <4>1. pub[p].n \in 1..MaxPublish
        BY <1>5, MaxPublishAssumption DEF Send, TypeInv, TypeOK, PubNumbered
      <4> QED BY <4>1 DEF Events
    <3>2. sub'[s].ch = Append(sub[s].ch, e) /\ delivered'[s] = delivered[s]
      BY <1>5, <3>1 DEF Send, TypeInv, TypeOK, Subscriptions
    <3>3. e.from = p
      BY <3>1
    <3> QED BY <3>2, <3>3, SeenSent DEF TypeInv
  <2>2. \A r \in Pubs \ {p} : Newest(s, r)' /\ Complete(s, r)'
    BY <1>0, <1>1, <1>2, <2>1, OrderKept DEF OrderInv, TypeInv
  <2> QED BY <1>5, <2>2, OrderSend, RisingSent
<1> QED BY <1>3, <1>4, <1>5 DEF OrderInv

\* A receive moves the head of the channel to the calls of OnEvent.
LEMMA OrderTake ==
  ASSUME TypeInv, OrderInv, NEW s \in Subs, Take(s)
  PROVE  OrderInv'
<1> DEFINE ch == sub[s].ch
<1>1. ch \in Seq(Events) /\ ch # <<>>
  BY DEF Take, TypeInv, TypeOK, Subscriptions
<1>0. PICK e \in Events : e = Head(ch)
  BY <1>1, TailHolds
<1> DEFINE D == delivered[s][e.from]
<1>2. /\ e.from \in Pubs /\ e.n \in Nat /\ D \in Seq(Nat)
  <2>1. e.from \in Pubs /\ e.n \in 1..MaxPublish
    BY DEF Events
  <2>2. delivered[s] \in [Pubs -> Seq(1..MaxPublish)]
    BY DEF TypeInv, TypeOK
  <2>3. D \in Seq(1..MaxPublish)
    BY <2>1, <2>2
  <2> QED BY <2>1, <2>3, MaxPublishAssumption
<1>3. /\ UNCHANGED <<ctxDone, pub, lost>>
      /\ \A t \in Subs \ {s} : sub'[t] = sub[t] /\ delivered'[t] = delivered[t]
      /\ sub'[s].ch = Tail(ch)
      /\ sub'[s].qos = sub[s].qos /\ sub'[s].chClosed = sub[s].chClosed
      /\ sub'[s].state = sub[s].state /\ sub[s].worker # "none"
  BY DEF Take, TypeInv, TypeOK, Subscriptions
<1>4. /\ delivered'[s][e.from] = Append(D, e.n)
      /\ \A p \in Pubs \ {e.from} : delivered'[s][p] = delivered[s][p]
  <2>1. delivered' = [delivered EXCEPT ![s][e.from] = Append(@, e.n)]
    BY <1>0 DEF Take
  <2>2. delivered \in [Subs -> [Pubs -> Seq(1..MaxPublish)]]
    BY DEF TypeInv, TypeOK
  <2> QED BY <1>2, <2>1, <2>2
<1>5. /\ e = ch[1] /\ Len(ch) \in Nat /\ Len(ch) >= 1
      /\ Len(Tail(ch)) = Len(ch) - 1
      /\ \A i \in 1..Len(ch) - 1 : Tail(ch)[i] = ch[i + 1]
  BY <1>0, <1>1
<1>6. /\ Len(Append(D, e.n)) = Len(D) + 1 /\ Len(D) \in Nat
      /\ \A i \in 1..Len(D) : Append(D, e.n)[i] = D[i]
      /\ Append(D, e.n)[Len(D) + 1] = e.n
  <2> HIDE DEF D
  <2> QED BY <1>2
<1> HIDE DEF ch, D
<1>7. /\ Called(s, e.from)' = Called(s, e.from) \cup {e.n}
      /\ \A p \in Pubs \ {e.from} : Called(s, p)' = Called(s, p)
  <2>1. Called(s, e.from)' = {Append(D, e.n)[i] : i \in 1..Len(D) + 1}
    BY <1>4, <1>6 DEF Called
  <2>2. Called(s, e.from) = {D[i] : i \in 1..Len(D)}
    BY DEF Called, D
  <2>3. {Append(D, e.n)[i] : i \in 1..Len(D) + 1} = {D[i] : i \in 1..Len(D)} \cup {e.n}
    BY <1>6
  <2>4. \A p \in Pubs \ {e.from} : Called(s, p)' = Called(s, p)
    BY <1>4 DEF Called
  <2> QED BY <2>1, <2>2, <2>3, <2>4
<1>8. InChannel(ch) = InChannel(Tail(ch)) \cup {e}
  <2>1. InChannel(ch) \subseteq InChannel(Tail(ch)) \cup {e}
    BY <1>0, <1>1, TailHolds
  <2>2. InChannel(Tail(ch)) \cup {e} \subseteq InChannel(ch)
    BY <1>5 DEF InChannel
  <2> QED BY <2>1, <2>2
<1>9. \A p \in Pubs : Seen(s, p)' = Seen(s, p)
  <2>1. ASSUME NEW p \in Pubs
        PROVE  /\ Queued(s, p) = {d.n : d \in {d \in InChannel(ch) : d.from = p}}
               /\ Queued(s, p)' = {d.n : d \in {d \in InChannel(Tail(ch)) : d.from = p}}
    BY <1>3 DEF Queued, InChannel, ch
  <2>2. ASSUME NEW p \in Pubs \ {e.from} PROVE Queued(s, p)' = Queued(s, p)
    BY <1>8, <2>1
  <2>3. Queued(s, e.from) = Queued(s, e.from)' \cup {e.n}
    BY <1>2, <1>8, <2>1
  <2> QED BY <1>7, <2>2, <2>3 DEF Seen
<1>10. Rising(s)
  BY DEF OrderInv
<1>11. Rising(s)'
  <2>1. \A m \in Called(s, e.from) : m < e.n
    BY <1>5, <1>10 DEF Rising, ch
  <2>2. \A p \in Pubs : \A i, j \in 1..Len(delivered'[s][p]) :
          i < j => delivered'[s][p][i] < delivered'[s][p][j]
    <3>1. ASSUME NEW i \in 1..Len(D) + 1, NEW j \in 1..Len(D) + 1, i < j
          PROVE  Append(D, e.n)[i] < Append(D, e.n)[j]
      <4>1. i \in 1..Len(D) /\ Append(D, e.n)[i] = D[i]
        BY <1>6, <3>1
      <4>2. CASE j = Len(D) + 1
        BY <1>6, <2>1, <4>1, <4>2 DEF Called, D
      <4>3. CASE j # Len(D) + 1
        <5>1. j \in 1..Len(D) /\ Append(D, e.n)[j] = D[j]
          BY <1>6, <4>3
        <5> QED BY <1>2, <1>10, <3>1, <4>1, <5>1 DEF Rising, D
      <4> QED BY <4>2, <4>3
    <3>2. \A p \in Pubs \ {e.from} : \A i, j \in 1..Len(delivered[s][p]) :
            i < j => delivered[s][p][i] < delivered[s][p][j]
      BY <1>10 DEF Rising
    <3> QED BY <1>4, <1>6, <3>1, <3>2
  <2>3. \A i, j \in 1..Len(Tail(ch)) :
          i < j /\ Tail(ch)[i].from = Tail(ch)[j].from => Tail(ch)[i].n < Tail(ch)[j].n
    <3> SUFFICES ASSUME NEW i \in 1..Len(Tail(ch)), NEW j \in 1..Len(Tail(ch)), i < j,
                        Tail(ch)[i].from = Tail(ch)[j].from
                 PROVE  Tail(ch)[i].n < Tail(ch)[j].n
      OBVIOUS
    <3>1. /\ i + 1 \in 1..Len(ch) /\ j + 1 \in 1..Len(ch) /\ i + 1 < j + 1
          /\ Tail(ch)[i] = ch[i + 1] /\ Tail(ch)[j] = ch[j + 1]
      BY <1>5
    <3> QED BY <1>10, <3>1 DEF Rising, ch
  <2>4. \A i \in 1..Len(Tail(ch)), p \in Pubs :
          Tail(ch)[i].from = p => \A m \in Called(s, p)' : m < Tail(ch)[i].n
    <3> SUFFICES ASSUME NEW i \in 1..Len(Tail(ch)), NEW p \in Pubs, Tail(ch)[i].from = p,
                        NEW m \in Called(s, p)'
                 PROVE  m < Tail(ch)[i].n
      OBVIOUS
    <3>1. /\ i + 1 \in 1..Len(ch) /\ 1 \in 1..Len(ch) /\ 1 < i + 1
          /\ Tail(ch)[i] = ch[i + 1]
      BY <1>5
    <3>2. CASE m \in Called(s, p)
      BY <1>10, <3>1, <3>2 DEF Rising, ch
    <3>3. CASE m \notin Called(s, p)
      <4>1. p = e.from /\ m = e.n
        BY <1>7, <3>3
      <4> QED BY <1>5, <1>10, <3>1, <4>1 DEF Rising, ch
    <3> QED BY <3>2, <3>3
  <2>5. ASSUME NEW i \in 1..Len(Tail(ch)) PROVE Tail(ch)[i].from \in Pubs
    <3>1. i + 1 \in 1..Len(ch) /\ Tail(ch)[i] = ch[i + 1]
      BY <1>5
    <3>2. ch[i + 1] \in Events
      BY <1>1, <3>1
    <3> QED BY <3>1, <3>2 DEF Events
  <2> QED BY <1>3, <2>2, <2>3, <2>4, <2>5 DEF Rising
<1>12. ASSUME NEW t \in Subs
       PROVE  Rising(t)' /\ Made(t)' /\ \A p \in Pubs : Newest(t, p)' /\ Complete(t, p)'
  <2>1. CASE t = s
    <3>1. Made(s)'
      BY <1>3 DEF OrderInv, Made
    <3>2. \A p \in Pubs : Newest(s, p)' /\ Complete(s, p)'
      BY <1>3, <1>9, OrderKept DEF OrderInv, TypeInv
    <3> QED BY <1>11, <2>1, <3>1, <3>2
  <2>2. CASE t # s
    <3>1. Rising(t)' /\ \A p \in Pubs : Seen(t, p)' = Seen(t, p)
      BY <1>3, <2>2, SeenKept DEF OrderInv
    <3>2. Made(t)'
      BY <1>3, <2>2 DEF OrderInv, Made
    <3>3. \A p \in Pubs : Newest(t, p)' /\ Complete(t, p)'
      BY <1>3, <2>2, <3>1, OrderKept DEF OrderInv, TypeInv
    <3> QED BY <3>1, <3>2, <3>3
  <2> QED BY <2>1, <2>2
<1> QED BY <1>12 DEF OrderInv

\* OrderInv says what DeliveredInOrder says: a number missing between two calls
\* was lost to a panic, or it would be in the channel, after the second of them.
LEMMA OrderImplied ==
  ASSUME TypeOK, OrderInv
  PROVE  DeliveredInOrder
<1> SUFFICES ASSUME NEW s \in Subs, NEW p \in Pubs, NEW i \in 1..Len(delivered[s][p]) - 1
             PROVE  /\ delivered[s][p][i] < delivered[s][p][i + 1]
                    /\ s \in Guaranteed =>
                         \A n \in delivered[s][p][i] + 1..delivered[s][p][i + 1] - 1 :
                           [from |-> p, n |-> n] \in lost[s]
  BY DEF DeliveredInOrder
<1> DEFINE D == delivered[s][p]
<1>1. /\ D \in Seq(1..MaxPublish) /\ Len(D) \in Nat
      /\ i \in 1..Len(D) /\ i + 1 \in 1..Len(D) /\ i < i + 1
  BY DEF TypeOK
<1>2. \A j \in 1..Len(D) : D[j] \in Nat /\ D[j] \in Called(s, p)
  BY <1>1, MaxPublishAssumption DEF Called
<1>3. D[i] < D[i + 1]
  BY <1>1 DEF OrderInv, Rising
<1>4. ASSUME s \in Guaranteed, NEW x \in D[i] + 1..D[i + 1] - 1
      PROVE  [from |-> p, n |-> x] \in lost[s]
  <2>1. x \in Nat /\ D[i] < x /\ x < D[i + 1]
    BY <1>1, <1>2, <1>4
  <2>2. x \in Known(s, p)
    <3>1. D[i] \in Seen(s, p) /\ D[i + 1] \in Seen(s, p)
      BY <1>1, <1>2 DEF Seen
    <3>2. NoGap(Seen(s, p), Known(s, p), D[i + 1])
      BY <1>4, <3>1 DEF OrderInv, Complete
    <3>3. D[i] <= x /\ x <= D[i + 1]
      BY <1>1, <1>2, <2>1
    <3> QED BY <2>1, <3>1, <3>2, <3>3 DEF NoGap
  <2>3. x \notin Called(s, p)
    <3> SUFFICES ASSUME NEW j \in 1..Len(D), D[j] = x PROVE FALSE
      BY DEF Called
    <3>1. i < j
      <4>1. j < i => D[j] < D[i]
        BY <1>1 DEF OrderInv, Rising
      <4>2. D[i] < D[j] /\ D[i] \in Nat /\ D[j] \in Nat
        BY <1>1, <1>2, <2>1
      <4>3. ~(j < i) /\ j # i
        BY <4>1, <4>2
      <4> HIDE DEF D
      <4> QED BY <1>1, <4>3
    <3>2. j < i + 1
      <4>1. i + 1 < j => D[i + 1] < D[j]
        BY <1>1 DEF OrderInv, Rising
      <4>2. D[j] < D[i + 1] /\ D[i + 1] \in Nat /\ D[j] \in Nat
        BY <1>1, <1>2, <2>1
      <4>3. ~(i + 1 < j) /\ j # i + 1
        BY <4>1, <4>2
      <4> HIDE DEF D
      <4> QED BY <1>1, <4>3
    <3> QED BY <1>1, <3>1, <3>2
  <2>4. x \notin Queued(s, p)
    <3> SUFFICES ASSUME NEW k \in 1..Len(sub[s].ch), sub[s].ch[k].from = p, sub[s].ch[k].n = x
                 PROVE  FALSE
      BY DEF Queued, InChannel
    <3>1. D[i + 1] < x
      BY <1>1, <1>2 DEF OrderInv, Rising
    <3> QED BY <1>1, <1>2, <2>1, <3>1
  <2>5. x \in Lost(s, p)
    BY <2>2, <2>3, <2>4 DEF Known, Seen
  <2>6. PICK e \in lost[s] : e.from = p /\ e.n = x
    BY <2>5 DEF Lost
  <2>7. e \in Events
    BY <2>6 DEF TypeOK
  <2> QED BY <2>6, <2>7 DEF Events
<1> QED BY <1>3, <1>4

\* A subscriber is called in the order of each publisher, never twice, and with
\* QoS1 without gaps but for what a panic of Publish kept from it, however
\* subscriptions, unsubscriptions, Shutdown and the engine's context interleave
\* with publishers that go on after a panic.
THEOREM OrderTheorem == Spec => []DeliveredInOrder
<1>1. Init => OrderInv
  <2> SUFFICES ASSUME Init, NEW s \in Subs
               PROVE  Rising(s) /\ Made(s) /\ \A p \in Pubs : Newest(s, p) /\ Complete(s, p)
    BY DEF OrderInv
  <2>1. /\ sub[s] = NoSubscription
        /\ \A p \in Pubs : delivered[s][p] = <<>> /\ pub[p].todo = {}
    BY DEF Init
  <2>2. Made(s)
    BY <2>1 DEF Made, NoSubscription
  <2>3. Rising(s)
    BY <2>1 DEF Rising, NoSubscription
  <2>4. \A p \in Pubs : Seen(s, p) = {}
    <3>1. sub[s].state = "none"
      BY <2>1 DEF NoSubscription
    <3> QED BY <2>2, <3>1, UnmadeSeen
  <2> QED BY <2>2, <2>3, <2>4 DEF Newest, Complete, NoGap
<1>2. TypeInv /\ OrderInv /\ [Next]_vars => OrderInv'
  <2> SUFFICES ASSUME TypeInv, OrderInv, [Next]_vars PROVE OrderInv'
    OBVIOUS
  <2>1. CASE UNCHANGED vars
    <3>1. UNCHANGED <<sub, pub, delivered, ctxDone, lost>>
      BY <2>1 DEF vars
    <3>2. ASSUME NEW s \in Subs
          PROVE  Rising(s)' /\ Made(s)' /\ \A p \in Pubs : Newest(s, p)' /\ Complete(s, p)'
      <4>1. Rising(s)' /\ \A p \in Pubs : Seen(s, p)' = Seen(s, p)
        BY <3>1, SeenKept DEF OrderInv
      <4>2. Made(s)'
        BY <3>1 DEF OrderInv, Made
      <4> QED BY <3>1, <4>1, <4>2, OrderKept DEF OrderInv, TypeInv
    <3> QED BY <3>2 DEF OrderInv
  <2> QED BY <2>1, NextSteps, OrderPublish, OrderSends, OrderTake, OrderSubscription, OrderBus
<1>3. TypeInv /\ OrderInv => DeliveredInOrder
  BY OrderImplied DEF TypeInv
<1> QED BY <1>1, <1>2, <1>3, TypeCorrect, PTL DEF Spec
=============================================================================
