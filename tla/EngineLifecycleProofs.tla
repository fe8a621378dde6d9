----------------------- MODULE EngineLifecycleProofs -----------------------
(***************************************************************************)
(* Theorems about EngineLifecycle for any teams of workers, users, callers *)
(* and sizes.                                                              *)
(***************************************************************************)
EXTENDS EngineLifecycle, SequenceTheorems, TLAPS

-----------------------------------------------------------------------------
(* Agendas *)

\* One of the steps in S is still to be taken.
Ahead(steps, S) == \E i \in 1..Len(steps) : steps[i] \in S

\* To go on with the tail loses only the head.
LEMMA TailAhead ==
  ASSUME NEW E, NEW q \in Seq(E), q # <<>>, NEW S
  PROVE  /\ Tail(q) \in Seq(E) /\ Head(q) \in E
         /\ Ahead(q, S) => Head(q) \in S \/ Ahead(Tail(q), S)
<1>1. /\ Head(q) \in E /\ Head(q) = q[1]
      /\ Tail(q) \in Seq(E) /\ Len(Tail(q)) = Len(q) - 1
      /\ \A i \in 1..Len(q) - 1 : Tail(q)[i] = q[i + 1]
      /\ Len(q) \in Nat
  OBVIOUS
<1>2. ASSUME NEW i \in 1..Len(q), q[i] \in S, i # 1
      PROVE  Ahead(Tail(q), S)
  <2>1. i - 1 \in 1..Len(Tail(q)) /\ Tail(q)[i - 1] = q[i]
    BY <1>1, <1>2
  <2> QED BY <1>2, <2>1 DEF Ahead
<1> QED BY <1>1, <1>2 DEF Ahead

\* What is put in front hides nothing and is itself ahead.
LEMMA ConcatAhead ==
  ASSUME NEW E, NEW p \in Seq(E), NEW q \in Seq(E), NEW S
  PROVE  /\ p \o q \in Seq(E)
         /\ Ahead(p, S) \/ Ahead(q, S) => Ahead(p \o q, S)
<1>1. /\ p \o q \in Seq(E) /\ Len(p \o q) = Len(p) + Len(q)
      /\ \A i \in 1..Len(p) : (p \o q)[i] = p[i]
      /\ \A i \in 1..Len(q) : (p \o q)[Len(p) + i] = q[i]
      /\ Len(p) \in Nat /\ Len(q) \in Nat
  OBVIOUS
<1>2. ASSUME NEW i \in 1..Len(p), p[i] \in S PROVE Ahead(p \o q, S)
  <2>1. i \in 1..Len(p \o q) /\ (p \o q)[i] = p[i]
    BY <1>1
  <2> QED BY <1>2, <2>1 DEF Ahead
<1>3. ASSUME NEW i \in 1..Len(q), q[i] \in S PROVE Ahead(p \o q, S)
  <2>1. Len(p) + i \in 1..Len(p \o q) /\ (p \o q)[Len(p) + i] = q[i]
    BY <1>1
  <2> QED BY <1>3, <2>1 DEF Ahead
<1> QED BY <1>1, <1>2, <1>3 DEF Ahead

\* The agenda of a begins with s; the step s is over and steps replace it.
LEMMA AgendaStep ==
  ASSUME NEW a \in Actors, NEW s, NEW steps \in Seq(Steps),
         agenda \in [Actors -> Seq(Steps)], At(a, s),
         ContinueWith(a, steps)
  PROVE  /\ agenda' \in [Actors -> Seq(Steps)]
         /\ \A b \in Actors : b # a => agenda'[b] = agenda[b]
         /\ \A S : Ahead(steps, S) \/ (s \notin S /\ Ahead(agenda[a], S)) =>
                     Ahead(agenda'[a], S)
<1>1. agenda[a] \in Seq(Steps) /\ agenda[a] # <<>> /\ Head(agenda[a]) = s
  BY DEF At
<1>2. Tail(agenda[a]) \in Seq(Steps)
  BY <1>1
<1>3. steps \o Tail(agenda[a]) \in Seq(Steps)
  BY <1>2
<1>4. agenda' = [agenda EXCEPT ![a] = steps \o Tail(agenda[a])]
  BY DEF ContinueWith
<1>5. agenda'[a] = steps \o Tail(agenda[a])
  BY <1>4
<1>6. ASSUME NEW S, Ahead(steps, S) \/ (s \notin S /\ Ahead(agenda[a], S))
      PROVE  Ahead(agenda'[a], S)
  <2>1. Ahead(agenda[a], S) => s \in S \/ Ahead(Tail(agenda[a]), S)
    BY <1>1, TailAhead
  <2>2. Ahead(steps, S) \/ Ahead(Tail(agenda[a]), S)
          => Ahead(steps \o Tail(agenda[a]), S)
    BY <1>2, ConcatAhead
  <2>3. Ahead(steps \o Tail(agenda[a]), S)
    BY <1>6, <2>1, <2>2
  <2> QED BY <1>5, <2>3
<1> QED BY <1>3, <1>4, <1>6

\* The step s is over and nothing replaces it.
LEMMA AgendaTail ==
  ASSUME NEW a \in Actors, NEW s, agenda \in [Actors -> Seq(Steps)], At(a, s), Continue(a)
  PROVE  /\ agenda' \in [Actors -> Seq(Steps)]
         /\ \A b \in Actors : b # a => agenda'[b] = agenda[b]
         /\ \A S : s \notin S /\ Ahead(agenda[a], S) => Ahead(agenda'[a], S)
<1>1. agenda[a] \in Seq(Steps) /\ agenda[a] # <<>> /\ Head(agenda[a]) = s
  BY DEF At
<1>2. Tail(agenda[a]) \in Seq(Steps)
  BY <1>1
<1>3. agenda' = [agenda EXCEPT ![a] = Tail(agenda[a])]
  BY DEF Continue
<1>4. agenda'[a] = Tail(agenda[a])
  BY <1>3
<1>5. ASSUME NEW S, s \notin S, Ahead(agenda[a], S)
      PROVE  Ahead(agenda'[a], S)
  BY <1>1, <1>4, <1>5, TailAhead
<1> QED BY <1>2, <1>3, <1>5

\* The agenda of a is written anew.
LEMMA AgendaSet ==
  ASSUME NEW a \in Actors, NEW steps \in Seq(Steps), agenda \in [Actors -> Seq(Steps)],
         agenda' = [agenda EXCEPT ![a] = steps]
  PROVE  /\ agenda' \in [Actors -> Seq(Steps)]
         /\ agenda'[a] = steps
         /\ \A b \in Actors : b # a => agenda'[b] = agenda[b]
OBVIOUS

\* The agendas the code writes.
LEMMA AgendaTypes ==
  /\ <<>> \in Seq(Steps) /\ Told \in Seq(Steps) /\ StopSteps \in Seq(Steps)
  /\ ShutdownSteps \in Seq(Steps)
  /\ \A s \in Steps : <<s>> \in Seq(Steps)
  /\ \A s, t \in Steps : <<s, t>> \in Seq(Steps)
  /\ \A s, t, u \in Steps : <<s, t, u>> \in Seq(Steps)
<1>1. /\ \A s \in Steps : <<s>> \in Seq(Steps)
      /\ \A s, t \in Steps : <<s, t>> \in Seq(Steps)
      /\ \A s, t, u \in Steps : <<s, t, u>> \in Seq(Steps)
      /\ <<>> \in Seq(Steps)
  OBVIOUS
<1>2. Told \in Seq(Steps)
  <2>1. Told = <<"notify">> \/ Told = <<>>
    BY DEF Told
  <2>2. "notify" \in Steps
    BY DEF Steps
  <2> QED BY <1>1, <2>1, <2>2
<1>3. StopSteps \in Seq(Steps)
  BY DEF StopSteps, Steps
<1>4. /\ <<"begin", "list", "cancel_orders", "unload", "close", "shutdown_bus">> \in Seq(Steps)
      /\ <<"close_done">> \in Seq(Steps)
  BY DEF Steps
<1>5. ShutdownSteps \in Seq(Steps)
  BY <1>3, <1>4 DEF ShutdownSteps
<1> QED BY <1>1, <1>2, <1>3, <1>5

-----------------------------------------------------------------------------
(* Type correctness *)

\* A step over, with or without others in its place, or a new agenda.
LEMMA AgendaTyped ==
  ASSUME agenda \in [Actors -> Seq(Steps)], NEW a \in Actors,
         \/ agenda[a] # <<>> /\ Continue(a)
         \/ agenda[a] # <<>> /\ \E steps \in Seq(Steps) : ContinueWith(a, steps)
         \/ \E steps \in Seq(Steps) : agenda' = [agenda EXCEPT ![a] = steps]
  PROVE  agenda' \in [Actors -> Seq(Steps)]
<1>1. CASE agenda[a] # <<>> /\ Continue(a)
  BY <1>1, AgendaTail DEF At
<1>2. CASE agenda[a] # <<>> /\ \E steps \in Seq(Steps) : ContinueWith(a, steps)
  BY <1>2, AgendaStep DEF At
<1>3. CASE \E steps \in Seq(Steps) : agenda' = [agenda EXCEPT ![a] = steps]
  BY <1>3, AgendaSet
<1> QED BY <1>1, <1>2, <1>3

\* What the steps of a worker in a handler do to its agenda.
LEMMA ProceedAgenda ==
  ASSUME TypeOK, NEW a \in Actors, Proceed(a) \/ Sent(a)
  PROVE  agenda' \in [Actors -> Seq(Steps)]
<1> DEFINE News == {Told, <<"sending">>, <<"halt">>, <<"publish">>, <<"halt", "publish">>}
<1>1. \A steps \in News : steps \in Seq(Steps)
  <2>1. /\ <<"sending">> \in Seq(Steps) /\ <<"halt">> \in Seq(Steps)
        /\ <<"publish">> \in Seq(Steps) /\ <<"halt", "publish">> \in Seq(Steps)
    BY DEF Steps
  <2> QED BY <2>1, AgendaTypes
<1>2. agenda[a] # <<>>
  BY DEF Proceed, Sent, Notify, Halt, Publish, Released, CheckLive, Reconciled, NTPAnswers,
         NTPFails, At
<1>3. Continue(a) \/ \E steps \in News : ContinueWith(a, steps)
  BY DEF Proceed, Sent, Notify, Halt, Publish, Released, CheckLive, Reconciled, NTPAnswers,
         NTPFails
<1> QED BY <1>1, <1>2, <1>3, AgendaTyped DEF TypeOK

\* A step of a worker in its handler keeps the types.
LEMMA ProceedType ==
  ASSUME TypeOK, NEW w \in Workers, Proceed(w) \/ Sent(w)
  PROVE  TypeOK'
<1>1. agenda' \in [Actors -> Seq(Steps)]
  BY ProceedAgenda DEF Actors
<1>2. mode' \in Modes
  BY DEF Proceed, Sent, Notify, Halt, Publish, Released, CheckLive, Reconciled, NTPAnswers,
         NTPFails, TypeOK, Modes
<1>3. notes' \in 0..Capacity
  BY CapacityAssumption DEF Proceed, Sent, Notify, Halt, Publish, Released, CheckLive,
         Reconciled, NTPAnswers, NTPFails, TypeOK
<1>4. failures' \in 0..Tolerance
  BY ToleranceAssumption DEF Proceed, Sent, Notify, Halt, Publish, Released, CheckLive,
         Reconciled, NTPAnswers, NTPFails, TypeOK, ntp
<1>5. mustHalt' \in [Workers -> {"none", "lost_stream", "unsafe"}]
  BY DEF Proceed, Sent, Notify, Halt, Publish, Released, CheckLive, Reconciled, NTPAnswers,
         NTPFails, TypeOK
<1>6. /\ synced' \in BOOLEAN
      /\ delivery' \in {"waits", "handling", "exited"}
      /\ UNCHANGED <<ctxDone, crashed, bus, storage, phase, order, failed, done, told>>
  BY DEF Proceed, Sent, Notify, Halt, Publish, Released, CheckLive, Reconciled, NTPAnswers,
         NTPFails, TypeOK, ntp, world, calls
<1> QED BY <1>1, <1>2, <1>3, <1>4, <1>5, <1>6 DEF TypeOK

\* What a worker does between two handlers, and its panics, keep the types.
LEMMA WorkerType ==
  ASSUME TypeOK,
         \/ Start \/ ListenerReceives \/ Tick \/ StreamEvent
         \/ \E w \in Workers : Exit(w) \/ Panic(w) \/ Crash(w)
  PROVE  TypeOK'
<1> USE AgendaTypes DEF Steps
<1>1. CASE Start
  BY <1>1 DEF Start, TypeOK, world, ntp, calls
<1>2. ASSUME NEW w \in Workers, NEW steps \in Seq(Steps), Receive(w, steps)
      PROVE  /\ agenda' \in [Actors -> Seq(Steps)]
             /\ UNCHANGED <<mode, ctxDone, bus, delivery, storage, order, failures, synced,
                            phase, failed, done, told, crashed>>
  BY <1>2, AgendaTyped DEF Receive, TypeOK, Actors, world, ntp, calls
<1>3. CASE ListenerReceives
  <2>1. Receive("listener", <<"publish">>) /\ <<"publish">> \in Seq(Steps)
    BY <1>3 DEF ListenerReceives
  <2>2. notes' \in 0..Capacity
    BY <1>3, CapacityAssumption DEF ListenerReceives, TypeOK
  <2>3. UNCHANGED mustHalt /\ "listener" \in Workers
    BY <1>3 DEF ListenerReceives, Workers
  <2> HIDE DEF Steps
  <2> QED BY <1>2, <2>1, <2>2, <2>3 DEF TypeOK
<1>4. CASE Tick
  <2>1. /\ \/ Receive("ntp", <<"query">>)
           \/ Receive("reconciliation", <<"reconcile">>)
        /\ <<"query">> \in Seq(Steps) /\ <<"reconcile">> \in Seq(Steps)
    BY <1>4 DEF Tick
  <2>2. UNCHANGED <<notes, mustHalt>> /\ "ntp" \in Workers /\ "reconciliation" \in Workers
    BY <1>4 DEF Tick, Workers
  <2> HIDE DEF Steps
  <2>3. CASE Receive("ntp", <<"query">>)
    BY <1>2, <2>1, <2>2, <2>3 DEF TypeOK
  <2>4. CASE Receive("reconciliation", <<"reconcile">>)
    BY <1>2, <2>1, <2>2, <2>4 DEF TypeOK
  <2> QED BY <2>1, <2>3, <2>4
<1>5. CASE StreamEvent
  <2>1. /\ <<"publish", "check_live">> \in Seq(Steps)
        /\ <<"publish", "check_live", "reconcile">> \in Seq(Steps)
        /\ <<"publish", "reconcile">> \in Seq(Steps)
        /\ <<"publish">> \in Seq(Steps)
    OBVIOUS
  <2>2. PICK steps \in Seq(Steps) : Receive("stream", steps)
    <3>1. \/ Receive("stream", <<"publish", "check_live">>)
          \/ Receive("stream", <<"publish", "check_live", "reconcile">>)
          \/ Receive("stream", <<"publish", "reconcile">>)
          \/ Receive("stream", <<"publish">>)
      BY <1>5 DEF StreamEvent
    <3> HIDE DEF Steps
    <3> QED BY <2>1, <3>1
  <2>3. mustHalt' \in [Workers -> {"none", "lost_stream", "unsafe"}] /\ UNCHANGED notes
    BY <1>5 DEF StreamEvent, TypeOK, Workers
  <2>4. "stream" \in Workers
    BY DEF Workers
  <2> HIDE DEF Steps
  <2> QED BY <1>2, <2>2, <2>3, <2>4 DEF TypeOK
<1>6. ASSUME NEW w \in Workers, Exit(w) PROVE TypeOK'
  BY <1>6 DEF Exit, TypeOK, world, ntp, calls
<1>7. ASSUME NEW w \in Workers, Panic(w) PROVE TypeOK'
  <2>1. <<"halt", "publish">> \in Seq(Steps)
    OBVIOUS
  <2>2. agenda' \in [Actors -> Seq(Steps)]
    BY <1>7, <2>1, AgendaTyped DEF Panic, TypeOK, Actors
  <2> QED BY <1>7, <2>2 DEF Panic, TypeOK, world, ntp, calls
<1>8. ASSUME NEW w \in Workers, Crash(w) PROVE TypeOK'
  <2>1. agenda' \in [Actors -> Seq(Steps)]
    BY <1>8 DEF Crash
  <2> QED BY <1>8, <2>1 DEF Crash, TypeOK, world, ntp, calls
<1> QED BY <1>1, <1>3, <1>4, <1>5, <1>6, <1>7, <1>8

\* A user's steps keep the types.
LEMMA UserType ==
  ASSUME TypeOK, NEW u \in Users, Notify(u) \/ \E m \in UserModes : TransitionTo(u, m)
  PROVE  TypeOK'
<1>1. CASE Notify(u)
  <2>1. agenda' \in [Actors -> Seq(Steps)]
    BY <1>1, AgendaTyped DEF Notify, At, TypeOK, Actors
  <2>2. notes' \in 0..Capacity
    BY <1>1, CapacityAssumption DEF Notify, TypeOK
  <2> QED BY <1>1, <2>1, <2>2 DEF Notify, TypeOK, world, ntp, calls
<1>2. ASSUME NEW m \in UserModes, TransitionTo(u, m) PROVE TypeOK'
  <2>1. agenda' \in [Actors -> Seq(Steps)]
    BY <1>2, AgendaTyped, AgendaTypes DEF TransitionTo, TypeOK, Actors
  <2> QED BY <1>2, <2>1, UserModesAssumption DEF TransitionTo, TypeOK, world, ntp, calls
<1> QED BY <1>1, <1>2

\* A call of Stop or Shutdown that begins keeps the types.
LEMMA CallType ==
  ASSUME TypeOK, NEW c \in Callers, StopCall(c) \/ ShutdownCall(c)
  PROVE  TypeOK'
<1>1. \E steps \in Seq(Steps) : Call(c, steps)
  <2>1. <<"lock">> \in Seq(Steps)
    BY DEF Steps
  <2> QED BY <2>1, AgendaTypes DEF StopCall, ShutdownCall
<1>2. agenda' \in [Actors -> Seq(Steps)]
  BY <1>1, AgendaTyped DEF Call, TypeOK, Actors
<1>3. /\ done' \in {"no", "running", "over"}
      /\ told' \in [Callers -> {"nothing", "nil", "errors", "already"}]
  BY DEF StopCall, ShutdownCall, Call, TypeOK
<1> QED BY <1>1, <1>2, <1>3 DEF Call, TypeOK, world, ntp

\* What the steps of Stop and Shutdown do to the agenda of their caller.
LEMMA CallerAgenda ==
  ASSUME TypeOK, NEW c \in Callers, CallerStep(c)
  PROVE  agenda' \in [Actors -> Seq(Steps)]
<1> DEFINE News == {Told, <<"begin_halt">>, <<"stop_halt">>, <<"drain">>, <<"close_done">>,
                    ShutdownSteps, <<>>}
<1>1. c \in Actors /\ \A steps \in News : steps \in Seq(Steps)
  BY AgendaTypes DEF Steps, Actors
<1>2. agenda[c] # <<>>
  BY DEF CallerStep, Notify, CheckHalted, HaltFirst, HaltRefused, CancelContext, WorkersDone,
         ShutdownBus, Lock, Drained, ListOrders, CancelListed, CancelsDone, Close,
         CloseDone, At
<1>3. \/ Continue(c)
      \/ \E steps \in News : ContinueWith(c, steps)
      \/ \E steps \in News : agenda' = [agenda EXCEPT ![c] = steps]
      \/ UNCHANGED agenda
  BY DEF CallerStep, Notify, CheckHalted, HaltFirst, HaltRefused, CancelContext, WorkersDone,
         ShutdownBus, Lock, Drained, ListOrders, CancelListed, CancelsDone, Close,
         CloseDone
<1> QED BY <1>1, <1>2, <1>3, AgendaTyped DEF TypeOK

\* A step of Stop or Shutdown keeps the types.
LEMMA CallerType ==
  ASSUME TypeOK, NEW c \in Callers, CallerStep(c)
  PROVE  TypeOK'
<1>1. agenda' \in [Actors -> Seq(Steps)]
  BY CallerAgenda
<1>2. mode' \in Modes /\ bus' \in {"open", "closed"} /\ ctxDone' \in BOOLEAN
  BY DEF CallerStep, Notify, CheckHalted, HaltFirst, HaltRefused, CancelContext, WorkersDone,
         ShutdownBus, Lock, Drained, ListOrders, CancelListed, CancelsDone, Close,
         CloseDone, TypeOK, Modes, world
<1>3. notes' \in 0..Capacity
  BY CapacityAssumption DEF CallerStep, Notify, CheckHalted, HaltFirst, HaltRefused,
         CancelContext, WorkersDone, ShutdownBus, Lock, Drained, ListOrders, CancelListed,
         CancelsDone, Close, CloseDone, TypeOK
<1>4. /\ order' \in [Orders -> {"open", "listed", "canceled", "left"}]
      /\ storage' \in {"open", "closed"}
  BY DEF CallerStep, Notify, CheckHalted, HaltFirst, HaltRefused, CancelContext, WorkersDone,
         ShutdownBus, Lock, Drained, ListOrders, CancelListed, CancelsDone, Close,
         CloseDone, TypeOK, world
<1>5. /\ failed' \in [Callers -> BOOLEAN] /\ done' \in {"no", "running", "over"}
      /\ told' \in [Callers -> {"nothing", "nil", "errors", "already"}]
  BY DEF CallerStep, Notify, CheckHalted, HaltFirst, HaltRefused, CancelContext, WorkersDone,
         ShutdownBus, Lock, Drained, ListOrders, CancelListed, CancelsDone, Close,
         CloseDone, TypeOK, calls
<1>6. UNCHANGED <<failures, synced, phase, crashed, mustHalt, delivery>>
  BY DEF CallerStep, Notify, CheckHalted, HaltFirst, HaltRefused, CancelContext, WorkersDone,
         ShutdownBus, Lock, Drained, ListOrders, CancelListed, CancelsDone, Close,
         CloseDone, ntp, world
<1> QED BY <1>1, <1>2, <1>3, <1>4, <1>5, <1>6 DEF TypeOK

LEMMA TypeInit == Init => TypeOK
<1> SUFFICES ASSUME Init PROVE TypeOK
  OBVIOUS
<1>1. agenda \in [Actors -> Seq(Steps)]
  BY AgendaTypes DEF Init
<1>2. mode \in Modes /\ notes \in 0..Capacity /\ failures \in 0..Tolerance
  BY CapacityAssumption, ToleranceAssumption DEF Init, Modes
<1> QED BY <1>1, <1>2 DEF Init, TypeOK

LEMMA TypeStep == TypeOK /\ [Next]_vars => TypeOK'
<1> SUFFICES ASSUME TypeOK, [Next]_vars PROVE TypeOK'
  OBVIOUS
<1>1. CASE UNCHANGED vars
  BY <1>1 DEF TypeOK, vars, world, ntp, calls
<1>2. CASE CancelParent \/ HandlersReturn \/ DeliveryEnds
  BY <1>2 DEF CancelParent, HandlersReturn, DeliveryEnds, TypeOK, world, ntp, calls
<1> QED BY <1>1, <1>2, ProceedType, WorkerType, UserType, CallType, CallerType DEF Next

\* Every variable keeps its type and the channel of the state machine's listener
\* (Engine.Start, StateMachine.Transition) never exceeds its capacity.
THEOREM TypeTheorem == Spec => []TypeOK
BY TypeInit, TypeStep, PTL DEF Spec

-----------------------------------------------------------------------------
(* HaltsWhenItMust *)

\* HaltsWhenItMust speaks of handlers that are over. Before that the halt is on
\* the agenda: for a lost stream it may be the look at the mode before it.
Owes(w) ==
  /\ mustHalt[w] = "unsafe" => mode = "halted" \/ Ahead(agenda[w], {"halt"})
  /\ mustHalt[w] = "lost_stream" =>
       mode # "live" \/ Ahead(agenda[w], {"halt", "check_live"})

HaltInv == ~crashed => \A w \in Workers : Owes(w)

\* A step that leaves the mode and what is owed, and takes neither a halt nor a
\* look at the mode off an agenda.
LEMMA OwesKept ==
  ASSUME HaltInv, UNCHANGED <<mode, mustHalt>>, crashed' = crashed,
         \A w \in Workers :
           /\ Ahead(agenda[w], {"halt"}) => Ahead(agenda'[w], {"halt"})
           /\ Ahead(agenda[w], {"halt", "check_live"})
                => Ahead(agenda'[w], {"halt", "check_live"})
  PROVE  HaltInv'
<1> SUFFICES ASSUME ~crashed', NEW w \in Workers PROVE Owes(w)'
  BY DEF HaltInv
<1> QED BY DEF HaltInv, Owes

\* The goroutine a takes another step than a halt and a look at the mode.
Another(a) ==
  \E s \in Steps \ {"halt", "check_live"} :
    At(a, s) /\ (Continue(a) \/ \E steps \in Seq(Steps) : ContinueWith(a, steps))

LEMMA AnotherKeeps ==
  ASSUME TypeOK, HaltInv, NEW a \in Actors, Another(a), UNCHANGED <<mode, mustHalt>>,
         crashed' = crashed
  PROVE  HaltInv'
<1>1. PICK s \in Steps \ {"halt", "check_live"} :
        At(a, s) /\ (Continue(a) \/ \E steps \in Seq(Steps) : ContinueWith(a, steps))
  BY DEF Another
<1>2. agenda \in [Actors -> Seq(Steps)]
  BY DEF TypeOK
<1>3. /\ \A b \in Actors : b # a => agenda'[b] = agenda[b]
      /\ \A S : s \notin S /\ Ahead(agenda[a], S) => Ahead(agenda'[a], S)
  <2>1. CASE Continue(a)
    BY <1>1, <1>2, <2>1, AgendaTail
  <2>2. ASSUME NEW steps \in Seq(Steps), ContinueWith(a, steps)
        PROVE  <1>3!1 /\ <1>3!2
    BY <1>1, <1>2, <2>2, AgendaStep
  <2> QED BY <1>1, <2>1, <2>2
<1>4. ASSUME NEW w \in Workers
      PROVE  /\ Ahead(agenda[w], {"halt"}) => Ahead(agenda'[w], {"halt"})
             /\ Ahead(agenda[w], {"halt", "check_live"})
                  => Ahead(agenda'[w], {"halt", "check_live"})
  <2>1. CASE w = a
    <3>1. s \notin {"halt"} /\ s \notin {"halt", "check_live"}
      BY <1>1
    <3> QED BY <1>3, <2>1, <3>1
  <2>2. CASE w # a
    BY <1>3, <2>2 DEF Actors
  <2> QED BY <2>1, <2>2
<1> QED BY <1>4, OwesKept

\* What is done to the agendas of others keeps what the workers owe.
LEMMA OthersKeep ==
  ASSUME HaltInv, UNCHANGED <<mode, mustHalt>>, crashed' = crashed,
         \A w \in Workers : agenda'[w] = agenda[w]
  PROVE  HaltInv'
BY OwesKept

\* Once the engine is halted everything owed is paid.
LEMMA HaltedPays == ASSUME mode' = "halted" PROVE HaltInv'
BY DEF HaltInv, Owes

\* An agenda that begins with a step has that step ahead.
LEMMA FirstAhead ==
  /\ \A S : "halt" \in S =>
       Ahead(<<"halt">>, S) /\ Ahead(<<"halt", "publish">>, S)
  /\ Ahead(<<"publish", "check_live">>, {"halt", "check_live"})
  /\ Ahead(<<"publish", "check_live", "reconcile">>, {"halt", "check_live"})
  /\ \A S : ~Ahead(<<>>, S)
<1>1. ASSUME NEW S, "halt" \in S PROVE Ahead(<<"halt">>, S) /\ Ahead(<<"halt", "publish">>, S)
  <2>1. 1 \in 1..Len(<<"halt">>) /\ <<"halt">>[1] \in S
    BY <1>1
  <2>2. 1 \in 1..Len(<<"halt", "publish">>) /\ <<"halt", "publish">>[1] \in S
    BY <1>1
  <2> QED BY <2>1, <2>2 DEF Ahead
<1>2. Ahead(<<"publish", "check_live">>, {"halt", "check_live"})
  <2>1. /\ 2 \in 1..Len(<<"publish", "check_live">>)
        /\ <<"publish", "check_live">>[2] \in {"halt", "check_live"}
    OBVIOUS
  <2> QED BY <2>1 DEF Ahead
<1>3. Ahead(<<"publish", "check_live", "reconcile">>, {"halt", "check_live"})
  <2>1. /\ 2 \in 1..Len(<<"publish", "check_live", "reconcile">>)
        /\ <<"publish", "check_live", "reconcile">>[2] \in {"halt", "check_live"}
    OBVIOUS
  <2> QED BY <2>1 DEF Ahead
<1>4. ASSUME NEW S PROVE ~Ahead(<<>>, S)
  BY DEF Ahead
<1> QED BY <1>1, <1>2, <1>3, <1>4

\* A worker that meets a reason to halt has the halt on its new agenda.
LEMMA Incurred ==
  ASSUME TypeOK, HaltInv, mode' = mode, crashed' = crashed, NEW w \in Workers,
         \A v \in Workers : v # w => agenda'[v] = agenda[v],
         \/ /\ mustHalt' = [mustHalt EXCEPT ![w] = "unsafe"]
            /\ Ahead(agenda'[w], {"halt"})
         \/ /\ mustHalt' = [mustHalt EXCEPT ![w] = "lost_stream"]
            /\ Ahead(agenda'[w], {"halt", "check_live"})
  PROVE  HaltInv'
<1> SUFFICES ASSUME ~crashed', NEW v \in Workers PROVE Owes(v)'
  BY DEF HaltInv
<1>1. CASE v = w
  BY <1>1 DEF Owes, TypeOK
<1>2. CASE v # w
  BY <1>2 DEF Owes, TypeOK, HaltInv
<1> QED BY <1>1, <1>2

\* A transition to halted by a worker: it is refused only when the engine is halted.
LEMMA HaltPays ==
  ASSUME NEW a \in Actors, Halt(a) PROVE HaltInv'
<1>1. mode' = "halted"
  BY DEF Halt, Valid
<1> QED BY <1>1, HaltedPays

\* The look at the mode finds live trading and puts the halt ahead, or finds
\* nothing to halt.
LEMMA CheckLiveKeeps ==
  ASSUME TypeOK, HaltInv, NEW w \in Workers, CheckLive(w)
  PROVE  HaltInv'
<1>1. /\ agenda \in [Actors -> Seq(Steps)] /\ w \in Actors /\ At(w, "check_live")
      /\ UNCHANGED <<mode, mustHalt, crashed>>
  BY DEF CheckLive, TypeOK, Actors
<1>2. CASE mode = "live"
  <2>1. ContinueWith(w, <<"halt">>) /\ <<"halt">> \in Seq(Steps)
    BY <1>2 DEF CheckLive, Steps
  <2>2. /\ \A b \in Actors : b # w => agenda'[b] = agenda[b]
        /\ \A S : Ahead(<<"halt">>, S) => Ahead(agenda'[w], S)
    BY <1>1, <2>1, AgendaStep
  <2>3. Ahead(agenda'[w], {"halt"}) /\ Ahead(agenda'[w], {"halt", "check_live"})
    BY <2>2, FirstAhead
  <2> QED BY <1>1, <2>2, <2>3, OwesKept DEF Actors
<1>3. CASE mode # "live"
  <2>1. Continue(w)
    BY <1>3 DEF CheckLive
  <2>2. /\ \A b \in Actors : b # w => agenda'[b] = agenda[b]
        /\ \A S : "check_live" \notin S /\ Ahead(agenda[w], S) => Ahead(agenda'[w], S)
    BY <1>1, <2>1, AgendaTail
  <2>3. Ahead(agenda[w], {"halt"}) => Ahead(agenda'[w], {"halt"})
    BY <2>2
  <2> SUFFICES ASSUME ~crashed', NEW v \in Workers PROVE Owes(v)'
    BY DEF HaltInv
  <2>4. CASE v = w
    BY <1>1, <1>3, <2>3, <2>4 DEF HaltInv, Owes
  <2>5. CASE v # w
    BY <1>1, <2>2, <2>5 DEF HaltInv, Owes, Actors
  <2> QED BY <2>4, <2>5
<1> QED BY <1>2, <1>3

\* The query of the NTP worker ends: it goes on as before or has a halt ahead.
LEMMA QueryKeeps ==
  ASSUME TypeOK, HaltInv, NEW w \in Workers, NTPAnswers(w) \/ NTPFails(w)
  PROVE  HaltInv'
<1>1. /\ agenda \in [Actors -> Seq(Steps)] /\ w \in Actors /\ At(w, "query")
      /\ "query" \in Steps \ {"halt", "check_live"}
      /\ mode' = mode /\ crashed' = crashed
  BY DEF NTPAnswers, NTPFails, TypeOK, Actors, Steps
<1>2. \/ Continue(w) /\ UNCHANGED mustHalt
      \/ /\ ContinueWith(w, <<"halt", "publish">>)
         /\ mustHalt' = [mustHalt EXCEPT ![w] = "unsafe"]
  BY DEF NTPAnswers, NTPFails
<1>3. CASE Continue(w) /\ UNCHANGED mustHalt
  BY <1>1, <1>3, AnotherKeeps DEF Another
<1>4. CASE /\ ContinueWith(w, <<"halt", "publish">>)
           /\ mustHalt' = [mustHalt EXCEPT ![w] = "unsafe"]
  <2>1. <<"halt", "publish">> \in Seq(Steps)
    BY DEF Steps
  <2>2. /\ \A b \in Actors : b # w => agenda'[b] = agenda[b]
        /\ \A S : Ahead(<<"halt", "publish">>, S) => Ahead(agenda'[w], S)
    BY <1>1, <1>4, <2>1, AgendaStep
  <2>3. Ahead(agenda'[w], {"halt"})
    BY <2>2, FirstAhead
  <2> QED BY <1>1, <1>4, <2>2, <2>3, Incurred DEF Actors
<1> QED BY <1>2, <1>3, <1>4

\* The other steps of a handler.
LEMMA ProceedKeeps ==
  ASSUME TypeOK, HaltInv, NEW w \in Workers, Proceed(w) \/ Sent(w)
  PROVE  HaltInv'
<1>1. CASE Notify(w) \/ Publish(w) \/ Released(w) \/ Sent(w) \/ Reconciled(w)
  <2>1. /\ <<"sending">> \in Seq(Steps) /\ <<"publish">> \in Seq(Steps)
        /\ {"notify", "publish", "sending", "reconcile"} \subseteq
             Steps \ {"halt", "check_live"}
    BY DEF Steps
  <2>2. \E s \in {"notify", "publish", "sending", "reconcile"} : At(w, s)
          /\ \/ Continue(w)
             \/ ContinueWith(w, <<"sending">>)
             \/ ContinueWith(w, <<"publish">>)
    BY <1>1 DEF Notify, Publish, Released, Sent, Reconciled
  <2>3. Another(w)
    <3> HIDE DEF Steps
    <3> QED BY <2>1, <2>2 DEF Another
  <2>4. UNCHANGED <<mode, mustHalt, crashed>>
    BY <1>1 DEF Notify, Publish, Released, Sent, Reconciled
  <2> QED BY <2>3, <2>4, AnotherKeeps DEF Actors
<1> QED BY <1>1, HaltPays, CheckLiveKeeps, QueryKeeps DEF Proceed, Actors

\* What happens in the select of a worker, and its panics.
LEMMA WorkerKeeps ==
  ASSUME TypeOK, HaltInv,
         \/ Start \/ ListenerReceives \/ Tick \/ StreamEvent
         \/ \E w \in Workers : Exit(w) \/ Panic(w) \/ Crash(w)
  PROVE  HaltInv'
<1>1. ASSUME Start \/ \E w \in Workers : Exit(w) PROVE HaltInv'
  <2>1. UNCHANGED <<mode, mustHalt, crashed, agenda>>
    BY <1>1 DEF Start, Exit
  <2> QED BY <2>1, OthersKeep
<1>2. ASSUME NEW w \in Workers, NEW steps, Receive(w, steps)
      PROVE  /\ mode' = mode /\ crashed' = crashed
             /\ agenda[w] = <<>> /\ agenda'[w] = steps
             /\ \A v \in Workers : v # w => agenda'[v] = agenda[v]
  BY <1>2 DEF Receive, Selecting, TypeOK, Actors
<1>3. ASSUME NEW w \in Workers, NEW steps, Receive(w, steps), UNCHANGED mustHalt
      PROVE  HaltInv'
  <2>1. ~Ahead(agenda[w], {"halt"}) /\ ~Ahead(agenda[w], {"halt", "check_live"})
    BY <1>2, <1>3, FirstAhead
  <2> QED BY <1>2, <1>3, <2>1, OwesKept
<1>4. ASSUME NEW w \in Workers, NEW steps, Receive(w, steps),
             Ahead(steps, {"halt", "check_live"}),
             mustHalt' = [mustHalt EXCEPT ![w] = "lost_stream"]
      PROVE  HaltInv'
  BY <1>2, <1>4, Incurred
<1>5. /\ "listener" \in Workers /\ "ntp" \in Workers /\ "reconciliation" \in Workers
      /\ "stream" \in Workers
  BY DEF Workers
<1>6. CASE ListenerReceives \/ Tick
  BY <1>3, <1>5, <1>6 DEF ListenerReceives, Tick
<1>7. CASE StreamEvent
  BY <1>3, <1>4, <1>5, <1>7, FirstAhead DEF StreamEvent
<1>8. ASSUME NEW w \in Workers, Panic(w) PROVE HaltInv'
  <2>1. /\ agenda'[w] = <<"halt", "publish">>
        /\ \A v \in Workers : v # w => agenda'[v] = agenda[v]
        /\ mode' = mode /\ crashed' = crashed
        /\ mustHalt' = [mustHalt EXCEPT ![w] = "unsafe"]
    BY <1>8 DEF Panic, TypeOK, Actors
  <2>2. Ahead(agenda'[w], {"halt"})
    BY <2>1, FirstAhead
  <2> QED BY <2>1, <2>2, Incurred
<1>9. ASSUME NEW w \in Workers, Crash(w) PROVE HaltInv'
  BY <1>9 DEF Crash, HaltInv
<1> QED BY <1>1, <1>6, <1>7, <1>8, <1>9

\* Users and callers have agendas of their own; a user who changes the mode
\* takes every reason to halt on himself.
LEMMA UserKeeps ==
  ASSUME TypeOK, HaltInv, NEW u \in Users, Notify(u) \/ \E m \in UserModes : TransitionTo(u, m)
  PROVE  HaltInv'
<1>1. CASE Notify(u)
  <2>1. /\ UNCHANGED <<mode, mustHalt, crashed>>
        /\ \A w \in Workers : agenda'[w] = agenda[w]
    BY <1>1, ActorsAssumption DEF Notify, Continue, TypeOK, Actors
  <2> QED BY <2>1, OthersKeep
<1>2. CASE \E m \in UserModes : TransitionTo(u, m)
  <2>1. \A w \in Workers : mustHalt'[w] = "none"
    BY <1>2 DEF TransitionTo
  <2> QED BY <2>1 DEF HaltInv, Owes
<1> QED BY <1>1, <1>2

LEMMA CallerKeeps ==
  ASSUME TypeOK, HaltInv, NEW c \in Callers, StopCall(c) \/ ShutdownCall(c) \/ CallerStep(c)
  PROVE  HaltInv'
<1>1. CASE HaltFirst(c)
  BY <1>1, HaltedPays DEF HaltFirst
<1>2. CASE ~HaltFirst(c)
  <2>1. UNCHANGED <<mode, mustHalt, crashed>>
    BY <1>2 DEF StopCall, ShutdownCall, Call, CallerStep, Notify, CheckHalted, HaltRefused,
           CancelContext, WorkersDone, ShutdownBus, Lock, Drained, ListOrders, CancelListed, CancelsDone,
           Close, CloseDone
  <2>2. UNCHANGED agenda \/ \E steps : agenda' = [agenda EXCEPT ![c] = steps]
    BY <1>2 DEF StopCall, ShutdownCall, Call, CallerStep, Notify, CheckHalted, HaltRefused,
           CancelContext, WorkersDone, ShutdownBus, Lock, Drained, ListOrders, CancelListed, CancelsDone,
           Close, CloseDone, Continue, ContinueWith
  <2>3. \A w \in Workers : agenda'[w] = agenda[w]
    BY <2>2, ActorsAssumption DEF TypeOK, Actors
  <2> QED BY <2>1, <2>3, OthersKeep
<1> QED BY <1>1, <1>2

LEMMA HaltInit == Init => HaltInv
BY DEF Init, HaltInv, Owes

LEMMA HaltStep == TypeOK /\ HaltInv /\ [Next]_vars => HaltInv'
<1> SUFFICES ASSUME TypeOK, HaltInv, [Next]_vars PROVE HaltInv'
  OBVIOUS
<1>1. CASE UNCHANGED vars \/ CancelParent \/ HandlersReturn \/ DeliveryEnds
  <2>1. UNCHANGED <<mode, mustHalt, crashed, agenda>>
    BY <1>1 DEF CancelParent, HandlersReturn, DeliveryEnds, vars
  <2> QED BY <2>1, OthersKeep
<1> QED BY <1>1, ProceedKeeps, WorkerKeeps, UserKeeps, CallerKeeps DEF Next

LEMMA HaltImplied == HaltInv => HaltsWhenItMust
<1>1. ~Ahead(<<>>, {"halt"}) /\ ~Ahead(<<>>, {"halt", "check_live"})
  BY FirstAhead
<1> QED BY <1>1 DEF HaltInv, Owes, HaltsWhenItMust

\* No reason to halt is lost (ntpSyncWorker, handleStreamEvent, recoverWorker): when
\* the handler that met it is over the engine is halted, whatever workers, users
\* and callers of Stop did meanwhile, unless a user changed the mode.
THEOREM HaltTheorem == Spec => []HaltsWhenItMust
BY TypeInit, TypeStep, HaltInit, HaltStep, HaltImplied, PTL DEF Spec

-----------------------------------------------------------------------------
(* CleanShutdown *)

\* The steps that only Shutdown makes.
Own == {"begin", "begin_halt", "list", "cancel_orders", "unload", "close", "close_done"}

InStop(c) == ~Ahead(agenda[c], Own)

\* What Shutdown has still to do from its k-th step on.
Rest(k) == SubSeq(ShutdownSteps, k, 11)

\* The caller is before the k-th step of Shutdown, or in what comes before it: a
\* transition to halted, or the wait for the delivery goroutines.
InPlace(c, k) ==
  \/ agenda[c] = Rest(k)
  \/ \E s \in {"begin_halt", "stop_halt", "notify", "drain"} : agenda[c] = <<s>> \o Rest(k)

\* What the steps before the k-th have left, if they met no error.
Behind(c, k) ==
  ~failed[c] =>
    /\ \A o \in Orders : order[o] # "left" /\ (k > 3 => order[o] # "listed")
    /\ k > 5 => storage = "closed"
    /\ k > 6 => bus = "closed"
    /\ k > 9 => \A w \in Workers : phase[w] = "exited"

Shutting(c) == done = "running" /\ \E k \in 1..11 : InPlace(c, k) /\ Behind(c, k)

ShutInv ==
  /\ \A c \in Callers : InStop(c) \/ Shutting(c)
  /\ \A c, d \in Callers : ~InStop(c) /\ ~InStop(d) => c = d
  /\ done = "no" => \A o \in Orders : order[o] = "open"
  /\ \A c \in Callers : told[c] # "nothing" => done = "over"
  /\ CleanShutdown

\* The steps of Shutdown with those of its Stop, one by one.
LEMMA ShutdownStepsAre ==
  /\ ShutdownSteps \in Seq(Steps) /\ Len(ShutdownSteps) = 11
  /\ ShutdownSteps[1] = "begin" /\ ShutdownSteps[2] = "list"
  /\ ShutdownSteps[3] = "cancel_orders" /\ ShutdownSteps[4] = "unload"
  /\ ShutdownSteps[5] = "close" /\ ShutdownSteps[6] = "shutdown_bus"
  /\ ShutdownSteps[7] = "stop" /\ ShutdownSteps[8] = "cancel"
  /\ ShutdownSteps[9] = "wait" /\ ShutdownSteps[10] = "shutdown_bus"
  /\ ShutdownSteps[11] = "close_done"
<1> DEFINE first == <<"begin", "list", "cancel_orders", "unload", "close", "shutdown_bus">>
           two == first \o StopSteps
<1>1. first \in Seq(Steps) /\ StopSteps \in Seq(Steps) /\ <<"close_done">> \in Seq(Steps)
  BY DEF Steps, StopSteps
<1>2. /\ Len(first) = 6 /\ first[1] = "begin" /\ first[2] = "list"
      /\ first[3] = "cancel_orders" /\ first[4] = "unload" /\ first[5] = "close"
      /\ first[6] = "shutdown_bus"
      /\ Len(StopSteps) = 4 /\ StopSteps[1] = "stop" /\ StopSteps[2] = "cancel"
      /\ StopSteps[3] = "wait" /\ StopSteps[4] = "shutdown_bus"
      /\ Len(<<"close_done">>) = 1 /\ <<"close_done">>[1] = "close_done"
  BY DEF StopSteps
<1>3. ShutdownSteps = two \o <<"close_done">>
  BY DEF ShutdownSteps
<1> HIDE DEF first
<1>4. /\ two \in Seq(Steps) /\ Len(two) = 10
      /\ \A i \in 1..10 : two[i] = IF i <= 6 THEN first[i] ELSE StopSteps[i - 6]
  <2>1. /\ two \in Seq(Steps) /\ Len(two) = Len(first) + Len(StopSteps)
        /\ \A i \in 1..Len(first) + Len(StopSteps) :
             two[i] = IF i <= Len(first) THEN first[i] ELSE StopSteps[i - Len(first)]
    BY <1>1, ConcatProperties
  <2> QED BY <1>2, <2>1, SMTT(30)
<1> HIDE DEF two
<1>5. /\ ShutdownSteps \in Seq(Steps) /\ Len(ShutdownSteps) = 11
      /\ \A i \in 1..11 :
           ShutdownSteps[i] = IF i <= 10 THEN two[i] ELSE <<"close_done">>[i - 10]
  <2> DEFINE last == <<"close_done">>
  <2>1. last \in Seq(Steps) /\ Len(last) = 1
    BY <1>1, <1>2
  <2> HIDE DEF last
  <2>2. /\ two \o last \in Seq(Steps) /\ Len(two \o last) = Len(two) + Len(last)
        /\ \A i \in 1..Len(two) + Len(last) :
             (two \o last)[i] = IF i <= Len(two) THEN two[i] ELSE last[i - Len(two)]
    BY <1>4, <2>1, ConcatProperties
  <2>3. \A i \in 1..11 : (two \o last)[i] = IF i <= 10 THEN two[i] ELSE last[i - 10]
    BY <1>4, <2>1, <2>2
  <2>4. Len(two \o last) = 11
    BY <1>4, <2>1, <2>2
  <2>5. ShutdownSteps = two \o last
    BY <1>3 DEF last
  <2> QED BY <2>2, <2>3, <2>4, <2>5 DEF last
<1> QED BY <1>2, <1>4, <1>5

\* What is left from the k-th step on begins with it and goes on with the next.
LEMMA RestIs ==
  ASSUME NEW k \in 1..11
  PROVE  /\ Rest(k) \in Seq(Steps) /\ Rest(k) # <<>>
         /\ Head(Rest(k)) = ShutdownSteps[k]
         /\ Rest(k)[Len(Rest(k))] = "close_done"
         /\ k < 11 => Tail(Rest(k)) = Rest(k + 1)
         /\ k = 11 => Tail(Rest(k)) = <<>>
<1>1. /\ ShutdownSteps \in Seq(Steps) /\ Len(ShutdownSteps) = 11
      /\ ShutdownSteps[11] = "close_done"
  BY ShutdownStepsAre
<1>2. \A i \in k..11 : ShutdownSteps[i] \in Steps
  <2>1. \A i \in 1..Len(ShutdownSteps) : ShutdownSteps[i] \in Steps
    BY <1>1, ElementOfSeq
  <2> QED BY <1>1, <2>1
<1>3. /\ Rest(k) \in Seq(Steps) /\ Len(Rest(k)) = 12 - k
      /\ \A i \in 1..12 - k : Rest(k)[i] = ShutdownSteps[k + i - 1]
  BY <1>2, SubSeqProperties DEF Rest
<1>4. Rest(k) # <<>>
  BY <1>3
<1>5. Rest(k)[12 - k] = ShutdownSteps[11]
  BY <1>3
<1>6. /\ Head(Rest(k)) = ShutdownSteps[k]
      /\ Tail(Rest(k)) = SubSeq(ShutdownSteps, k + 1, 11)
  BY <1>1, HeadTailOfSubSeq DEF Rest
<1>7. k = 11 => SubSeq(ShutdownSteps, k + 1, 11) = <<>>
  BY SubSeqEmpty
<1> QED BY <1>1, <1>3, <1>4, <1>5, <1>6, <1>7 DEF Rest

\* One step put before others.
LEMMA OneBefore ==
  ASSUME NEW s \in Steps, NEW q \in Seq(Steps)
  PROVE  /\ <<s>> \o q \in Seq(Steps) /\ <<s>> \o q # <<>>
         /\ Head(<<s>> \o q) = s /\ Tail(<<s>> \o q) = q
         /\ Len(<<s>> \o q) = Len(q) + 1
         /\ q # <<>> => (<<s>> \o q)[Len(<<s>> \o q)] = q[Len(q)]
<1>1. /\ <<s>> \o q \in Seq(Steps) /\ Len(<<s>> \o q) = Len(q) + 1
      /\ (<<s>> \o q)[1] = s
      /\ \A i \in 1..Len(q) : (<<s>> \o q)[i + 1] = q[i]
      /\ Len(q) \in Nat
  OBVIOUS
<1>2. <<s>> \o q # <<>> /\ Head(<<s>> \o q) = s
  BY <1>1
<1>3. /\ Tail(<<s>> \o q) \in Seq(Steps) /\ Len(Tail(<<s>> \o q)) = Len(q)
      /\ \A i \in 1..Len(q) : Tail(<<s>> \o q)[i] = q[i]
  BY <1>1, <1>2
<1>4. Tail(<<s>> \o q) = q
  BY <1>3, SeqEqual
<1>5. ASSUME q # <<>> PROVE (<<s>> \o q)[Len(<<s>> \o q)] = q[Len(q)]
  <2>1. Len(q) \in 1..Len(q)
    BY <1>1, <1>5
  <2> QED BY <1>1, <2>1
<1> QED BY <1>1, <1>2, <1>4, <1>5

\* The first and the last remainder.
LEMMA RestEnds == Rest(1) = ShutdownSteps /\ Rest(11) = <<"close_done">>
<1>1. /\ ShutdownSteps \in Seq(Steps) /\ Len(ShutdownSteps) = 11
      /\ ShutdownSteps[11] = "close_done"
  BY ShutdownStepsAre
<1>2. Rest(1) = ShutdownSteps
  BY <1>1, SubSeqFull DEF Rest
<1>3. /\ Rest(11) \in Seq(Steps) /\ Len(Rest(11)) = 1 /\ Rest(11)[1] = "close_done"
  BY <1>1, SubSeqProperties DEF Rest, Steps
<1>4. /\ <<"close_done">> \in Seq(Steps) /\ Len(<<"close_done">>) = 1
      /\ <<"close_done">>[1] = "close_done"
  BY DEF Steps
<1>5. Rest(11) = <<"close_done">>
  BY <1>3, <1>4, SeqEqual
<1> QED BY <1>2, <1>5

\* The steps that Shutdown and Stop put before the others.
Before == {"begin_halt", "stop_halt", "notify", "drain"}

\* The next step of a caller in its place.
LEMMA PlaceHead ==
  ASSUME NEW c \in Callers, NEW k \in 1..11, NEW s, InPlace(c, k), At(c, s)
  PROVE  /\ agenda[c] # <<>> /\ agenda[c][Len(agenda[c])] = "close_done"
         /\ \/ s \in Before /\ Tail(agenda[c]) = Rest(k)
            \/ s = ShutdownSteps[k] /\ s \notin Before /\ Tail(agenda[c]) = Tail(Rest(k))
<1>1. Before \subseteq Steps
  BY DEF Before, Steps
<1>2. CASE agenda[c] = Rest(k)
  <2>1. s = ShutdownSteps[k]
    BY <1>2, RestIs DEF At
  <2>2. s \notin Before
    BY <2>1, ShutdownStepsAre DEF Before
  <2> QED BY <1>2, <2>1, <2>2, RestIs
<1>3. ASSUME NEW b \in Before, agenda[c] = <<b>> \o Rest(k)
      PROVE  /\ agenda[c] # <<>> /\ agenda[c][Len(agenda[c])] = "close_done"
             /\ s \in Before /\ Tail(agenda[c]) = Rest(k)
  <2>1. b \in Steps /\ Rest(k) \in Seq(Steps) /\ Rest(k) # <<>>
        /\ Rest(k)[Len(Rest(k))] = "close_done"
    BY <1>1, RestIs
  <2>2. /\ agenda[c] # <<>> /\ Head(agenda[c]) = b /\ Tail(agenda[c]) = Rest(k)
        /\ agenda[c][Len(agenda[c])] = "close_done"
    BY <1>3, <2>1, OneBefore
  <2> QED BY <2>2 DEF At
<1> QED BY <1>2, <1>3 DEF InPlace, Before

\* Where a step leads to.
LEMMA PlaceNext ==
  ASSUME TypeOK, NEW c \in Callers, NEW k \in 1..11, NEW s, InPlace(c, k), At(c, s),
         \/ Continue(c) \/ ContinueWith(c, Told) \/ ContinueWith(c, <<"drain">>)
         \/ ContinueWith(c, <<"begin_halt">>) \/ ContinueWith(c, <<"stop_halt">>)
  PROVE  /\ \A d \in Callers : d # c => agenda'[d] = agenda[d]
         /\ s \in Before => InPlace(c, k)'
         /\ s \notin Before => s = ShutdownSteps[k] /\ (k < 11 => InPlace(c, k + 1)')
<1> DEFINE rest == Tail(agenda[c])
<1>1. /\ agenda[c] \in Seq(Steps) /\ c \in Actors /\ agenda[c] # <<>>
      /\ \/ s \in Before /\ rest = Rest(k)
         \/ s = ShutdownSteps[k] /\ s \notin Before /\ (k < 11 => rest = Rest(k + 1))
  <2>1. agenda[c] \in Seq(Steps) /\ c \in Actors
    BY DEF TypeOK, Actors
  <2>2. k < 11 => Tail(Rest(k)) = Rest(k + 1)
    BY RestIs
  <2>3. /\ agenda[c] # <<>>
        /\ \/ s \in Before /\ rest = Rest(k)
           \/ s = ShutdownSteps[k] /\ s \notin Before /\ rest = Tail(Rest(k))
    BY PlaceHead
  <2> QED BY <2>1, <2>2, <2>3
<1>2. rest \in Seq(Steps)
  BY <1>1
<1>3. /\ \A d \in Callers : d # c => agenda'[d] = agenda[d]
      /\ agenda'[c] = rest \/ \E b \in Before : agenda'[c] = <<b>> \o rest
  <2> HIDE DEF rest
  <2>1. CASE Continue(c)
    BY <1>1, <2>1 DEF Continue, TypeOK, Actors, rest
  <2>2. ASSUME NEW b \in Before, ContinueWith(c, <<b>>)
        PROVE  /\ \A d \in Callers : d # c => agenda'[d] = agenda[d]
               /\ agenda'[c] = <<b>> \o rest
    BY <1>1, <2>2 DEF ContinueWith, TypeOK, Actors, rest
  <2>3. CASE ContinueWith(c, <<>>)
    <3>1. /\ agenda'[c] = <<>> \o rest
          /\ \A d \in Callers : d # c => agenda'[d] = agenda[d]
      BY <1>1, <2>3 DEF ContinueWith, TypeOK, Actors, rest
    <3>2. <<>> \o rest = rest
      BY <1>2, ConcatEmptySeq
    <3> QED BY <3>1, <3>2
  <2>4. /\ Told = <<"notify">> \/ Told = <<>>
        /\ "notify" \in Before /\ "begin_halt" \in Before /\ "stop_halt" \in Before
        /\ "drain" \in Before
    BY DEF Told, Before
  <2> QED BY <2>1, <2>2, <2>3, <2>4
<1> HIDE DEF rest
<1>4. \A n : rest = Rest(n) => InPlace(c, n)'
  BY <1>3 DEF InPlace, Before, Rest
<1> QED BY <1>1, <1>3, <1>4

\* The caller in Shutdown stays in its place or comes to the next one.
LEMMA OneShuts ==
  ASSUME TypeOK, ShutInv, NEW c \in Callers, ~InStop(c), done' = done, told' = told,
         \A d \in Callers : d # c => agenda'[d] = agenda[d],
         \E k \in 1..11 : InPlace(c, k)' /\ Behind(c, k)'
  PROVE  ShutInv'
<1>1. done = "running" /\ done' = "running"
  BY DEF ShutInv, Shutting
<1>2. Shutting(c)'
  BY <1>1 DEF Shutting
<1>3. \A d \in Callers : d # c => InStop(d)'
  BY DEF ShutInv, InStop
<1>4. \A d \in Callers : told'[d] = "nothing"
  BY <1>1 DEF ShutInv
<1>5. CleanShutdown'
  BY <1>4 DEF CleanShutdown
<1> QED BY <1>1, <1>2, <1>3, <1>4, <1>5 DEF ShutInv

\* A step that undoes nothing of Shutdown, by another or by a caller of Stop.
LEMMA ShutFrame ==
  ASSUME TypeOK, ShutInv, UNCHANGED <<done, order, storage>>,
         bus = "closed" => bus' = "closed",
         \A w \in Workers : phase[w] = "exited" => phase'[w] = "exited",
         \A c \in Callers :
           told'[c] \in {told[c], "nothing"} \cup (IF done = "over" THEN {"already"} ELSE {}),
         \A c \in Callers :
           \/ agenda'[c] = agenda[c] /\ failed'[c] = failed[c]
           \/ InStop(c) /\ InStop(c)'
  PROVE  ShutInv'
<1>1. ASSUME NEW c \in Callers PROVE (InStop(c) \/ Shutting(c))' /\ (InStop(c) => InStop(c)')
  <2>1. CASE agenda'[c] = agenda[c] /\ failed'[c] = failed[c]
    <3>1. InStop(c) => InStop(c)'
      BY <2>1 DEF InStop
    <3>2. Shutting(c) => Shutting(c)'
      <4> SUFFICES ASSUME Shutting(c) PROVE Shutting(c)'
        OBVIOUS
      <4>1. PICK k \in 1..11 : InPlace(c, k) /\ Behind(c, k)
        BY DEF Shutting
      <4>2. InPlace(c, k)'
        BY <2>1, <4>1 DEF InPlace, Rest
      <4>3. Behind(c, k)'
        BY <2>1, <4>1 DEF Behind
      <4> QED BY <4>2, <4>3 DEF Shutting
    <3> QED BY <3>1, <3>2 DEF ShutInv
  <2>2. CASE InStop(c) /\ InStop(c)'
    BY <2>2
  <2> QED BY <2>1, <2>2
<1>2. \A c, d \in Callers : ~InStop(c)' /\ ~InStop(d)' => c = d
  BY <1>1 DEF ShutInv
<1>3. CleanShutdown'
  BY DEF ShutInv, CleanShutdown, NothingLeft
<1>4. \A c \in Callers : told'[c] # "nothing" => done' = "over"
  BY DEF ShutInv
<1> QED BY <1>1, <1>2, <1>3, <1>4 DEF ShutInv

\* A step of Shutdown leaves behind what the next place asks for.
LEMMA ShutdownStepKeeps ==
  ASSUME TypeOK, ShutInv, NEW c \in Callers, ~InStop(c), CallerStep(c)
  PROVE  ShutInv'
<1>1. PICK k \in 1..11 : InPlace(c, k) /\ Behind(c, k)
  BY DEF ShutInv, Shutting
<1>2. \A s : At(c, s) /\ s \notin Before =>
        \/ s = "begin" /\ k = 1
        \/ s = "list" /\ k = 2
        \/ s = "cancel_orders" /\ k = 3
        \/ s = "unload" /\ k = 4
        \/ s = "close" /\ k = 5
        \/ s = "stop" /\ k = 7
        \/ s = "cancel" /\ k = 8
        \/ s = "wait" /\ k = 9
        \/ s = "close_done" /\ k = 11
        \/ s = "shutdown_bus" /\ k \in {6, 10}
  <2>1. \A s : At(c, s) /\ s \notin Before => s = ShutdownSteps[k]
    BY <1>1, PlaceHead
  <2> QED BY <2>1, ShutdownStepsAre
<1>3. ASSUME NEW s, At(c, s), s \notin Before, k < 11, UNCHANGED <<done, told>>,
             Behind(c, k + 1)',
             \/ Continue(c) \/ ContinueWith(c, Told) \/ ContinueWith(c, <<"drain">>)
             \/ ContinueWith(c, <<"begin_halt">>) \/ ContinueWith(c, <<"stop_halt">>)
      PROVE  ShutInv'
  <2>1. /\ \A d \in Callers : d # c => agenda'[d] = agenda[d]
        /\ InPlace(c, k + 1)'
    BY <1>1, <1>3, PlaceNext
  <2>2. k + 1 \in 1..11
    BY <1>3
  <2> QED BY <1>3, <2>1, <2>2, OneShuts
<1>4. ASSUME NEW s, At(c, s), s \in Before, UNCHANGED <<done, told>>, Behind(c, k)',
             Continue(c) \/ ContinueWith(c, Told)
      PROVE  ShutInv'
  <2>1. /\ \A d \in Callers : d # c => agenda'[d] = agenda[d]
        /\ InPlace(c, k)'
    BY <1>1, <1>4, PlaceNext
  <2> QED BY <1>4, <2>1, OneShuts
<1>5. UNCHANGED <<order, storage, bus, phase, failed>> => Behind(c, k)'
  BY <1>1 DEF Behind
<1>6. failed'[c] => \A n : Behind(c, n)'
  BY DEF Behind
<1>7. CASE Notify(c)
  <2>1. /\ At(c, "notify") /\ "notify" \in Before /\ Continue(c) /\ UNCHANGED <<done, told>>
        /\ UNCHANGED <<order, storage, bus, phase, failed>>
    BY <1>7 DEF Notify, Before, world, calls
  <2> QED BY <1>4, <1>5, <2>1
<1>8. CASE CheckHalted(c)
  <2>1. /\ UNCHANGED <<order, storage, bus, phase, failed, done, told>>
        /\ \/ At(c, "begin") /\ (Continue(c) \/ ContinueWith(c, <<"begin_halt">>))
           \/ At(c, "stop") /\ (Continue(c) \/ ContinueWith(c, <<"stop_halt">>))
    BY <1>8 DEF CheckHalted, world, calls
  <2>2. "begin" \notin Before /\ "stop" \notin Before
    BY DEF Before
  <2>3. k \in {1, 7}
    BY <1>2, <2>1, <2>2
  <2>4. Behind(c, k + 1)'
    BY <1>1, <2>1, <2>3 DEF Behind
  <2> QED BY <1>3, <2>1, <2>2, <2>3, <2>4
<1>9. CASE HaltFirst(c)
  <2>1. /\ At(c, "begin_halt") \/ At(c, "stop_halt")
        /\ "begin_halt" \in Before /\ "stop_halt" \in Before
        /\ ContinueWith(c, Told) /\ UNCHANGED <<done, told>>
        /\ UNCHANGED <<order, storage, bus, phase, failed>>
    BY <1>9 DEF HaltFirst, Before, world, calls
  <2> QED BY <1>4, <1>5, <2>1
<1>10. CASE HaltRefused(c)
  <2>1. failed'[c] /\ UNCHANGED <<done, told>>
    BY <1>10 DEF HaltRefused, TypeOK
  <2>2. CASE At(c, "begin_halt") /\ Continue(c)
    BY <1>4, <1>6, <2>1, <2>2 DEF Before
  <2>3. CASE /\ At(c, "stop_halt")
             /\ agenda' = [agenda EXCEPT ![c] = IF InShutdown(c) THEN <<"close_done">> ELSE <<>>]
    <3>1. InShutdown(c)
      BY <1>1, <2>3, PlaceHead DEF InShutdown
    <3>2. /\ \A d \in Callers : d # c => agenda'[d] = agenda[d]
          /\ agenda'[c] = <<"close_done">>
      BY <2>3, <3>1 DEF TypeOK, Actors
    <3>3. InPlace(c, 11)'
      BY <3>2, RestEnds DEF InPlace, Rest
    <3> QED BY <1>6, <2>1, <3>2, <3>3, OneShuts
  <2> QED BY <1>10, <2>2, <2>3 DEF HaltRefused
<1>11. CASE CancelContext(c)
  <2>1. /\ At(c, "cancel") /\ "cancel" \notin Before /\ Continue(c)
        /\ UNCHANGED <<order, storage, bus, phase, failed, done, told>>
    BY <1>11 DEF CancelContext, Before, world, calls
  <2>2. k = 8
    BY <1>2, <2>1
  <2>3. Behind(c, k + 1)'
    BY <1>1, <2>1, <2>2 DEF Behind
  <2> QED BY <1>3, <2>1, <2>2, <2>3
<1>12. CASE WorkersDone(c)
  <2>1. /\ At(c, "wait") /\ "wait" \notin Before /\ Continue(c)
        /\ UNCHANGED <<order, storage, bus, phase, failed, done, told>>
        /\ \A w \in Workers : phase[w] = "exited"
    BY <1>12 DEF WorkersDone, Before, world, calls
  <2>2. k = 9
    BY <1>2, <2>1
  <2>3. Behind(c, k + 1)'
    BY <1>1, <2>1, <2>2 DEF Behind
  <2> QED BY <1>3, <2>1, <2>2, <2>3
<1>13. CASE ShutdownBus(c)
  <2>1. /\ At(c, "shutdown_bus") /\ "shutdown_bus" \notin Before
        /\ Continue(c) \/ ContinueWith(c, <<"drain">>)
        /\ UNCHANGED <<order, storage, phase, failed, done, told>> /\ bus' = "closed"
    BY <1>13 DEF ShutdownBus, Before, calls
  <2>2. k \in {6, 10}
    BY <1>2, <2>1
  <2>3. Behind(c, k + 1)'
    BY <1>1, <2>1, <2>2 DEF Behind
  <2> QED BY <1>3, <2>1, <2>2, <2>3
<1>14. CASE ListOrders(c)
  <2>1. /\ At(c, "list") /\ "list" \notin Before /\ Continue(c) /\ UNCHANGED <<done, told>>
        /\ failed'[c] = failed[c] =>
             \A o \in Orders : order[o] # "left" => order'[o] # "left"
        /\ failed'[c] \/ failed'[c] = failed[c]
    BY <1>14 DEF ListOrders, Before, TypeOK
  <2>2. k = 2
    BY <1>2, <2>1
  <2>3. Behind(c, k + 1)'
    BY <1>1, <2>1, <2>2 DEF Behind
  <2> QED BY <1>3, <2>1, <2>2, <2>3
<1>15. ASSUME NEW o \in Orders, CancelListed(c, o) PROVE ShutInv'
  <2>1. /\ At(c, "cancel_orders") /\ "cancel_orders" \notin Before
        /\ UNCHANGED <<agenda, done, told, storage, bus, phase>>
        /\ \/ failed' = failed /\ order' = [order EXCEPT ![o] = "canceled"]
           \/ failed'[c]
    BY <1>15 DEF CancelListed, Before, TypeOK
  <2>2. k = 3
    BY <1>2, <2>1
  <2>3. Behind(c, k)'
    BY <1>1, <2>1, <2>2 DEF Behind, TypeOK
  <2>4. InPlace(c, k)'
    BY <1>1, <2>1 DEF InPlace, Rest
  <2> QED BY <2>1, <2>3, <2>4, OneShuts
<1>16. CASE CancelsDone(c)
  <2>1. /\ At(c, "cancel_orders") /\ "cancel_orders" \notin Before /\ Continue(c)
        /\ UNCHANGED <<order, storage, bus, phase, failed, done, told>>
        /\ \A o \in Orders : order[o] # "listed"
    BY <1>16 DEF CancelsDone, Before, world, calls
  <2>2. k = 3
    BY <1>2, <2>1
  <2>3. Behind(c, k + 1)'
    BY <1>1, <2>1, <2>2 DEF Behind
  <2> QED BY <1>3, <2>1, <2>2, <2>3
<1>17. CASE Close(c)
  <2>1. /\ Continue(c) /\ UNCHANGED <<order, bus, phase, done, told>>
        /\ failed'[c] \/ failed'[c] = failed[c]
        /\ \/ At(c, "unload") /\ UNCHANGED storage
           \/ At(c, "close") /\ (storage' = "closed" \/ failed'[c])
    BY <1>17 DEF Close, TypeOK
  <2>2. "unload" \notin Before /\ "close" \notin Before
    BY DEF Before
  <2>3. \/ k = 4 /\ UNCHANGED storage
        \/ k = 5 /\ (storage' = "closed" \/ failed'[c])
    BY <1>2, <2>1, <2>2
  <2>4. Behind(c, k + 1)'
    BY <1>1, <2>1, <2>3 DEF Behind
  <2> QED BY <1>3, <2>1, <2>2, <2>3, <2>4
<1>18. CASE CloseDone(c)
  <2>1. /\ At(c, "close_done") /\ "close_done" \notin Before /\ Continue(c)
        /\ UNCHANGED <<order, storage, bus, phase>>
        /\ done' = "over"
        /\ told' = [told EXCEPT ![c] = IF failed[c] THEN "errors" ELSE "nil"]
    BY <1>18 DEF CloseDone, Before, world
  <2>2. k = 11
    BY <1>2, <2>1
  <2>3. agenda[c] # <<>> /\ Tail(agenda[c]) = <<>>
    BY <1>1, <2>1, <2>2, PlaceHead, RestIs, ZenonT(60)
  <2>4. /\ \A d \in Callers : d # c => agenda'[d] = agenda[d]
        /\ agenda'[c] = <<>>
    BY <2>1, <2>3 DEF Continue, TypeOK, Actors
  <2>5. InStop(c)'
    BY <2>4, FirstAhead DEF InStop
  <2>6. \A d \in Callers : InStop(d)'
    BY <2>4, <2>5 DEF ShutInv, InStop
  <2>7. \A d \in Callers : d # c => told'[d] = "nothing"
    BY <2>1 DEF ShutInv, Shutting, TypeOK
  <2>8. told'[c] = "nil" => ~failed[c]
    BY <2>1 DEF TypeOK
  <2>9. told'[c] # "already"
    BY <2>1 DEF TypeOK
  <2>10. CleanShutdown'
    BY <1>1, <2>1, <2>2, <2>7, <2>8, <2>9 DEF Behind, CleanShutdown, NothingLeft
  <2> QED BY <2>1, <2>6, <2>10 DEF ShutInv
<1>19. CASE Drained(c)
  <2>1. /\ At(c, "drain") /\ "drain" \in Before /\ Continue(c) /\ UNCHANGED <<done, told>>
        /\ UNCHANGED <<order, storage, bus, phase, failed>>
    BY <1>19 DEF Drained, Before, world, calls
  <2> QED BY <1>4, <1>5, <2>1
<1>20. ~Lock(c)
  <2>1. "lock" \notin Before
    BY DEF Before
  <2> QED BY <1>2, <2>1 DEF Lock
<1> QED BY <1>7, <1>8, <1>9, <1>10, <1>11, <1>12, <1>13, <1>14, <1>15, <1>16, <1>17, <1>18,
           <1>19, <1>20 DEF CallerStep

\* A caller of Stop alone has none of Shutdown's steps ahead, and takes none.
LEMMA StopAgenda ==
  ASSUME TypeOK, NEW c \in Callers, InStop(c), agenda[c] # <<>>,
         \/ Continue(c) \/ ContinueWith(c, Told) \/ ContinueWith(c, <<"stop_halt">>)
         \/ ContinueWith(c, <<"drain">>)
  PROVE  /\ InStop(c)'
         /\ \A d \in Callers : d # c => agenda'[d] = agenda[d]
<1> DEFINE rest == Tail(agenda[c])
<1>1. agenda[c] \in Seq(Steps) /\ c \in Actors
  BY DEF TypeOK, Actors
<1>2. /\ rest \in Seq(Steps) /\ Len(rest) = Len(agenda[c]) - 1
      /\ \A i \in 1..Len(rest) : rest[i] = agenda[c][i + 1]
      /\ Len(agenda[c]) \in Nat
  BY <1>1
<1>3. ~Ahead(rest, Own)
  <2> SUFFICES ASSUME NEW i \in 1..Len(rest) PROVE rest[i] \notin Own
    BY DEF Ahead
  <2>1. i + 1 \in 1..Len(agenda[c]) /\ rest[i] = agenda[c][i + 1]
    BY <1>2
  <2> QED BY <2>1 DEF InStop, Ahead
<1>4. ASSUME NEW s \in Steps, s \notin Own PROVE ~Ahead(<<s>> \o rest, Own)
  <2> SUFFICES ASSUME NEW i \in 1..Len(<<s>> \o rest) PROVE (<<s>> \o rest)[i] \notin Own
    BY DEF Ahead
  <2>1. /\ <<s>> \in Seq(Steps) /\ Len(<<s>>) = 1 /\ <<s>>[1] = s
        /\ Len(<<s>> \o rest) = Len(<<s>>) + Len(rest)
        /\ \A j \in 1..Len(<<s>>) + Len(rest) : (<<s>> \o rest)[j] =
             IF j <= Len(<<s>>) THEN <<s>>[j] ELSE rest[j - Len(<<s>>)]
    BY <1>2, ConcatProperties
  <2>2. (<<s>> \o rest)[i] = s \/ (i - 1 \in 1..Len(rest) /\ (<<s>> \o rest)[i] = rest[i - 1])
    BY <1>2, <2>1
  <2> QED BY <1>3, <1>4, <2>2 DEF Ahead
<1>5. /\ "notify" \in Steps /\ "notify" \notin Own
      /\ "stop_halt" \in Steps /\ "stop_halt" \notin Own
      /\ "drain" \in Steps /\ "drain" \notin Own
  BY DEF Steps, Own
<1>6. /\ \A d \in Callers : d # c => agenda'[d] = agenda[d]
      /\ agenda'[c] \in {rest, <<>> \o rest, <<"notify">> \o rest, <<"stop_halt">> \o rest,
                         <<"drain">> \o rest}
  BY <1>1 DEF Continue, ContinueWith, Told, TypeOK, Actors
<1>7. <<>> \o rest = rest
  BY <1>2, ConcatEmptySeq
<1> HIDE DEF rest
<1>8. ~Ahead(agenda'[c], Own)
  BY <1>3, <1>4, <1>5, <1>6, <1>7
<1> QED BY <1>6, <1>8 DEF InStop

\* A step of Stop alone leaves what a Shutdown beside it has done.
LEMMA StopStepKeeps ==
  ASSUME TypeOK, ShutInv, NEW c \in Callers, InStop(c), CallerStep(c), ~Lock(c)
  PROVE  ShutInv'
<1>1. \A s \in Own : ~At(c, s)
  <2> SUFFICES ASSUME NEW s \in Own, At(c, s) PROVE FALSE
    OBVIOUS
  <2>1. agenda[c] \in Seq(Steps) /\ agenda[c] # <<>> /\ Head(agenda[c]) = s
    BY DEF At, TypeOK, Actors
  <2>2. 1 \in 1..Len(agenda[c]) /\ agenda[c][1] = s
    BY <2>1
  <2> QED BY <2>2 DEF InStop, Ahead
<1>2. \/ Notify(c) \/ CheckHalted(c) \/ HaltFirst(c) \/ HaltRefused(c)
      \/ CancelContext(c) \/ WorkersDone(c) \/ ShutdownBus(c) \/ Drained(c)
  BY <1>1 DEF CallerStep, ListOrders, CancelListed, CancelsDone, Close, CloseDone, Own
<1>3. agenda[c] # <<>> /\ ~InShutdown(c)
  <2>1. agenda[c] \in Seq(Steps) /\ agenda[c] # <<>>
    BY <1>2 DEF Notify, CheckHalted, HaltFirst, HaltRefused, CancelContext, WorkersDone,
           ShutdownBus, Drained, At, TypeOK, Actors
  <2>2. Len(agenda[c]) \in 1..Len(agenda[c])
    BY <2>1
  <2> QED BY <2>1, <2>2 DEF InStop, InShutdown, Ahead, Own
<1>4. /\ UNCHANGED <<done, told, order, storage, phase>>
      /\ bus = "closed" => bus' = "closed"
      /\ \A d \in Callers : d # c => failed'[d] = failed[d]
  BY <1>2 DEF Notify, CheckHalted, HaltFirst, HaltRefused, CancelContext, WorkersDone,
         ShutdownBus, Drained, world, calls, TypeOK
<1>5. \/ Continue(c) \/ ContinueWith(c, Told) \/ ContinueWith(c, <<"stop_halt">>)
      \/ ContinueWith(c, <<"drain">>)
      \/ agenda' = [agenda EXCEPT ![c] = <<>>]
  BY <1>1, <1>2, <1>3 DEF Notify, CheckHalted, HaltFirst, HaltRefused, CancelContext,
         WorkersDone, ShutdownBus, Drained, Own
<1>6. /\ InStop(c)'
      /\ \A d \in Callers : d # c => agenda'[d] = agenda[d]
  <2>1. CASE agenda' = [agenda EXCEPT ![c] = <<>>]
    <3>1. /\ agenda'[c] = <<>>
          /\ \A d \in Callers : d # c => agenda'[d] = agenda[d]
      BY <2>1 DEF TypeOK, Actors
    <3> QED BY <3>1, FirstAhead DEF InStop
  <2> QED BY <1>3, <1>5, <2>1, StopAgenda
<1> QED BY <1>4, <1>6, ShutFrame

\* A call begins: it has the steps of Stop ahead, or the lock of Shutdown.
LEMMA CallKeeps ==
  ASSUME TypeOK, ShutInv, NEW c \in Callers, StopCall(c) \/ ShutdownCall(c)
  PROVE  ShutInv'
<1>1. PICK steps \in {StopSteps, <<"lock">>} : Call(c, steps)
  BY DEF StopCall, ShutdownCall
<1>2. /\ agenda[c] = <<>> /\ agenda'[c] = steps
      /\ \A d \in Callers : d # c => agenda'[d] = agenda[d] /\ failed'[d] = failed[d]
      /\ UNCHANGED <<order, storage, bus, phase, done>>
  <2>1. /\ agenda[c] = <<>> /\ agenda' = [agenda EXCEPT ![c] = steps]
        /\ failed' = [failed EXCEPT ![c] = FALSE]
        /\ UNCHANGED <<order, storage, bus, phase, done>>
    BY <1>1 DEF Call, world
  <2> QED BY <2>1 DEF TypeOK, Actors
<1>3. InStop(c)
  BY <1>2, FirstAhead DEF InStop
<1>4. ~Ahead(StopSteps, Own) /\ ~Ahead(<<"lock">>, Own)
  <2>1. /\ Len(StopSteps) = 4 /\ StopSteps[1] \notin Own /\ StopSteps[2] \notin Own
        /\ StopSteps[3] \notin Own /\ StopSteps[4] \notin Own
    BY DEF StopSteps, Own
  <2>2. Len(<<"lock">>) = 1 /\ <<"lock">>[1] \notin Own
    BY DEF Own
  <2> QED BY <2>1, <2>2 DEF Ahead
<1>5. InStop(c)'
  BY <1>2, <1>4 DEF InStop
<1>6. \A d \in Callers : told'[d] \in {told[d], "nothing"}
  BY DEF StopCall, ShutdownCall, TypeOK
<1> QED BY <1>2, <1>3, <1>5, <1>6, ShutFrame

\* Shutdown has got its lock: the first call begins with its steps, a later one
\* returns.
LEMMA LockKeeps ==
  ASSUME TypeOK, ShutInv, NEW c \in Callers, InStop(c), Lock(c)
  PROVE  ShutInv'
<1>1. UNCHANGED <<order, storage, bus, phase, failed>>
  BY DEF Lock, world
<1>2. CASE done = "no"
  <2>1. /\ done' = "running" /\ told' = told
        /\ agenda' = [agenda EXCEPT ![c] = ShutdownSteps]
    BY <1>2 DEF Lock
  <2>2. /\ agenda'[c] = ShutdownSteps
        /\ \A d \in Callers : d # c => agenda'[d] = agenda[d]
    BY <2>1 DEF TypeOK, Actors
  <2>3. \A d \in Callers : d # c => InStop(d)'
    BY <1>2, <2>2 DEF ShutInv, Shutting, InStop
  <2>4. InPlace(c, 1)'
    BY <2>2, RestEnds DEF InPlace, Rest
  <2>5. Behind(c, 1)'
    BY <1>1, <1>2 DEF Behind, ShutInv
  <2>6. Shutting(c)'
    BY <2>1, <2>4, <2>5 DEF Shutting
  <2>7. \A d \in Callers : told'[d] = "nothing"
    BY <1>2, <2>1 DEF ShutInv
  <2>8. CleanShutdown'
    BY <2>7 DEF CleanShutdown
  <2> QED BY <2>1, <2>3, <2>6, <2>7, <2>8 DEF ShutInv
<1>3. CASE done # "no"
  <2>1. /\ done = "over" /\ done' = done /\ told' = [told EXCEPT ![c] = "already"]
        /\ agenda' = [agenda EXCEPT ![c] = <<>>]
    BY <1>3 DEF Lock
  <2>2. /\ agenda'[c] = <<>>
        /\ \A d \in Callers : d # c => agenda'[d] = agenda[d]
    BY <2>1 DEF TypeOK, Actors
  <2>3. InStop(c)'
    BY <2>2, FirstAhead DEF InStop
  <2>4. \A d \in Callers : told'[d] = told[d] \/ told'[d] = "already"
    BY <2>1 DEF TypeOK
  <2> QED BY <1>1, <2>1, <2>2, <2>3, <2>4, ShutFrame
<1> QED BY <1>2, <1>3

\* The agendas of callers change by their own steps and by a crash alone, which
\* ends the workers with them.
LEMMA OthersLeaveShutdown ==
  ASSUME TypeOK, ShutInv,
         \/ UNCHANGED vars \/ CancelParent \/ HandlersReturn \/ DeliveryEnds
         \/ Start \/ ListenerReceives \/ Tick \/ StreamEvent
         \/ \E w \in Workers : Proceed(w) \/ Sent(w) \/ Exit(w) \/ Panic(w) \/ Crash(w)
         \/ \E u \in Users : Notify(u) \/ \E m \in UserModes : TransitionTo(u, m)
  PROVE  ShutInv'
<1>1. /\ UNCHANGED <<done, told, order, storage, bus, failed>>
      /\ \A w \in Workers : phase[w] = "exited" => phase'[w] = "exited"
  <2>1. CASE UNCHANGED vars \/ CancelParent \/ HandlersReturn \/ DeliveryEnds
    BY <2>1 DEF vars, CancelParent, HandlersReturn, DeliveryEnds, world, calls
  <2>2. CASE Start \/ ListenerReceives \/ Tick \/ StreamEvent
    BY <2>2 DEF Start, ListenerReceives, Tick, StreamEvent, Receive, world, calls
  <2>3. ASSUME NEW w \in Workers, Proceed(w) \/ Sent(w)
        PROVE  UNCHANGED <<done, told, order, storage, bus, failed, phase>>
    BY <2>3 DEF Proceed, Sent, Notify, Halt, Publish, Released, CheckLive, Reconciled,
           NTPAnswers, NTPFails, world, calls
  <2>4. ASSUME NEW w \in Workers, Exit(w) \/ Panic(w) \/ Crash(w)
        PROVE  <1>1!1 /\ <1>1!2
    BY <2>4 DEF Exit, Panic, Crash, TypeOK, world, calls
  <2>5. CASE \E u \in Users : Notify(u) \/ \E m \in UserModes : TransitionTo(u, m)
    BY <2>5 DEF Notify, TransitionTo, world, calls
  <2> QED BY <2>1, <2>2, <2>3, <2>4, <2>5
<1>2. CASE \E w \in Workers : Crash(w)
  <2>1. \A c \in Callers : agenda'[c] = <<>>
    BY <1>2 DEF Crash, Actors
  <2>2. \A c \in Callers : InStop(c)'
    BY <2>1, FirstAhead DEF InStop
  <2>3. CleanShutdown'
    BY <1>1 DEF ShutInv, CleanShutdown, NothingLeft
  <2> QED BY <1>1, <2>2, <2>3 DEF ShutInv
<1>3. CASE ~\E w \in Workers : Crash(w)
  <2>1. UNCHANGED agenda \/ \E a \in Actors \ Callers : \E steps :
                              agenda' = [agenda EXCEPT ![a] = steps]
    <3>1. Workers \cup Users \subseteq Actors \ Callers
      BY ActorsAssumption DEF Actors
    <3>2. CASE UNCHANGED vars \/ CancelParent \/ HandlersReturn \/ DeliveryEnds \/ Start
      BY <3>2 DEF vars, CancelParent, HandlersReturn, DeliveryEnds, Start
    <3>3. CASE ListenerReceives \/ Tick \/ StreamEvent
      BY <3>1, <3>3 DEF ListenerReceives, Tick, StreamEvent, Receive, Workers
    <3>4. ASSUME NEW w \in Workers, Proceed(w) \/ Sent(w) \/ Exit(w) \/ Panic(w)
          PROVE  UNCHANGED agenda \/ \E steps : agenda' = [agenda EXCEPT ![w] = steps]
      BY <3>4 DEF Proceed, Sent, Notify, Halt, Publish, Released, CheckLive, Reconciled,
             NTPAnswers, NTPFails, Exit, Panic, Continue, ContinueWith
    <3>5. ASSUME NEW u \in Users, Notify(u) \/ \E m \in UserModes : TransitionTo(u, m)
          PROVE  \E steps : agenda' = [agenda EXCEPT ![u] = steps]
      BY <3>5 DEF Notify, TransitionTo, Continue
    <3> QED BY <1>3, <3>1, <3>2, <3>3, <3>4, <3>5
  <2>2. \A c \in Callers : agenda'[c] = agenda[c]
    BY <2>1 DEF TypeOK, Actors
  <2> QED BY <1>1, <2>2, ShutFrame
<1> QED BY <1>2, <1>3

LEMMA ShutInit == Init => ShutInv
<1> SUFFICES ASSUME Init PROVE ShutInv
  OBVIOUS
<1>1. \A c \in Callers : InStop(c)
  BY FirstAhead DEF Init, InStop, Actors
<1>2. /\ done = "no" /\ \A o \in Orders : order[o] = "open"
      /\ \A c \in Callers : told[c] = "nothing"
  BY DEF Init
<1> QED BY <1>1, <1>2 DEF ShutInv, CleanShutdown

LEMMA ShutStep == TypeOK /\ ShutInv /\ [Next]_vars => ShutInv'
BY CallKeeps, LockKeeps, ShutdownStepKeeps, StopStepKeeps, OthersLeaveShutdown DEF Next

\* A GracefulShutdown that went through its steps and returns no error left no
\* worker running, the bus, the connector and the storage closed and no order it
\* listed open, whoever halts or stops the engine beside it; a later call returns
\* (without an error whatever the first one returned) when that one is over.
THEOREM CleanTheorem == Spec => []CleanShutdown
<1>1. ShutInv => CleanShutdown
  BY DEF ShutInv
<1> QED BY <1>1, TypeInit, TypeStep, ShutInit, ShutStep, PTL DEF Spec
=============================================================================
