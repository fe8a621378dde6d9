------------------------- MODULE OrderRouterProofs -------------------------
(***************************************************************************)
(* What the router promises for any number of callers, orders and events.  *)
(*                                                                         *)
(* DuplicatesExplained is not inductive: a call between its entry and the  *)
(* venue may still make a venue take its order.  Debt counts those calls   *)
(* with what was taken, and the standing entry with what was released.     *)
(* The last part is about the simulator: an order has one outcome, and its *)
(* balance and position add up while average prices come out whole.        *)
(***************************************************************************)
EXTENDS OrderRouter, FiniteSetTheorems, TLAPS

Places == Modes \cup {"entered", "failed", "accepted"}
Calls == [at : Places, order : Orders, id : Ids]

RouterType ==
  /\ DOMAIN inFlight \subseteq Orders
  /\ mode \in Modes
  /\ call \in [Callers -> {Idle} \cup Calls]
  /\ liveSent \in 0..MaxLive
  /\ taken \in [Orders -> Nat]
  /\ released \in [Orders -> Nat]

\* The calls with an entry of order o behind them and the venue's answer before them.
Sending(o) ==
  {c \in Callers : call[c].at \in Modes \cup {"entered"} /\ call[c].order = o}

Count(P) == IF P THEN 1 ELSE 0

Debt ==
  \A o \in Orders :
    taken[o] + Cardinality(Sending(o)) <= released[o] + Count(o \in DOMAIN inFlight)

AcceptedWasTaken ==
  \A c \in Callers : call[c].at = "accepted" => taken[call[c].order] > 0

LEMMA PlacesDiffer ==
  /\ "idle" \notin Modes \cup {"entered"}
  /\ "failed" \notin Modes \cup {"entered"}
  /\ "accepted" \notin Modes \cup {"entered"}
BY DEF Modes

(***************************************************************************)
(* Types                                                                   *)
(***************************************************************************)

LEMMA RouterTypeInit == Init => RouterType
BY RouterAssumption DEF Init, RouterType, Modes

\* A step of one caller that leaves its call in place, moves it on or ends it.
LEMMA CallType ==
  ASSUME call \in [Callers -> {Idle} \cup Calls],
         NEW c \in Callers, NEW k \in {Idle} \cup Calls,
         call' = [call EXCEPT ![c] = k]
  PROVE  call' \in [Callers -> {Idle} \cup Calls]
OBVIOUS

LEMMA Moved ==
  ASSUME NEW k \in Calls, NEW place \in Places
  PROVE  [k EXCEPT !.at = place] \in Calls
BY DEF Calls

LEMMA NotIdle ==
  ASSUME call \in [Callers -> {Idle} \cup Calls], NEW c \in Callers, call[c].at # "idle"
  PROVE  call[c] \in Calls
BY DEF Idle

LEMMA ReleaseType ==
  ASSUME RouterType, NEW S, Release(S)
  PROVE  /\ DOMAIN inFlight' = DOMAIN inFlight \ S
         /\ \A o \in Orders : released'[o] = released[o] + Count(o \in S /\ o \in DOMAIN inFlight)
         /\ released' \in [Orders -> Nat]
BY DEF RouterType, Release, Count

LEMMA EnterEffect ==
  ASSUME RouterType, NEW c \in Callers, NEW o \in Orders, Enter(c, o)
  PROVE  /\ DOMAIN inFlight' = DOMAIN inFlight \cup {o}
         /\ [at |-> "entered", order |-> o, id |-> None] \in Calls
         /\ call' = [call EXCEPT ![c] = [at |-> "entered", order |-> o, id |-> None]]
BY DEF Enter, Calls, Places, Ids

LEMMA RouterTypeStep == RouterType /\ [Next]_vars => RouterType'
<1> SUFFICES ASSUME RouterType, [Next]_vars PROVE RouterType'
  OBVIOUS
<1>1. ASSUME NEW c \in Callers, NEW o \in Orders, Enter(c, o) PROVE RouterType'
  BY <1>1, EnterEffect, CallType DEF RouterType, Enter
<1>2. ASSUME NEW c \in Callers, Route(c) PROVE RouterType'
  <2>1. call[c] \in Calls /\ mode \in Places
    BY <1>2, NotIdle DEF RouterType, Route, Places
  <2>2. call' = [call EXCEPT ![c] = [call[c] EXCEPT !.at = mode]]
    BY <1>2 DEF Route, Goto
  <2> QED BY <1>2, <2>1, <2>2, Moved, CallType DEF RouterType, Route
<1>3. ASSUME NEW c \in Callers, SendPaper(c) PROVE RouterType'
  <2>1. PICK i \in PaperIds : Take(c) /\ Accept(c, <<"paper", i>>)
    BY <1>3 DEF SendPaper
  <2>2. call[c] \in Calls
    BY <1>3, NotIdle DEF RouterType, SendPaper
  <2>3. <<"paper", i>> \in Ids
    BY SimulatorAssumption, RouterAssumption DEF Ids, PaperIds, Modes
  <2>4. [call[c] EXCEPT !.at = "accepted", !.id = <<"paper", i>>] \in Calls
    BY <2>2, <2>3 DEF Calls, Places
  <2>5. call' = [call EXCEPT ![c] = [call[c] EXCEPT !.at = "accepted", !.id = <<"paper", i>>]]
    BY <2>1 DEF Accept
  <2>6. taken' \in [Orders -> Nat]
    BY <2>1, <2>2 DEF Take, RouterType, Calls
  <2> QED BY <1>3, <2>4, <2>5, <2>6, CallType DEF RouterType, SendPaper
<1>4. ASSUME NEW c \in Callers, SendLive(c) PROVE RouterType'
  <2>1. call[c] \in Calls
    BY <1>4, NotIdle DEF RouterType, SendLive
  <2>2. liveSent + 1 \in 0..MaxLive /\ <<"live", liveSent + 1>> \in Ids
    BY <1>4, SimulatorAssumption, RouterAssumption DEF SendLive, RouterType, Ids, Modes
  <2>3. [call[c] EXCEPT !.at = "accepted", !.id = <<"live", liveSent + 1>>] \in Calls
    BY <2>1, <2>2 DEF Calls, Places
  <2>4. [call[c] EXCEPT !.at = "failed"] \in Calls
    BY <2>1, Moved DEF Places
  <2>5. \/ call' = [call EXCEPT ![c] = [call[c] EXCEPT !.at = "accepted",
                                                       !.id = <<"live", liveSent + 1>>]]
        \/ call' = [call EXCEPT ![c] = [call[c] EXCEPT !.at = "failed"]]
    BY <1>4 DEF SendLive, Accept, Goto
  <2>6. call' \in [Callers -> {Idle} \cup Calls]
    BY <2>3, <2>4, <2>5, CallType DEF RouterType
  <2>7. taken' \in [Orders -> Nat]
    BY <1>4, <2>1 DEF SendLive, Take, RouterType, Calls
  <2> QED BY <1>4, <2>2, <2>6, <2>7 DEF RouterType, SendLive
<1>5. ASSUME NEW c \in Callers, SendFails(c) PROVE RouterType'
  <2>1. [call[c] EXCEPT !.at = "failed"] \in Calls
    BY <1>5, NotIdle, Moved DEF RouterType, SendFails, Places
  <2>2. call' = [call EXCEPT ![c] = [call[c] EXCEPT !.at = "failed"]]
    BY <1>5 DEF SendFails, Goto
  <2>3. liveSent' \in 0..MaxLive
    BY <1>5, RouterAssumption DEF SendFails, RouterType
  <2> QED BY <1>5, <2>1, <2>2, <2>3, CallType DEF RouterType, SendFails
<1>6. ASSUME NEW c \in Callers, SubmitFailed(c) PROVE RouterType'
  <2>1. Release({call[c].order}) /\ call' = [call EXCEPT ![c] = Idle]
    BY <1>6 DEF SubmitFailed, Return
  <2> QED BY <1>6, <2>1, ReleaseType, CallType DEF RouterType, SubmitFailed
<1>7. ASSUME NEW c \in Callers, SubmitAccepted(c) PROVE RouterType'
  BY <1>7, CallType DEF RouterType, SubmitAccepted, Return
<1>8. ASSUME NEW o \in Orders, ConfirmOrder(o) PROVE RouterType'
  BY <1>8, ReleaseType DEF RouterType, ConfirmOrder
<1>9. CASE CleanupTimedOutOrders
  BY <1>9, ReleaseType DEF RouterType, CleanupTimedOutOrders
<1>10. ASSUME NEW o \in Orders, CancelOrder(o) PROVE RouterType'
  BY <1>10 DEF RouterType, CancelOrder
<1>11. ASSUME NEW m \in Modes, SetMode(m) PROVE RouterType'
  BY <1>11 DEF RouterType, SetMode
<1>12. CASE Tick \/ Market \/ UNCHANGED routerVars
  BY <1>12 DEF RouterType, Tick, Market, routerVars
<1> QED BY <1>1, <1>2, <1>3, <1>4, <1>5, <1>6, <1>7, <1>8, <1>9, <1>10, <1>11, <1>12
        DEF Next, Call, Outside, vars

(***************************************************************************)
(* Second sends                                                            *)
(***************************************************************************)

LEMMA SendingFinite ==
  ASSUME NEW o
  PROVE  IsFiniteSet(Sending(o)) /\ Cardinality(Sending(o)) \in Nat
<1>1. Sending(o) \in SUBSET Callers
  BY DEF Sending
<1> QED BY <1>1, RouterAssumption, FS_Subset, FS_CardinalityType

\* One call moves: the number of calls sending an order changes by that call alone.
LEMMA SendingMoves ==
  ASSUME NEW c \in Callers, \A d \in Callers \ {c} : call'[d] = call[d], NEW o
  PROVE  Cardinality(Sending(o)') = Cardinality(Sending(o)) - Count(c \in Sending(o))
                                      + Count(c \in Sending(o)')
<1> DEFINE Rest == Sending(o) \ {c}
<1>1. IsFiniteSet(Rest) /\ Cardinality(Rest) = Cardinality(Sending(o)) - Count(c \in Sending(o))
  <2>1. IsFiniteSet(Sending(o)) /\ Cardinality(Sending(o)) \in Nat
    BY SendingFinite
  <2> QED BY <2>1, FS_RemoveElement DEF Count
<1>2. Sending(o)' = IF c \in Sending(o)' THEN Rest \cup {c} ELSE Rest
  BY DEF Sending
<1>3. Cardinality(Rest) \in Nat
  BY <1>1, FS_CardinalityType
<1>4. Cardinality(Rest \cup {c}) = Cardinality(Rest) + 1
  BY <1>1, FS_AddElement
<1>5. Cardinality(Sending(o)') = Cardinality(Rest) + Count(c \in Sending(o)')
  BY <1>2, <1>3, <1>4 DEF Count
<1> HIDE DEF Rest
<1> QED BY <1>1, <1>3, <1>5, SendingFinite DEF Count

LEMMA SendingSame ==
  ASSUME call' = call, NEW o
  PROVE  Sending(o)' = Sending(o)
BY DEF Sending

LEMMA DebtInit == Init => Debt
<1> SUFFICES ASSUME Init, NEW o \in Orders
             PROVE  taken[o] + Cardinality(Sending(o)) <= released[o] + Count(o \in DOMAIN inFlight)
  BY DEF Debt
<1>1. Sending(o) = {}
  BY PlacesDiffer DEF Init, Sending, Idle
<1>2. taken[o] = 0 /\ released[o] = 0
  BY DEF Init
<1> QED BY <1>1, <1>2, FS_EmptySet DEF Count

\* Releasing entries adds to the right what it takes from it.
LEMMA DebtReleased ==
  ASSUME RouterType, NEW S, Release(S), taken' = taken, NEW o \in Orders,
         taken[o] + Cardinality(Sending(o)) <= released[o] + Count(o \in DOMAIN inFlight),
         Cardinality(Sending(o)') = Cardinality(Sending(o))
  PROVE  taken'[o] + Cardinality(Sending(o)') <= released'[o] + Count(o \in DOMAIN inFlight')
<1>1. /\ DOMAIN inFlight' = DOMAIN inFlight \ S
      /\ released'[o] = released[o] + Count(o \in S /\ o \in DOMAIN inFlight)
  BY ReleaseType
<1>2. taken[o] \in Nat /\ released[o] \in Nat /\ Cardinality(Sending(o)) \in Nat
  BY SendingFinite DEF RouterType
<1> QED BY <1>1, <1>2 DEF Count

LEMMA DebtStep ==
  ASSUME EnableIdempotency, RouterType, RouterType', Debt, [Next]_vars
  PROVE  Debt'
<1> SUFFICES ASSUME NEW o \in Orders
             PROVE  taken'[o] + Cardinality(Sending(o)') <= released'[o] + Count(o \in DOMAIN inFlight')
  BY DEF Debt
<1> DEFINE Now == Cardinality(Sending(o))
           After == Cardinality(Sending(o)')
<1>0. /\ taken[o] + Now <= released[o] + Count(o \in DOMAIN inFlight)
      /\ taken[o] \in Nat /\ released[o] \in Nat /\ Now \in Nat
  BY SendingFinite DEF Debt, RouterType
<1>a. ASSUME NEW c \in Callers, \A d \in Callers \ {c} : call'[d] = call[d]
      PROVE  After = Now - Count(c \in Sending(o)) + Count(c \in Sending(o)')
  BY <1>a, SendingMoves
<1>1. ASSUME NEW c \in Callers, NEW x \in Orders, Enter(c, x)
      PROVE  taken'[o] + After <= released'[o] + Count(o \in DOMAIN inFlight')
  <2>1. /\ DOMAIN inFlight' = DOMAIN inFlight \cup {x}
        /\ call' = [call EXCEPT ![c] = [at |-> "entered", order |-> x, id |-> None]]
    BY <1>1, EnterEffect
  <2>2. x \notin DOMAIN inFlight /\ taken' = taken /\ released' = released /\ call[c] = Idle
    BY <1>1 DEF Enter, Duplicate
  <2>3. c \notin Sending(o)
    BY <2>2, PlacesDiffer DEF Sending, Idle
  <2>4. c \in Sending(o)' <=> o = x
    BY <2>1 DEF Sending, RouterType
  <2>5. After = Now + Count(o = x)
    BY <1>a, <1>0, <2>1, <2>3, <2>4 DEF Count, RouterType
  <2> QED BY <1>0, <2>1, <2>2, <2>5 DEF Count
<1>2. ASSUME NEW c \in Callers, Route(c)
      PROVE  taken'[o] + After <= released'[o] + Count(o \in DOMAIN inFlight')
  <2>1. call' = [call EXCEPT ![c] = [call[c] EXCEPT !.at = mode]]
    BY <1>2 DEF Route, Goto
  <2>2. call[c] \in Calls /\ call[c].at = "entered" /\ mode \in Modes
    BY <1>2, NotIdle DEF Route, RouterType
  <2>3. c \in Sending(o)' <=> c \in Sending(o)
    BY <2>1, <2>2 DEF Sending, RouterType, Calls
  <2>4. After = Now
    BY <1>a, <1>0, <2>1, <2>3 DEF Count, RouterType
  <2> QED BY <1>0, <1>2, <2>4 DEF Route
<1>3. ASSUME NEW c \in Callers, SendPaper(c) \/ SendLive(c)
      PROVE  taken'[o] + After <= released'[o] + Count(o \in DOMAIN inFlight')
  <2>1. Take(c) /\ UNCHANGED <<inFlight, released>> /\ call[c].at \in Modes
    BY <1>3 DEF SendPaper, SendLive, Modes
  <2>2. call[c] \in Calls
    BY <2>1, NotIdle DEF RouterType, Modes
  <2>3. PICK k : call' = [call EXCEPT ![c] = k] /\ k.at \in {"accepted", "failed"}
    <3>1. ASSUME NEW i, Accept(c, i)
          PROVE  \E k : call' = [call EXCEPT ![c] = k] /\ k.at \in {"accepted", "failed"}
      <4>1. call' = [call EXCEPT ![c] = [call[c] EXCEPT !.at = "accepted", !.id = i]]
        BY <3>1 DEF Accept
      <4>2. [call[c] EXCEPT !.at = "accepted", !.id = i].at = "accepted"
        BY <2>2 DEF Calls
      <4> QED BY <4>1, <4>2
    <3>2. CASE Goto(c, "failed")
      <4>1. call' = [call EXCEPT ![c] = [call[c] EXCEPT !.at = "failed"]]
        BY <3>2 DEF Goto
      <4>2. [call[c] EXCEPT !.at = "failed"].at = "failed"
        BY <2>2 DEF Calls
      <4> QED BY <4>1, <4>2
    <3> QED BY <1>3, <3>1, <3>2 DEF SendPaper, SendLive
  <2>4. c \notin Sending(o)'
    BY <2>3, PlacesDiffer DEF Sending, RouterType
  <2>5. c \in Sending(o) <=> call[c].order = o
    BY <2>1 DEF Sending
  <2>6. After = Now - Count(call[c].order = o)
    BY <1>a, <1>0, <2>3, <2>4, <2>5 DEF Count, RouterType
  <2>7. taken'[o] = taken[o] + Count(call[c].order = o)
    BY <1>0, <2>1, <2>2 DEF Take, RouterType, Count, Calls
  <2> QED BY <1>0, <2>1, <2>6, <2>7 DEF Count
<1>4. ASSUME NEW c \in Callers, SendFails(c)
      PROVE  taken'[o] + After <= released'[o] + Count(o \in DOMAIN inFlight')
  <2>1. call' = [call EXCEPT ![c] = [call[c] EXCEPT !.at = "failed"]]
    BY <1>4 DEF SendFails, Goto
  <2>2. call[c] \in Calls
    BY <1>4, NotIdle DEF SendFails, RouterType
  <2>3. c \notin Sending(o)'
    BY <2>1, <2>2, PlacesDiffer DEF Sending, RouterType, Calls
  <2>4. After <= Now
    BY <1>a, <1>0, <2>1, <2>3 DEF Count, RouterType
  <2>5. After \in Int
    BY <1>a, <1>0, <2>1, <2>3 DEF Count, RouterType
  <2> QED BY <1>0, <1>4, <2>4, <2>5 DEF SendFails, Count
<1>5. ASSUME NEW c \in Callers, SubmitFailed(c) \/ SubmitAccepted(c)
      PROVE  taken'[o] + After <= released'[o] + Count(o \in DOMAIN inFlight')
  <2>1. call' = [call EXCEPT ![c] = Idle] /\ call[c].at \in {"failed", "accepted"}
    BY <1>5 DEF SubmitFailed, SubmitAccepted, Return
  <2>2. c \notin Sending(o) /\ c \notin Sending(o)'
    BY <2>1, PlacesDiffer DEF Sending, RouterType, Idle
  <2>3. After = Now
    BY <1>a, <1>0, <2>1, <2>2 DEF Count, RouterType
  <2>4. CASE SubmitFailed(c)
    BY <1>0, <2>3, <2>4, DebtReleased DEF SubmitFailed
  <2>5. CASE SubmitAccepted(c)
    BY <1>0, <2>3, <2>5 DEF SubmitAccepted
  <2> QED BY <1>5, <2>4, <2>5
<1>6. ASSUME NEW S, Release(S), UNCHANGED <<call, taken>>
      PROVE  taken'[o] + After <= released'[o] + Count(o \in DOMAIN inFlight')
  <2>1. After = Now
    BY <1>6, SendingSame
  <2> QED BY <1>0, <1>6, <2>1, DebtReleased
<1>7. CASE UNCHANGED <<call, taken, released, inFlight>>
  <2>1. After = Now
    BY <1>7, SendingSame
  <2> QED BY <1>0, <1>7, <2>1
<1>8. CASE Outside
  <2>1. ASSUME NEW x \in Orders, ConfirmOrder(x)
        PROVE  Release({x}) /\ UNCHANGED <<call, taken>>
    BY <2>1 DEF ConfirmOrder
  <2> QED BY <1>6, <1>7, <1>8, <2>1 DEF Outside, CancelOrder, SetMode, Tick, Market
<1>9. CASE CleanupTimedOutOrders
  BY <1>6, <1>9 DEF CleanupTimedOutOrders
<1>10. CASE UNCHANGED routerVars
  BY <1>7, <1>10 DEF routerVars
<1> QED BY <1>1, <1>2, <1>3, <1>4, <1>5, <1>8, <1>9, <1>10 DEF Next, Call, vars

LEMMA DebtExplains == RouterType /\ Debt => DuplicatesExplained
<1> SUFFICES ASSUME RouterType, Debt, NEW o \in Orders PROVE taken[o] <= 1 + released[o]
  BY DEF DuplicatesExplained
<1>1. /\ taken[o] + Cardinality(Sending(o)) <= released[o] + Count(o \in DOMAIN inFlight)
      /\ taken[o] \in Nat /\ released[o] \in Nat /\ Cardinality(Sending(o)) \in Nat
  BY SendingFinite DEF Debt, RouterType
<1> QED BY <1>1 DEF Count

\* Two calls with one client id never both reach a venue while an entry of it stands,
\* however confirmations, timeouts and late failures interleave with them.
THEOREM DuplicatesTheorem == Spec => []DuplicatesExplained
<1> DEFINE Inv == RouterType /\ (EnableIdempotency => Debt)
<1>1. Init => Inv
  BY RouterTypeInit, DebtInit
<1>2. Inv /\ [Next]_vars => Inv'
  BY RouterTypeStep, DebtStep
<1>3. Inv => DuplicatesExplained
  BY DebtExplains DEF DuplicatesExplained
<1> QED BY <1>1, <1>2, <1>3, PTL DEF Spec

(***************************************************************************)
(* Entries                                                                 *)
(***************************************************************************)

\* NoLeak needs that a call whose order was accepted leaves a taken order behind.
LeakInv == NoLeak /\ AcceptedWasTaken

\* A call stands behind its entry, or an entry of its order was removed meanwhile.
OwnEntry ==
  \A c \in Callers :
    call[c] # Idle =>
      \/ released[call[c].order] > 0
      \/ call[c].order \in DOMAIN inFlight /\ inFlight[call[c].order].by = c

LEMMA LeakInit == Init => LeakInv
BY DEF Init, LeakInv, NoLeak, AcceptedWasTaken, Idle

LEMMA LeakStep == RouterType /\ LeakInv /\ [Next]_vars => LeakInv'
<1> SUFFICES ASSUME RouterType, LeakInv, [Next]_vars PROVE LeakInv'
  OBVIOUS
<1>1. ASSUME NEW c \in Callers, NEW x \in Orders, Enter(c, x) PROVE LeakInv'
  <2>1. /\ DOMAIN inFlight' = DOMAIN inFlight \cup {x}
        /\ call' = [call EXCEPT ![c] = [at |-> "entered", order |-> x, id |-> None]]
        /\ call[c] = Idle /\ taken' = taken
    BY <1>1, EnterEffect DEF Enter
  <2>2. \A d \in Callers : call[d] # Idle => call'[d] = call[d]
    BY <2>1 DEF RouterType
  <2>3. call'[c] # Idle /\ call'[c].order = x /\ call'[c].at = "entered"
    BY <2>1 DEF RouterType, Idle
  <2>4. NoLeak'
    BY <2>1, <2>2, <2>3 DEF LeakInv, NoLeak
  <2>5. AcceptedWasTaken'
    BY <2>1, <2>3 DEF LeakInv, AcceptedWasTaken, RouterType
  <2> QED BY <2>4, <2>5 DEF LeakInv
<1>2. ASSUME NEW c \in Callers, NEW k \in Calls, call' = [call EXCEPT ![c] = k],
             call[c] \in Calls, call[c] # Idle, k.order = call[c].order, k # Idle,
             \A o \in Orders : taken'[o] >= taken[o],
             k.at = "accepted" => taken'[k.order] > 0, UNCHANGED inFlight,
             taken' \in [Orders -> Nat]
      PROVE  LeakInv'
  <2>1. \A d \in Callers : (call[d] # Idle => call'[d] # Idle) /\ (call[d] # Idle => call'[d].order = call[d].order)
    BY <1>2 DEF RouterType
  <2>2. \A o \in Orders : taken[o] > 0 => taken'[o] > 0
    BY <1>2 DEF RouterType
  <2>3. NoLeak'
    BY <1>2, <2>1, <2>2 DEF LeakInv, NoLeak, RouterType
  <2>4. \A d \in Callers : call'[d].at = "accepted" => taken'[call'[d].order] > 0
    <3> SUFFICES ASSUME NEW d \in Callers, call'[d].at = "accepted", d # c
                 PROVE  taken'[call'[d].order] > 0
      BY <1>2 DEF RouterType
    <3>1. call'[d] = call[d] /\ call[d].order \in Orders
      BY <1>2, NotIdle DEF RouterType, Calls
    <3> QED BY <2>2, <3>1 DEF LeakInv, AcceptedWasTaken
  <2> QED BY <2>3, <2>4 DEF LeakInv, AcceptedWasTaken
<1>3. ASSUME NEW c \in Callers, Route(c) \/ SendFails(c) PROVE LeakInv'
  <2>1. PICK place \in Places \ {"accepted"} :
          call' = [call EXCEPT ![c] = [call[c] EXCEPT !.at = place]]
    BY <1>3 DEF Route, SendFails, Goto, RouterType, Places, Modes
  <2>2. call[c] \in Calls /\ call[c] # Idle
    BY <1>3, NotIdle DEF Route, SendFails, RouterType, Idle
  <2> DEFINE k == [call[c] EXCEPT !.at = place]
  <2>3. k \in Calls /\ k # Idle /\ k.order = call[c].order /\ k.at = place
    BY <2>2, Moved DEF Calls, Idle, Places, Modes
  <2>4. call' = [call EXCEPT ![c] = k] /\ k.at # "accepted"
    BY <2>1, <2>3
  <2>5. taken' = taken /\ inFlight' = inFlight /\ taken \in [Orders -> Nat]
    BY <1>3 DEF Route, SendFails, RouterType
  <2>6. \A o \in Orders : taken'[o] >= taken[o]
    BY <2>5
  <2> HIDE DEF k
  <2> QED BY <1>2, <2>2, <2>3, <2>4, <2>5, <2>6
<1>4. ASSUME NEW c \in Callers, SendPaper(c) \/ SendLive(c) PROVE LeakInv'
  <2>1. Take(c) /\ inFlight' = inFlight /\ call[c].at \in Modes
    BY <1>4 DEF SendPaper, SendLive, Modes
  <2>2. call[c] \in Calls /\ call[c] # Idle
    BY <2>1, NotIdle DEF RouterType, Idle, Modes
  <2>3. PICK k \in {Idle} \cup Calls :
          call' = [call EXCEPT ![c] = k] /\ k.order = call[c].order /\ k # Idle
    <3>1. call' \in [Callers -> {Idle} \cup Calls]
      BY RouterTypeStep DEF RouterType
    <3>2. \/ \E i : call' = [call EXCEPT ![c].at = "accepted", ![c].id = i]
          \/ call' = [call EXCEPT ![c].at = "failed"]
      BY <1>4 DEF SendPaper, SendLive, Accept, Goto
    <3>3. call'[c].order = call[c].order /\ call'[c].at \in {"accepted", "failed"}
      BY <2>2, <3>2 DEF RouterType, Calls
    <3>4. call' = [call EXCEPT ![c] = call'[c]]
      BY <3>1, <3>2 DEF RouterType
    <3> QED BY <3>1, <3>3, <3>4 DEF Idle
  <2>4. taken' \in [Orders -> Nat] /\ \A o \in Orders : taken'[o] >= taken[o]
    BY <2>1, <2>2 DEF Take, RouterType, Calls
  <2>5. taken'[call[c].order] > 0
    BY <2>1, <2>2 DEF Take, RouterType, Calls
  <2> QED BY <1>2, <2>1, <2>2, <2>3, <2>4, <2>5
<1>5. ASSUME NEW c \in Callers, SubmitFailed(c) PROVE LeakInv'
  <2>1. /\ Release({call[c].order}) /\ call' = [call EXCEPT ![c] = Idle]
        /\ taken' = taken
    BY <1>5 DEF SubmitFailed, Return
  <2>2. DOMAIN inFlight' = DOMAIN inFlight \ {call[c].order}
    BY <2>1, ReleaseType
  <2>3. NoLeak'
    BY <2>1, <2>2 DEF LeakInv, NoLeak, RouterType
  <2>4. AcceptedWasTaken'
    BY <2>1 DEF LeakInv, AcceptedWasTaken, RouterType, Idle
  <2> QED BY <2>3, <2>4 DEF LeakInv
<1>6. ASSUME NEW c \in Callers, SubmitAccepted(c) PROVE LeakInv'
  <2>1. /\ call' = [call EXCEPT ![c] = Idle] /\ inFlight' = inFlight /\ taken' = taken
        /\ taken[call[c].order] > 0
    BY <1>6 DEF SubmitAccepted, Return, LeakInv, AcceptedWasTaken
  <2>2. NoLeak'
    BY <2>1 DEF LeakInv, NoLeak, RouterType
  <2>3. AcceptedWasTaken'
    BY <2>1 DEF LeakInv, AcceptedWasTaken, RouterType, Idle
  <2> QED BY <2>2, <2>3 DEF LeakInv
<1>7. ASSUME UNCHANGED <<call, taken>>, DOMAIN inFlight' \subseteq DOMAIN inFlight
      PROVE  LeakInv'
  BY <1>7 DEF LeakInv, NoLeak, AcceptedWasTaken
<1>8. CASE Outside \/ CleanupTimedOutOrders
  <2>1. ASSUME NEW S, Release(S) PROVE DOMAIN inFlight' \subseteq DOMAIN inFlight
    BY <2>1, ReleaseType
  <2> QED BY <1>7, <1>8, <2>1 DEF Outside, ConfirmOrder, CancelOrder, SetMode, Tick, Market,
             CleanupTimedOutOrders
<1>9. CASE UNCHANGED routerVars
  BY <1>7, <1>9 DEF routerVars
<1> QED BY <1>1, <1>3, <1>4, <1>5, <1>6, <1>8, <1>9 DEF Next, Call, vars

\* No entry stays behind for a call that failed: each one has its call still under way,
\* or an order that a venue took.
THEOREM LeakTheorem == Spec => []NoLeak
<1>1. LeakInv => NoLeak
  BY DEF LeakInv
<1> QED BY <1>1, RouterTypeInit, RouterTypeStep, LeakInit, LeakStep, PTL DEF Spec

LEMMA OwnInit == Init => OwnEntry
BY DEF Init, OwnEntry

\* A release leaves its mark on every order whose entry it removes, and only there.
LEMMA OwnReleased ==
  ASSUME RouterType, OwnEntry, NEW S, Release(S),
         NEW d \in Callers, call[d] # Idle
  PROVE  \/ released'[call[d].order] > 0
         \/ call[d].order \in DOMAIN inFlight' /\ inFlight'[call[d].order].by = d
<1> DEFINE o == call[d].order
<1>1. o \in Orders
  BY DEF RouterType, Calls
<1>2. released[o] > 0 \/ (o \in DOMAIN inFlight /\ inFlight[o].by = d)
  BY DEF OwnEntry
<1>3. released'[o] = released[o] + Count(o \in S /\ o \in DOMAIN inFlight) /\ released[o] \in Nat
  BY <1>1, ReleaseType DEF RouterType
<1>4. CASE o \in DOMAIN inFlight /\ o \notin S
  <2>1. o \in DOMAIN inFlight' /\ inFlight'[o] = inFlight[o]
    BY <1>4 DEF Release
  <2> QED BY <1>2, <1>3, <2>1 DEF Count
<1> QED BY <1>2, <1>3, <1>4 DEF Count

LEMMA OwnStep ==
  ASSUME EnableIdempotency, RouterType, OwnEntry, [Next]_vars
  PROVE  OwnEntry'
<1>1. ASSUME NEW c \in Callers, NEW x \in Orders, Enter(c, x) PROVE OwnEntry'
  <2>1. /\ call' = [call EXCEPT ![c] = [at |-> "entered", order |-> x, id |-> None]]
        /\ released' = released /\ x \notin DOMAIN inFlight
        /\ inFlight' = [y \in DOMAIN inFlight \cup {x} |->
                          IF y = x THEN [since |-> now, by |-> c] ELSE inFlight[y]]
    BY <1>1 DEF Enter, Duplicate
  <2>2. call'[c].order = x /\ x \in DOMAIN inFlight' /\ inFlight'[x].by = c
    BY <2>1 DEF RouterType
  <2>3. ASSUME NEW d \in Callers, d # c, call[d] # Idle
        PROVE  \/ released[call[d].order] > 0
               \/ call[d].order \in DOMAIN inFlight' /\ inFlight'[call[d].order].by = d
    BY <2>1, <2>3 DEF OwnEntry
  <2> QED BY <2>1, <2>2, <2>3 DEF OwnEntry, RouterType
<1>2. ASSUME NEW c \in Callers, UNCHANGED <<inFlight, released>>,
             call[c] # Idle, \A d \in Callers \ {c} : call'[d] = call[d],
             call'[c] = Idle \/ call'[c].order = call[c].order
      PROVE  OwnEntry'
  BY <1>2 DEF OwnEntry
<1>3. ASSUME NEW c \in Callers,
             Route(c) \/ SendPaper(c) \/ SendLive(c) \/ SendFails(c) \/ SubmitAccepted(c)
      PROVE  OwnEntry'
  <2>1. UNCHANGED <<inFlight, released>> /\ call[c] # Idle
    BY <1>3 DEF Route, SendPaper, SendLive, SendFails, SubmitAccepted, Idle
  <2>2. call[c] \in Calls
    BY <2>1 DEF RouterType
  <2>3. \/ \E place : call' = [call EXCEPT ![c].at = place]
        \/ \E i : call' = [call EXCEPT ![c].at = "accepted", ![c].id = i]
        \/ call' = [call EXCEPT ![c] = Idle]
    BY <1>3 DEF Route, SendPaper, SendLive, SendFails, SubmitAccepted, Goto, Accept, Return
  <2>4. \A d \in Callers \ {c} : call'[d] = call[d]
    BY <2>3 DEF RouterType
  <2>5. call'[c] = Idle \/ call'[c].order = call[c].order
    BY <2>2, <2>3 DEF RouterType, Calls
  <2> QED BY <1>2, <2>1, <2>4, <2>5
<1>4. ASSUME NEW c \in Callers, SubmitFailed(c) PROVE OwnEntry'
  <2>1. Release({call[c].order}) /\ call' = [call EXCEPT ![c] = Idle]
    BY <1>4 DEF SubmitFailed, Return
  <2>2. \A d \in Callers : call'[d] # Idle => call'[d] = call[d]
    BY <2>1 DEF RouterType
  <2> QED BY <2>1, <2>2, OwnReleased DEF OwnEntry
<1>5. ASSUME NEW S, Release(S), call' = call PROVE OwnEntry'
  BY <1>5, OwnReleased DEF OwnEntry
<1>6. CASE UNCHANGED <<call, inFlight, released>>
  BY <1>6 DEF OwnEntry
<1>7. CASE Outside \/ CleanupTimedOutOrders
  BY <1>5, <1>6, <1>7 DEF Outside, ConfirmOrder, CancelOrder, SetMode, Tick, Market,
     CleanupTimedOutOrders
<1>8. CASE UNCHANGED routerVars
  BY <1>6, <1>8 DEF routerVars
<1> QED BY <1>1, <1>3, <1>4, <1>7, <1>8 DEF Next, Call, vars

\* What EntryKept says of a step in which the entry of o goes.
Excused(o) ==
  \/ now - inFlight[o].since > TimeoutTicks
  \/ ConfirmOrder(o)
  \/ \E c \in Callers :
       /\ call[c].at = "failed" /\ call'[c] = Idle /\ call[c].order = o
       /\ inFlight[o].by = c \/ released[o] > 0

LEMMA KeptStep ==
  ASSUME RouterType, EnableIdempotency, OwnEntry, Next,
         NEW o \in DOMAIN inFlight \ DOMAIN inFlight'
  PROVE  Excused(o)
<1>1. ASSUME NEW c \in Callers, SubmitFailed(c) PROVE Excused(o)
  <2>1. /\ call[c].at = "failed" /\ Release({call[c].order})
        /\ call' = [call EXCEPT ![c] = Idle]
    BY <1>1 DEF SubmitFailed, Return
  <2>a. DOMAIN inFlight' = DOMAIN inFlight \ {call[c].order}
    BY <2>1, ReleaseType
  <2>b. call[c] # Idle /\ call'[c] = Idle
    BY <2>1 DEF RouterType, Idle
  <2>2. call[c].order = o /\ call[c] # Idle /\ call'[c] = Idle
    BY <2>a, <2>b
  <2>3. released[o] > 0 \/ inFlight[o].by = c
    BY <2>2 DEF OwnEntry
  <2> QED BY <2>1, <2>2, <2>3 DEF Excused
<1>2. ASSUME NEW x \in Orders, ConfirmOrder(x) PROVE Excused(o)
  <2>1. Release({x})
    BY <1>2 DEF ConfirmOrder
  <2>2. DOMAIN inFlight' = DOMAIN inFlight \ {x}
    BY <2>1, ReleaseType
  <2>3. o = x
    BY <2>2
  <2> QED BY <1>2, <2>3 DEF Excused
<1>3. CASE CleanupTimedOutOrders
  <2>1. o \in Expired
    BY <1>3, ReleaseType DEF CleanupTimedOutOrders
  <2> QED BY <2>1 DEF Expired, Excused
<1>4. ASSUME NEW c \in Callers, NEW x \in Orders, Enter(c, x) PROVE FALSE
  BY <1>4, EnterEffect
<1>5. ASSUME NEW c \in Callers,
             Route(c) \/ SendPaper(c) \/ SendLive(c) \/ SendFails(c) \/ SubmitAccepted(c)
      PROVE  FALSE
  BY <1>5 DEF Route, SendPaper, SendLive, SendFails, SubmitAccepted
<1>6. ASSUME NEW x, CancelOrder(x) \/ SetMode(x) PROVE FALSE
  BY <1>6 DEF CancelOrder, SetMode
<1>7. CASE Tick \/ Market \/ UNCHANGED routerVars
  BY <1>7 DEF Tick, Market, routerVars
<1> QED BY <1>1, <1>2, <1>3, <1>4, <1>5, <1>6, <1>7 DEF Next, Call, Outside

\* A fresh entry is lost only to a confirmation or to a failing call of its client id,
\* and to a call that did not make it only after an earlier entry had been removed.
THEOREM KeptTheorem == Spec => EntryKept
<1> DEFINE Inv == RouterType /\ (EnableIdempotency => OwnEntry)
           Kept == EnableIdempotency =>
                     \A o \in DOMAIN inFlight \ DOMAIN inFlight' : Excused(o)
<1>1. Init => Inv
  BY RouterTypeInit, OwnInit
<1>2. Inv /\ [Next]_vars => Inv'
  BY RouterTypeStep, OwnStep
<1>3. Inv /\ [Next]_vars => [Kept]_vars
  BY KeptStep
<1>4. [Kept]_vars <=>
        [EnableIdempotency =>
           \A o \in DOMAIN inFlight \ DOMAIN inFlight' :
             \/ now - inFlight[o].since > TimeoutTicks
             \/ ConfirmOrder(o)
             \/ \E c \in Callers :
                  /\ call[c].at = "failed" /\ call'[c] = Idle /\ call[c].order = o
                  /\ inFlight[o].by = c \/ released[o] > 0]_vars
  BY DEF Excused
<1> QED BY <1>1, <1>2, <1>3, <1>4, PTL DEF Spec, EntryKept

(***************************************************************************)
(* One outcome                                                             *)
(***************************************************************************)

PaperOrders == [of : Orders, status : Statuses]

SimInv ==
  /\ virtual \in [DOMAIN virtual -> PaperOrders]
  /\ paperSent \in Nat
  /\ StuckOnlyByContext

\* What was decided stays decided, unless a submission takes its place.
Decided ==
  \A id \in DOMAIN virtual \cap DOMAIN virtual' :
    virtual[id].status # "Submitted" /\ paperSent' = paperSent
      => virtual'[id] = virtual[id]

LEMMA SimInvInit == SimInit => SimInv
<1> SUFFICES ASSUME SimInit PROVE SimInv
  OBVIOUS
<1>1. DOMAIN virtual = {} /\ virtual \in [DOMAIN virtual -> PaperOrders]
  BY DEF SimInit
<1> QED BY <1>1 DEF SimInit, SimInv, StuckOnlyByContext

LEMMA OrderPlaced ==
  ASSUME SimInv, NEW o \in Orders, NEW id, PaperSubmit(o, id)
  PROVE  SimInv' /\ Decided
<1> DEFINE placed == [of |-> o, status |-> "Submitted"]
<1>1. placed \in PaperOrders
  BY DEF PaperOrders, Statuses
<1>2. /\ virtual' = [i \in DOMAIN virtual \cup {id} |-> IF i = id THEN placed ELSE virtual[i]]
      /\ fillers' = fillers \cup {[n |-> paperSent + 1, id |-> id]}
      /\ paperSent' = paperSent + 1 /\ abandoned' = abandoned
  BY DEF PaperSubmit
<1> HIDE DEF placed
<1>3. /\ virtual' \in [DOMAIN virtual' -> PaperOrders]
      /\ DOMAIN virtual' = DOMAIN virtual \cup {id}
      /\ \A i \in DOMAIN virtual : i # id => virtual'[i] = virtual[i]
  BY <1>1, <1>2 DEF SimInv
<1>4. \E f \in fillers' : f.id = id
  <2>1. [n |-> paperSent + 1, id |-> id] \in fillers'
    BY <1>2
  <2>2. [n |-> paperSent + 1, id |-> id].id = id
    OBVIOUS
  <2> QED BY <2>1, <2>2
<1>5. StuckOnlyByContext'
  BY <1>2, <1>3, <1>4 DEF SimInv, StuckOnlyByContext
<1>6. paperSent' \in Nat /\ paperSent' # paperSent
  BY <1>2 DEF SimInv
<1> QED BY <1>3, <1>5, <1>6 DEF SimInv, Decided

\* An order that waited is decided: canceled, rejected or filled.
LEMMA OrderDecided ==
  ASSUME SimInv, NEW id \in DOMAIN virtual, virtual[id].status = "Submitted",
         NEW status \in Statuses \ {"Submitted"},
         virtual' = [virtual EXCEPT ![id].status = status],
         UNCHANGED <<paperSent, abandoned>>,
         \A f \in fillers : f.id # id => f \in fillers'
  PROVE  SimInv' /\ Decided
<1> DEFINE decided == [virtual[id] EXCEPT !.status = status]
<1>1. virtual[id] \in PaperOrders
  BY DEF SimInv
<1>2. decided \in PaperOrders /\ decided.status = status
  BY <1>1 DEF PaperOrders
<1>3. virtual' = [virtual EXCEPT ![id] = decided]
  OBVIOUS
<1> HIDE DEF decided
<1>4. /\ virtual' \in [DOMAIN virtual' -> PaperOrders] /\ DOMAIN virtual' = DOMAIN virtual
      /\ virtual'[id] = decided /\ \A i \in DOMAIN virtual : i # id => virtual'[i] = virtual[i]
  BY <1>2, <1>3 DEF SimInv
<1>5. StuckOnlyByContext'
  BY <1>2, <1>4 DEF SimInv, StuckOnlyByContext
<1>6. Decided
  BY <1>4 DEF Decided
<1> QED BY <1>4, <1>5, <1>6 DEF SimInv

LEMMA FillKeeps ==
  ASSUME SimInv, NEW f \in fillers, Fill(f)
  PROVE  SimInv' /\ Decided
<1>1. CASE FillFindsNothing(f)
  <2>1. /\ UNCHANGED <<virtual, paperSent, abandoned>> /\ fillers' = fillers \ {f}
        /\ f.id \in DOMAIN virtual => virtual[f.id].status # "Submitted"
    BY <1>1 DEF FillFindsNothing
  <2>2. StuckOnlyByContext'
    BY <2>1 DEF SimInv, StuckOnlyByContext
  <2> QED BY <2>1, <2>2 DEF SimInv, Decided
<1>2. ASSUME NEW status \in {"Rejected", "Filled"},
             f.id \in DOMAIN virtual, virtual[f.id].status = "Submitted",
             virtual' = [virtual EXCEPT ![f.id].status = status],
             fillers' = fillers \ {f}, UNCHANGED <<paperSent, abandoned>>
      PROVE  SimInv' /\ Decided
  <2>1. status \in Statuses \ {"Submitted"}
    BY DEF Statuses
  <2>2. \A g \in fillers : g.id # f.id => g \in fillers'
    BY <1>2
  <2> QED BY <1>2, <2>1, <2>2, OrderDecided
<1>3. CASE FillRejects(f)
  BY <1>2, <1>3 DEF FillRejects
<1>4. CASE FillFills(f)
  BY <1>2, <1>4 DEF FillFills
<1> QED BY <1>1, <1>3, <1>4 DEF Fill

LEMMA MarketKeeps ==
  ASSUME SimInv, Market
  PROVE  SimInv' /\ Decided
<1>1. ASSUME NEW p \in Prices, UpdateMarketPrice(p) PROVE SimInv' /\ Decided
  BY <1>1 DEF UpdateMarketPrice, SimInv, StuckOnlyByContext, Decided
<1>2. CASE Reset
  <2>1. virtual' = <<>> /\ UNCHANGED paperSent
    BY <1>2 DEF Reset
  <2>2. DOMAIN virtual' = {} /\ virtual' \in [DOMAIN virtual' -> PaperOrders]
    BY <2>1
  <2> QED BY <2>1, <2>2 DEF SimInv, StuckOnlyByContext, Decided
<1>3. ASSUME NEW f \in fillers, FillAbandoned(f) PROVE SimInv' /\ Decided
  <2>1. /\ fillers' = fillers \ {f} /\ abandoned' = abandoned \cup {f.id}
        /\ UNCHANGED <<virtual, paperSent>>
    BY <1>3 DEF FillAbandoned
  <2>2. StuckOnlyByContext'
    BY <2>1 DEF SimInv, StuckOnlyByContext
  <2> QED BY <2>1, <2>2 DEF SimInv, Decided
<1> QED BY <1>1, <1>2, <1>3 DEF Market

LEMMA SimStep == RouterType /\ SimInv /\ [Next]_vars => SimInv' /\ [Decided]_simVars
<1> SUFFICES ASSUME RouterType, SimInv, [Next]_vars PROVE SimInv' /\ [Decided]_simVars
  OBVIOUS
<1>1. CASE UNCHANGED simVars
  BY <1>1 DEF simVars, SimInv, StuckOnlyByContext
<1>2. ASSUME NEW c \in Callers, SendPaper(c) PROVE SimInv' /\ Decided
  <2>1. call[c].order \in Orders
    BY <1>2, NotIdle DEF RouterType, SendPaper, Calls
  <2> QED BY <1>2, <2>1, OrderPlaced DEF SendPaper
<1>3. ASSUME NEW o \in Orders, CancelOrder(o) PROVE SimInv' /\ Decided
  <2> DEFINE id == exchangeId[o][2]
  <2>1. PaperCancel(id)
    BY <1>3 DEF CancelOrder
  <2>2. "Canceled" \in Statuses \ {"Submitted"}
    BY DEF Statuses
  <2> HIDE DEF id
  <2> QED BY <2>1, <2>2, OrderDecided DEF PaperCancel
<1>4. CASE \E f \in fillers : Fill(f) /\ UNCHANGED routerVars
  BY <1>4, FillKeeps
<1>5. CASE Market
  BY <1>5, MarketKeeps
<1>6. ASSUME NEW c \in Callers,
             \/ \E o \in Orders : Enter(c, o)
             \/ Route(c) \/ SendLive(c) \/ SendFails(c) \/ SubmitFailed(c) \/ SubmitAccepted(c)
      PROVE  UNCHANGED simVars
  BY <1>6 DEF Enter, Route, SendLive, SendFails, SubmitFailed, SubmitAccepted
<1>7. ASSUME \/ CleanupTimedOutOrders \/ Tick
             \/ \E o \in Orders : ConfirmOrder(o)
             \/ \E m \in Modes : SetMode(m)
      PROVE  UNCHANGED simVars
  BY <1>7 DEF CleanupTimedOutOrders, Tick, ConfirmOrder, SetMode
<1>8. CASE UNCHANGED vars
  BY <1>1, <1>8 DEF vars
<1> QED BY <1>1, <1>2, <1>3, <1>4, <1>5, <1>6, <1>7, <1>8 DEF Next, Call, Outside

\* However cancels, resets, colliding ids and the fill goroutines interleave, a paper
\* order waits only while a goroutine will decide it or after the context of its
\* submission ended, and it is decided once (service/paper/simulator.go).
THEOREM OutcomeTheorem == Spec => OneOutcome
<1>1. Init => RouterType /\ SimInv
  BY RouterTypeInit, SimInvInit DEF Init
<1>2. RouterType /\ SimInv /\ [Next]_vars => (RouterType /\ SimInv)'
  BY RouterTypeStep, SimStep
<1>3. RouterType /\ SimInv /\ [Next]_vars => [Decided]_simVars
  BY SimStep
<1>4. SimInv => StuckOnlyByContext
  BY DEF SimInv
<1>5. [Decided]_simVars <=>
        [\A id \in DOMAIN virtual \cap DOMAIN virtual' :
           virtual[id].status # "Submitted" /\ paperSent' = paperSent
             => virtual'[id] = virtual[id]]_simVars
  BY DEF Decided
<1> QED BY <1>1, <1>2, <1>3, <1>4, <1>5, PTL DEF Spec, OneOutcome

(***************************************************************************)
(* The books of the simulator                                              *)
(***************************************************************************)

\* A position a waiting order adds to has an average entry price that is a whole number
\* of the simulator's units.
ExactAverages ==
  \A f \in fillers :
    f.id \in DOMAIN virtual =>
      LET o == virtual[f.id].of
      IN position.side = SideOf(o) =>
           (position.qty * position.entry + Quantity[o] * FillPrice(o))
             % (position.qty + Quantity[o]) = 0

Positions == [side : {"none", "Long", "Short"}, qty : Nat, entry : Int, realized : Int]

BooksInv ==
  /\ position \in Positions
  /\ position.side = "none" => position = NoPosition
  /\ balance \in Int /\ price \in Nat
  /\ BooksBalance

\* What the balance gives for a fill, but for the commission.
Sign(o) == IF o \in Buys THEN 1 ELSE -1

LEMMA FillAmounts ==
  ASSUME price \in Nat, NEW o \in Orders
  PROVE  /\ Quantity[o] \in Nat \ {0} /\ FillPrice(o) \in Nat /\ Notional(o) \in Nat
         /\ Notional(o) = Quantity[o] * FillPrice(o) /\ Commission(o) \in Int
<1>1. Quantity[o] \in Nat \ {0} /\ LimitPrice[o] \in Nat
  BY SimulatorAssumption
<1>2. FillPrice(o) \in Nat
  <2> DEFINE market == IF price = 0 THEN LimitPrice[o] ELSE price
             bps == IF o \in Buys THEN 10000 + SlippageBps ELSE 10000 - SlippageBps
  <2>1. market \in Nat /\ bps \in Nat
    BY <1>1 DEF SlippageBps
  <2>2. FillPrice(o) = market * bps * 10000
    BY DEF FillPrice
  <2> HIDE DEF market, bps
  <2> QED BY <2>1, <2>2
<1>3. Notional(o) = Quantity[o] * FillPrice(o)
  BY DEF Notional
<1> HIDE DEF FillPrice
<1>4. Notional(o) \in Nat
  BY <1>1, <1>2, <1>3
<1>5. Commission(o) \in Int
  <2>1. Commission(o) = (Notional(o) \div 10000) * 6
    BY DEF Commission, CommissionRate
  <2> QED BY <1>4, <2>1
<1> QED BY <1>1, <1>2, <1>3, <1>4, <1>5

LEMMA PositionParts ==
  ASSUME BooksInv
  PROVE  /\ position.qty \in Nat /\ position.entry \in Int /\ position.realized \in Int
         /\ position.side \in {"none", "Long", "Short"}
         /\ Signed(position) \in {1, -1}
         /\ position = [side |-> position.side, qty |-> position.qty,
                        entry |-> position.entry, realized |-> position.realized]
BY DEF BooksInv, Positions, Signed

\* An amount that divides exactly.
LEMMA Exact ==
  ASSUME NEW a \in Int, NEW b \in Nat \ {0}, a % b = 0
  PROVE  a \div b \in Int /\ b * (a \div b) = a
<1>1. a = b * (a \div b) + (a % b) /\ a \div b \in Int
  OBVIOUS
<1> QED BY <1>1

LEMMA FillBooks ==
  ASSUME BooksInv, RouterType, SimInv, ExactAverages, NEW f \in fillers, FillFills(f)
  PROVE  BooksInv'
<1> DEFINE o == virtual[f.id].of
           q == Quantity[o]
           p == FillPrice(o)
           fee == Commission(o)
           s == Sign(o)
           qty == position.qty
           entry == position.entry
           realized == position.realized
           start == InitialBalance * Unit
<1>1. o \in Orders /\ f.id \in DOMAIN virtual
  BY DEF FillFills, SimInv, PaperOrders
<1>2. /\ balance' = IF o \in Buys THEN balance - Required(o) ELSE balance + Notional(o) - fee
      /\ position' = Updated(o) /\ reversed' = (reversed \/ Reverses(o)) /\ price' = price
  BY DEF FillFills
<1> HIDE DEF o
<1>a. price \in Nat
  BY DEF BooksInv
<1>3. /\ q \in Nat \ {0} /\ p \in Nat /\ fee \in Int /\ Notional(o) = q * p
      /\ Notional(o) \in Nat /\ s \in {1, -1} /\ start \in Int
  BY <1>1, <1>a, FillAmounts, SimulatorAssumption DEF Sign, Unit
<1>4. /\ qty \in Nat /\ entry \in Int /\ realized \in Int /\ balance \in Int
  BY PositionParts DEF BooksInv
<1>5. balance' = balance - s * (q * p) - fee /\ balance' \in Int
  BY <1>2, <1>3, <1>4 DEF Required, Sign
<1>6. SideOf(o) \in {"Long", "Short"} /\ (SideOf(o) = "Short" <=> s = -1)
  BY <1>3 DEF SideOf, Sign
<1>7. ~reversed => balance + Signed(position) * qty * entry = start + realized
  BY DEF BooksInv, BooksBalance
<1>8. (~reversed' => ~reversed) /\ (~reversed' => ~Reverses(o)) /\ price' \in Nat
  BY <1>2 DEF BooksInv
<1>9. CASE position.side = "none"
  <2>1. position = NoPosition
    BY <1>9 DEF BooksInv
  <2>2. qty = 0 /\ entry = 0 /\ realized = 0 /\ Signed(position) = 1
    BY <2>1 DEF NoPosition, Signed
  <2> DEFINE new == [side |-> SideOf(o), qty |-> q, entry |-> p, realized |-> -fee]
  <2>3. position' = new
    BY <1>2, <1>9 DEF Updated
  <2>4. /\ position' \in Positions /\ position'.side # "none"
        /\ position'.qty = q /\ position'.entry = p /\ position'.realized = -fee
        /\ position'.side = SideOf(o)
    BY <1>3, <1>6, <2>3 DEF Positions
  <2>5. Signed(position)' = s
    BY <1>3, <1>6, <2>4 DEF Signed
  <2> HIDE DEF q, p, fee, s, start, new, qty, entry, realized
  <2>6. ~reversed' => balance' + s * q * p = start + (-fee)
    <3>1. \A n, m \in Nat : s * n * m = s * (n * m)
      BY <1>3
    <3>2. ~reversed => balance = start
      BY <1>3, <1>4, <1>7, <2>2
    <3> DEFINE amount == s * (q * p)
    <3>3. amount \in Int /\ s * q * p = amount
      BY <1>3, <3>1
    <3> HIDE DEF amount
    <3>4. balance' = balance - amount - fee
      BY <1>5 DEF amount
    <3>5. balance \in Int /\ fee \in Int /\ start \in Int
      BY <1>3, <1>4
    <3> QED BY <1>8, <3>2, <3>3, <3>4, <3>5
  <2>7. BooksBalance'
    BY <2>4, <2>5, <2>6 DEF BooksBalance, start
  <2> QED BY <1>2, <1>5, <2>4, <2>7 DEF BooksInv
<1>10. CASE position.side = SideOf(o)
  <2>1. position.side # "none" /\ Signed(position) = s
    BY <1>3, <1>6, <1>10 DEF Signed
  <2> DEFINE cost == qty * entry + q * p
             mean == cost \div (qty + q)
             new == [position EXCEPT !.entry = mean, !.qty = qty + q, !.realized = realized - fee]
  <2>2. position' = new
    BY <1>2, <1>10, <2>1 DEF Updated
  <2>3. cost \in Int /\ qty + q \in Nat \ {0}
    <3>1. \A m \in Nat, n \in Int : m * n \in Int
      OBVIOUS
    <3> HIDE DEF q, p, qty, entry
    <3> QED BY <1>3, <1>4, <3>1
  <2>4. cost % (qty + q) = 0
    BY <1>1, <1>10 DEF ExactAverages, o
  <2>5. mean \in Int /\ (qty + q) * mean = cost
    <3> HIDE DEF cost, q, qty
    <3> QED BY <2>3, <2>4, Exact
  <2> HIDE DEF mean
  <2>6. /\ position' \in Positions /\ position'.side = position.side
        /\ position'.qty = qty + q /\ position'.entry = mean
        /\ position'.realized = realized - fee
    <3> DEFINE more == qty + q
               gained == realized - fee
    <3>1. more \in Nat /\ gained \in Int /\ mean \in Int
      BY <1>3, <1>4, <2>5
    <3>2. position' = [position EXCEPT !.entry = mean, !.qty = more, !.realized = gained]
      BY <2>2
    <3> HIDE DEF more, gained
    <3>3. position \in Positions
      BY DEF BooksInv
    <3>4. /\ position' \in Positions /\ position'.side = position.side
          /\ position'.qty = more /\ position'.entry = mean /\ position'.realized = gained
      BY <3>1, <3>2, <3>3 DEF Positions
    <3> QED BY <3>4 DEF more, gained
  <2>7. Signed(position)' = s
    BY <2>1, <2>6 DEF Signed
  <2> HIDE DEF q, p, fee, s, start, qty, entry, realized, new
  <2>8. ~reversed' => balance' + s * (qty + q) * mean = start + (realized - fee)
    <3> DEFINE amount == q * p
               held == qty * entry
    <3>1. amount \in Int /\ held \in Int
      BY <1>3, <1>4
    <3>2. \A n, m \in Int : s * n * m = s * (n * m)
      BY <1>3
    <3>3. s * (qty + q) * mean = s * (held + amount)
      BY <2>3, <2>5, <3>2
    <3>4. ~reversed => balance + s * held = start + realized
      BY <1>4, <1>7, <2>1, <3>2
    <3>5. balance' = balance - s * amount - fee
      BY <1>5
    <3> HIDE DEF amount, held
    <3>6. /\ start \in Int /\ fee \in Int /\ realized \in Int /\ balance \in Int
      BY <1>3, <1>4
    <3>7. \A t \in {1, -1} : t * (held + amount) = t * held + t * amount
                           /\ t * held \in Int /\ t * amount \in Int
      BY <3>1
    <3> DEFINE change == s * amount
               was == s * held
    <3>8. s * (held + amount) = was + change /\ was \in Int /\ change \in Int
      BY <1>3, <3>7
    <3> HIDE DEF change, was
    <3>9. balance' = balance - change - fee
      BY <3>5 DEF change
    <3>10. ~reversed => balance + was = start + realized
      BY <3>4 DEF was
    <3> QED BY <1>8, <3>3, <3>6, <3>8, <3>9, <3>10
  <2>9. BooksBalance'
    BY <2>6, <2>7, <2>8 DEF BooksBalance, start
  <2> QED BY <1>2, <1>5, <2>1, <2>6, <2>9 DEF BooksInv
<1>11. CASE position.side \notin {"none", SideOf(o)}
  <2>1. Signed(position) = -s /\ position.side # "none"
    BY <1>3, <1>6, <1>11, PositionParts DEF Signed
  <2> DEFINE pnl == Signed(position) * (p - entry) * q
             left == IF q >= qty THEN 0 ELSE qty - q
             new == [position EXCEPT !.qty = left, !.realized = realized + pnl - fee]
  <2>2. position' = new
    BY <1>2, <1>11 DEF Updated
  <2>3. left \in Nat /\ pnl \in Int
    <3>1. p - entry \in Int
      BY <1>3, <1>4
    <3>2. Signed(position) \in Int
      BY PositionParts
    <3> HIDE DEF p, entry, q, qty
    <3> QED BY <1>3, <1>4, <3>1, <3>2
  <2>4. ~reversed' => ~reversed /\ q <= qty
    <3>1. q > qty => Reverses(o)
      BY <1>11 DEF Reverses
    <3> QED BY <1>3, <1>4, <1>8, <3>1
  <2>5. q <= qty => left = qty - q
    BY <1>3, <1>4
  <2> HIDE DEF pnl, left
  <2>6. /\ position' \in Positions /\ position'.side = position.side
        /\ position'.qty = left /\ position'.entry = entry
        /\ position'.realized = realized + pnl - fee
    <3> DEFINE gained == realized + pnl - fee
    <3>1. gained \in Int
      BY <1>3, <1>4, <2>3
    <3>2. position' = [position EXCEPT !.qty = left, !.realized = gained]
      BY <2>2
    <3> HIDE DEF gained
    <3>3. position \in Positions
      BY DEF BooksInv
    <3>4. /\ position' \in Positions /\ position'.side = position.side
          /\ position'.qty = left /\ position'.entry = entry /\ position'.realized = gained
      BY <2>3, <3>1, <3>2, <3>3 DEF Positions
    <3> QED BY <3>4 DEF gained
  <2>7. Signed(position)' = -s
    BY <2>1, <2>6 DEF Signed
  <2> HIDE DEF q, p, fee, s, start, qty, entry, realized, new
  <2>8. ~reversed' => balance' + (-s) * left * entry = start + (realized + pnl - fee)
    <3> SUFFICES ASSUME ~reversed'
                 PROVE  balance' + (-s) * left * entry = start + (realized + pnl - fee)
      OBVIOUS
    <3> DEFINE amount == q * p
               held == qty * entry
               closed == q * entry
    <3>1. amount \in Int /\ held \in Int /\ closed \in Int
      BY <1>3, <1>4
    <3>2. (-s) * left * entry = (-s) * (held - closed)
      <4>1. \A t \in {1, -1}, n, m, e \in Int : t * (n - m) * e = t * (n * e - m * e)
        OBVIOUS
      <4>2. -s \in {1, -1} /\ left = qty - q
        BY <1>3, <2>4, <2>5
      <4> QED BY <1>3, <1>4, <4>1, <4>2
    <3>3. pnl = (-s) * (amount - closed)
      <4>1. \A t \in {1, -1}, n, m, e \in Int : t * (m - e) * n = t * (n * m - n * e)
        OBVIOUS
      <4>2. -s \in {1, -1} /\ pnl = (-s) * (p - entry) * q
        BY <1>3, <2>1 DEF pnl
      <4> QED BY <1>3, <1>4, <4>1, <4>2
    <3>4. balance + (-s) * held = start + realized
      <4>1. \A t \in {1, -1}, n, m \in Int : t * n * m = t * (n * m)
        OBVIOUS
      <4>2. -s \in {1, -1} /\ balance + (-s) * qty * entry = start + realized
        BY <1>3, <1>7, <2>1, <2>4
      <4> QED BY <1>4, <4>1, <4>2
    <3>5. balance' = balance - s * amount - fee
      BY <1>5
    <3> HIDE DEF amount, held, closed
    <3>6. CASE s = 1
      BY <1>3, <1>4, <2>3, <3>1, <3>2, <3>3, <3>4, <3>5, <3>6
    <3>7. CASE s = -1
      BY <1>3, <1>4, <2>3, <3>1, <3>2, <3>3, <3>4, <3>5, <3>7
    <3> QED BY <1>3, <3>6, <3>7
  <2>9. BooksBalance'
    BY <2>6, <2>7, <2>8 DEF BooksBalance, start
  <2> QED BY <1>2, <1>5, <2>1, <2>6, <2>9 DEF BooksInv
<1> QED BY <1>9, <1>10, <1>11

LEMMA BooksInit == SimInit => BooksInv
<1> SUFFICES ASSUME SimInit PROVE BooksInv
  OBVIOUS
<1> DEFINE start == InitialBalance * Unit
<1>1. start \in Int
  BY SimulatorAssumption DEF Unit
<1>2. /\ position = NoPosition /\ balance = start /\ price = 0
      /\ position.side = "none" /\ position.qty = 0 /\ position.entry = 0 /\ position.realized = 0
      /\ position \in Positions
  BY DEF SimInit, NoPosition, Positions
<1>3. Signed(position) = 1
  BY <1>2 DEF Signed
<1> HIDE DEF start
<1>4. balance + Signed(position) * position.qty * position.entry = start + position.realized
  BY <1>1, <1>2, <1>3
<1> QED BY <1>1, <1>2, <1>4 DEF BooksInv, BooksBalance, start

LEMMA BooksStep ==
  RouterType /\ SimInv /\ BooksInv /\ ExactAverages /\ [Next]_vars => BooksInv'
<1> SUFFICES ASSUME RouterType, SimInv, BooksInv, ExactAverages, [Next]_vars PROVE BooksInv'
  OBVIOUS
<1>1. ASSUME UNCHANGED <<position, balance, reversed>>, price' \in Nat PROVE BooksInv'
  BY <1>1 DEF BooksInv, BooksBalance, Signed
<1>2. ASSUME UNCHANGED simVars PROVE BooksInv'
  BY <1>1, <1>2 DEF simVars, BooksInv
<1>3. ASSUME NEW c \in Callers, Call(c) PROVE BooksInv'
  <2>1. ASSUME NEW o, NEW id, PaperSubmit(o, id) PROVE BooksInv'
    BY <1>1, <2>1 DEF PaperSubmit, BooksInv
  <2>2. CASE SendPaper(c)
    BY <2>1, <2>2 DEF SendPaper
  <2>3. CASE \/ \E o \in Orders : Enter(c, o)
             \/ Route(c) \/ SendLive(c) \/ SendFails(c) \/ SubmitFailed(c) \/ SubmitAccepted(c)
    BY <1>2, <2>3 DEF Enter, Route, SendLive, SendFails, SubmitFailed, SubmitAccepted
  <2> QED BY <1>3, <2>2, <2>3 DEF Call
<1>4. ASSUME NEW f \in fillers, Fill(f) PROVE BooksInv'
  <2>1. CASE FillFindsNothing(f) \/ FillRejects(f)
    BY <1>1, <2>1 DEF FillFindsNothing, FillRejects, BooksInv
  <2>2. CASE FillFills(f)
    BY <2>2, FillBooks
  <2> QED BY <1>4, <2>1, <2>2 DEF Fill
<1>5. CASE Market
  <2>1. ASSUME NEW p \in Prices, UpdateMarketPrice(p) PROVE BooksInv'
    BY <1>1, <2>1, SimulatorAssumption DEF UpdateMarketPrice
  <2>2. CASE Reset
    <3> DEFINE start == InitialBalance * Unit
    <3>1. start \in Int
      BY SimulatorAssumption DEF Unit
    <3>2. /\ position' = NoPosition /\ balance' = start /\ price' = 0
          /\ position'.side = "none" /\ position'.qty = 0
          /\ position'.entry = 0 /\ position'.realized = 0 /\ position' \in Positions
      BY <2>2 DEF Reset, NoPosition, Positions
    <3>3. Signed(position)' = 1
      BY <3>2 DEF Signed
    <3> HIDE DEF start
    <3>4. balance' + Signed(position)' * position'.qty * position'.entry = start + position'.realized
      BY <3>1, <3>2, <3>3
    <3> QED BY <3>1, <3>2, <3>4 DEF BooksInv, BooksBalance, start
  <2>3. ASSUME NEW f \in fillers, FillAbandoned(f) PROVE BooksInv'
    BY <1>1, <2>3 DEF FillAbandoned, BooksInv
  <2> QED BY <1>5, <2>1, <2>2, <2>3 DEF Market
<1>6. ASSUME NEW o \in Orders, CancelOrder(o) PROVE BooksInv'
  BY <1>1, <1>6 DEF CancelOrder, PaperCancel, BooksInv
<1>7. ASSUME \/ CleanupTimedOutOrders \/ Tick
             \/ \E o \in Orders : ConfirmOrder(o)
             \/ \E m \in Modes : SetMode(m)
      PROVE  BooksInv'
  BY <1>2, <1>7 DEF CleanupTimedOutOrders, Tick, ConfirmOrder, SetMode
<1>8. CASE UNCHANGED vars
  BY <1>2, <1>8 DEF vars
<1> QED BY <1>3, <1>4, <1>5, <1>6, <1>7, <1>8 DEF Next, Outside

\* As long as the average entry prices come out even, money spent by the simulator is in
\* the position at cost or was realized, for any orders, prices, resets and cancels,
\* until a fill exceeds what it closes (service/paper/simulator.go).
THEOREM BooksTheorem == Spec /\ []ExactAverages => []BooksBalance
<1> DEFINE Inv == RouterType /\ SimInv /\ BooksInv
<1>1. Init => Inv
  BY RouterTypeInit, SimInvInit, BooksInit DEF Init
<1>2. Inv /\ ExactAverages /\ [Next]_vars => Inv'
  BY RouterTypeStep, SimStep, BooksStep
<1>3. Inv => BooksBalance
  BY DEF BooksInv
<1> HIDE DEF Inv
<1> QED BY <1>1, <1>2, <1>3, PTL DEF Spec

(***************************************************************************)
(* Types of the simulator and of the router                                *)
(***************************************************************************)

Holdings == [side : {"none", "Long", "Short"}, qty : Nat, entry : Nat, realized : Int]

LEMMA MeanTyped ==
  ASSUME NEW a \in Nat, NEW b \in Nat \ {0}
  PROVE  a \div b \in Nat
OBVIOUS

\* What updatePosition makes of a position: neither its quantity nor its entry price ever
\* falls below zero.
LEMMA UpdatedTyped ==
  ASSUME position \in Holdings, price \in Nat, NEW o \in Orders
  PROVE  Updated(o) \in Holdings
<1> DEFINE q == Quantity[o]
           p == FillPrice(o)
           fee == Commission(o)
           qty == position.qty
           entry == position.entry
           pnl == Signed(position) * (p - entry) * q
<1>1. q \in Nat \ {0} /\ p \in Nat /\ fee \in Int
  BY FillAmounts
<1>2. /\ qty \in Nat /\ entry \in Nat /\ position.realized \in Int
      /\ position.side \in {"none", "Long", "Short"} /\ Signed(position) \in Int
  BY DEF Holdings, Signed
<1>3. SideOf(o) \in {"none", "Long", "Short"}
  BY DEF SideOf
<1>4. CASE position.side = "none"
  <2>1. Updated(o) = [side |-> SideOf(o), qty |-> q, entry |-> p, realized |-> -fee]
    BY <1>4 DEF Updated
  <2>2. -fee \in Int
    BY <1>1
  <2> HIDE DEF q, p, fee
  <2> QED BY <1>1, <1>3, <2>1, <2>2 DEF Holdings
<1>5. CASE position.side = SideOf(o) /\ position.side # "none"
  <2> DEFINE mean == (qty * entry + q * p) \div (qty + q)
             more == qty + q
             left == position.realized - fee
  <2>1. Updated(o) = [position EXCEPT !.entry = mean, !.qty = more, !.realized = left]
    BY <1>5 DEF Updated
  <2>2. more \in Nat /\ left \in Int
    BY <1>1, <1>2
  <2>3. mean \in Nat
    <3>1. \A m, n \in Nat : m * n \in Nat
      OBVIOUS
    <3> HIDE DEF q, p, qty, entry
    <3>2. qty * entry + q * p \in Nat /\ qty + q \in Nat \ {0}
      BY <1>1, <1>2, <3>1
    <3> QED BY <3>2, MeanTyped
  <2> HIDE DEF mean, more, left
  <2> QED BY <2>1, <2>2, <2>3 DEF Holdings
<1>6. CASE position.side # SideOf(o) /\ position.side # "none"
  <2> DEFINE rest == IF q >= qty THEN 0 ELSE qty - q
             left == position.realized + pnl - fee
  <2>1. Updated(o) = [position EXCEPT !.qty = rest, !.realized = left]
    BY <1>6 DEF Updated
  <2>2. rest \in Nat
    <3> HIDE DEF q, qty
    <3> QED BY <1>1, <1>2
  <2>3. left \in Int
    <3>1. p - entry \in Int
      BY <1>1, <1>2
    <3>2. \A m, n \in Int : m * n \in Int
      OBVIOUS
    <3>3. pnl \in Int
      <4> HIDE DEF p, q, entry
      <4> QED BY <1>1, <1>2, <3>1, <3>2
    <3> HIDE DEF pnl, fee
    <3> QED BY <1>1, <1>2, <3>3
  <2> HIDE DEF rest, left
  <2> QED BY <2>1, <2>2, <2>3 DEF Holdings
<1> QED BY <1>4, <1>5, <1>6

LEMMA SimTypeInit == SimInit => SimTypeOK
<1> SUFFICES ASSUME SimInit PROVE SimTypeOK
  OBVIOUS
<1>1. InitialBalance * Unit \in Int
  BY SimulatorAssumption DEF Unit
<1>2. NoPosition \in Holdings
  BY DEF NoPosition, Holdings
<1>3. DOMAIN virtual = {}
  BY DEF SimInit
<1>4. /\ position \in [side : {"none", "Long", "Short"}, qty : Nat, entry : Nat, realized : Int]
      /\ balance \in Int /\ price = 0
  BY <1>1, <1>2 DEF SimInit, Holdings
<1>5. /\ 0 \in 0..MaxPaper /\ lastId = 0 /\ paperSent = 0
      /\ fillers = {} /\ abandoned = {} /\ reversed = FALSE
  BY SimulatorAssumption DEF SimInit
<1>6. /\ DOMAIN virtual \subseteq PaperIds
      /\ \A id \in DOMAIN virtual : virtual[id] \in [of : Orders, status : Statuses]
  BY <1>3
<1>7. /\ fillers \subseteq [n : 1..MaxPaper, id : PaperIds]
      /\ abandoned \subseteq PaperIds /\ reversed \in BOOLEAN
  BY <1>5
<1>8. lastId \in 0..MaxPaper /\ paperSent \in 0..MaxPaper /\ lastId <= paperSent
  BY <1>5
<1> QED BY <1>4, <1>6, <1>7, <1>8, Zenon DEF SimTypeOK

\* What a step leaves of the types, if it touches neither the orders nor the money.
LEMMA StatusTyped ==
  ASSUME SimInv, SimTypeOK, NEW id \in DOMAIN virtual, NEW status \in Statuses,
         virtual' = [virtual EXCEPT ![id].status = status]
  PROVE  /\ DOMAIN virtual' \subseteq PaperIds
         /\ \A i \in DOMAIN virtual' : virtual'[i] \in [of : Orders, status : Statuses]
<1> DEFINE decided == [virtual[id] EXCEPT !.status = status]
<1>1. decided \in PaperOrders
  BY DEF SimInv, PaperOrders
<1>2. virtual' = [virtual EXCEPT ![id] = decided]
  OBVIOUS
<1> HIDE DEF decided
<1> QED BY <1>1, <1>2 DEF SimInv, SimTypeOK, PaperOrders

LEMMA SubmitTyped ==
  ASSUME SimInv, SimTypeOK, NEW o \in Orders, NEW id \in PaperIds, PaperSubmit(o, id)
  PROVE  SimTypeOK'
<1> DEFINE placed == [of |-> o, status |-> "Submitted"]
<1>1. placed \in [of : Orders, status : Statuses]
  BY DEF Statuses
<1>2. virtual' = [i \in DOMAIN virtual \cup {id} |-> IF i = id THEN placed ELSE virtual[i]]
  BY DEF PaperSubmit
<1> HIDE DEF placed
<1>3. /\ DOMAIN virtual' \subseteq PaperIds
      /\ \A i \in DOMAIN virtual' : virtual'[i] \in [of : Orders, status : Statuses]
  BY <1>1, <1>2 DEF SimTypeOK
<1>4. /\ lastId' \in 0..MaxPaper /\ paperSent' \in 0..MaxPaper /\ lastId' <= paperSent'
      /\ paperSent + 1 \in 1..MaxPaper
  BY SimulatorAssumption DEF PaperSubmit, SimTypeOK, PaperIds
<1>5. fillers' \subseteq [n : 1..MaxPaper, id : PaperIds]
  BY <1>4 DEF PaperSubmit, SimTypeOK
<1> QED BY <1>3, <1>4, <1>5 DEF PaperSubmit, SimTypeOK

LEMMA FillTyped ==
  ASSUME SimInv, SimTypeOK, NEW f \in fillers, Fill(f)
  PROVE  SimTypeOK'
<1>1. CASE FillFindsNothing(f)
  BY <1>1 DEF FillFindsNothing, SimTypeOK
<1>2. CASE FillRejects(f)
  <2>1. "Rejected" \in Statuses
    BY DEF Statuses
  <2>2. /\ DOMAIN virtual' \subseteq PaperIds
        /\ \A i \in DOMAIN virtual' : virtual'[i] \in [of : Orders, status : Statuses]
    BY <1>2, <2>1, StatusTyped DEF FillRejects
  <2> QED BY <1>2, <2>2 DEF FillRejects, SimTypeOK
<1>3. CASE FillFills(f)
  <2> DEFINE o == virtual[f.id].of
  <2>1. o \in Orders /\ f.id \in DOMAIN virtual
    BY <1>3 DEF FillFills, SimTypeOK
  <2>2. "Filled" \in Statuses
    BY DEF Statuses
  <2>3. /\ DOMAIN virtual' \subseteq PaperIds
        /\ \A i \in DOMAIN virtual' : virtual'[i] \in [of : Orders, status : Statuses]
    BY <1>3, <2>1, <2>2, StatusTyped DEF FillFills
  <2>4. price \in Nat /\ position \in Holdings /\ balance \in Int
    BY SimulatorAssumption DEF SimTypeOK, Holdings
  <2>5. /\ balance' = IF o \in Buys THEN balance - Required(o)
                                    ELSE balance + Notional(o) - Commission(o)
        /\ position' = Updated(o) /\ reversed' = (reversed \/ Reverses(o))
    BY <1>3 DEF FillFills
  <2>6. /\ UNCHANGED <<price, lastId, paperSent, abandoned>>
        /\ fillers' = fillers \ {f}
    BY <1>3 DEF FillFills
  <2> HIDE DEF o
  <2>7. position' \in Holdings
    BY <2>1, <2>4, <2>5, UpdatedTyped
  <2>8. balance' \in Int
    <3>1. Notional(o) \in Nat /\ Commission(o) \in Int
      BY <2>1, <2>4, FillAmounts
    <3>2. Required(o) = Notional(o) + Commission(o)
      BY DEF Required
    <3> QED BY <2>4, <2>5, <3>1, <3>2
  <2>9. reversed' \in BOOLEAN
    BY <2>5, Zenon DEF SimTypeOK
  <2> QED BY <2>3, <2>6, <2>7, <2>8, <2>9 DEF SimTypeOK, Holdings
<1> QED BY <1>1, <1>2, <1>3 DEF Fill

LEMMA MarketTyped ==
  ASSUME SimTypeOK, Market
  PROVE  SimTypeOK'
<1>1. ASSUME NEW p \in Prices, UpdateMarketPrice(p) PROVE SimTypeOK'
  BY <1>1 DEF UpdateMarketPrice, SimTypeOK
<1>2. CASE Reset
  <2>1. InitialBalance * Unit \in Int
    BY SimulatorAssumption DEF Unit
  <2>2. NoPosition \in Holdings
    BY DEF NoPosition, Holdings
  <2>3. DOMAIN virtual' = {}
    BY <1>2 DEF Reset
  <2> QED BY <1>2, <2>1, <2>2, <2>3 DEF Reset, SimTypeOK, Holdings
<1>3. ASSUME NEW f \in fillers, FillAbandoned(f) PROVE SimTypeOK'
  BY <1>3 DEF FillAbandoned, SimTypeOK
<1> QED BY <1>1, <1>2, <1>3 DEF Market

LEMMA SimTypeStep == RouterType /\ SimInv /\ SimTypeOK /\ [Next]_vars => SimTypeOK'
<1> SUFFICES ASSUME RouterType, SimInv, SimTypeOK, [Next]_vars PROVE SimTypeOK'
  OBVIOUS
<1>1. CASE UNCHANGED simVars
  BY <1>1 DEF simVars, SimTypeOK
<1>2. ASSUME NEW c \in Callers, SendPaper(c) PROVE SimTypeOK'
  <2>1. call[c].order \in Orders
    BY <1>2, NotIdle DEF RouterType, SendPaper, Calls
  <2> QED BY <1>2, <2>1, SubmitTyped DEF SendPaper
<1>3. ASSUME NEW o \in Orders, CancelOrder(o) PROVE SimTypeOK'
  <2> DEFINE id == exchangeId[o][2]
  <2>1. PaperCancel(id)
    BY <1>3 DEF CancelOrder
  <2>2. "Canceled" \in Statuses
    BY DEF Statuses
  <2> HIDE DEF id
  <2>3. /\ DOMAIN virtual' \subseteq PaperIds
        /\ \A i \in DOMAIN virtual' : virtual'[i] \in [of : Orders, status : Statuses]
    BY <2>1, <2>2, StatusTyped DEF PaperCancel
  <2> QED BY <2>1, <2>3 DEF PaperCancel, SimTypeOK
<1>4. CASE \E f \in fillers : Fill(f) /\ UNCHANGED routerVars
  BY <1>4, FillTyped
<1>5. CASE Market
  BY <1>5, MarketTyped
<1>6. ASSUME NEW c \in Callers,
             \/ \E o \in Orders : Enter(c, o)
             \/ Route(c) \/ SendLive(c) \/ SendFails(c) \/ SubmitFailed(c) \/ SubmitAccepted(c)
      PROVE  UNCHANGED simVars
  BY <1>6 DEF Enter, Route, SendLive, SendFails, SubmitFailed, SubmitAccepted
<1>7. ASSUME \/ CleanupTimedOutOrders \/ Tick
             \/ \E o \in Orders : ConfirmOrder(o)
             \/ \E m \in Modes : SetMode(m)
      PROVE  UNCHANGED simVars
  BY <1>7 DEF CleanupTimedOutOrders, Tick, ConfirmOrder, SetMode
<1>8. CASE UNCHANGED vars
  BY <1>1, <1>8 DEF vars
<1> QED BY <1>1, <1>2, <1>3, <1>4, <1>5, <1>6, <1>7, <1>8 DEF Next, Call, Outside

\* No clock runs ahead of the events, and an entry was made by the clock of its day.
TableTyped ==
  /\ \A o \in DOMAIN inFlight : inFlight[o] \in [since : 0..MaxEvents, by : Callers]
  /\ events \in 0..MaxEvents /\ now \in 0..events
  /\ exchangeId \in [Orders -> Ids]

LEMMA TableTypedStep == RouterType /\ TableTyped /\ [Next]_vars => TableTyped'
<1> SUFFICES ASSUME RouterType, TableTyped, [Next]_vars PROVE TableTyped'
  OBVIOUS
<1>1. ASSUME NEW S, Release(S), UNCHANGED <<now, exchangeId>>, events' \in {events, events + 1},
             events' \in 0..MaxEvents
      PROVE  TableTyped'
  <2>1. /\ DOMAIN inFlight' \subseteq DOMAIN inFlight
        /\ \A o \in DOMAIN inFlight' : inFlight'[o] = inFlight[o]
    BY <1>1 DEF Release
  <2>2. now' \in 0..events'
    BY <1>1, RouterAssumption DEF TableTyped
  <2> QED BY <1>1, <2>1, <2>2 DEF TableTyped
<1>2. ASSUME UNCHANGED <<inFlight, exchangeId>>, events' \in 0..MaxEvents,
             \/ UNCHANGED now /\ events' \in {events, events + 1}
             \/ now' = now + 1 /\ events' = events + 1
      PROVE  TableTyped'
  <2>1. now' \in 0..events'
    BY <1>2, RouterAssumption DEF TableTyped
  <2> QED BY <1>2, <2>1 DEF TableTyped
<1>3. ASSUME UNCHANGED <<inFlight, exchangeId, now, events>> PROVE TableTyped'
  BY <1>3 DEF TableTyped
<1>4. ASSUME NEW c \in Callers, NEW o \in Orders, Enter(c, o) PROVE TableTyped'
  <2> DEFINE entry == [since |-> now, by |-> c]
  <2>1. now \in 0..MaxEvents
    BY RouterAssumption DEF TableTyped
  <2>2. entry \in [since : 0..MaxEvents, by : Callers]
    BY <2>1
  <2>3. inFlight' = [x \in DOMAIN inFlight \cup {o} |-> IF x = o THEN entry ELSE inFlight[x]]
    BY <1>4 DEF Enter
  <2> HIDE DEF entry
  <2>4. \A x \in DOMAIN inFlight' : inFlight'[x] \in [since : 0..MaxEvents, by : Callers]
    BY <2>2, <2>3 DEF TableTyped
  <2>5. UNCHANGED <<now, exchangeId, events>>
    BY <1>4 DEF Enter
  <2> QED BY <2>4, <2>5 DEF TableTyped
<1>5. ASSUME NEW c \in Callers, Route(c) \/ SendPaper(c) \/ SendLive(c) \/ SendFails(c)
      PROVE  UNCHANGED <<inFlight, exchangeId, now, events>>
  BY <1>5 DEF Route, SendPaper, SendLive, SendFails
<1>6. ASSUME NEW c \in Callers, SubmitFailed(c) PROVE TableTyped'
  <2>1. Release({call[c].order}) /\ UNCHANGED <<now, exchangeId, events>>
    BY <1>6 DEF SubmitFailed
  <2>2. events' \in 0..MaxEvents
    BY <2>1 DEF TableTyped
  <2> QED BY <1>1, <2>1, <2>2
<1>7. ASSUME NEW c \in Callers, SubmitAccepted(c) PROVE TableTyped'
  <2>1. call[c].id \in Ids
    BY <1>7, NotIdle DEF RouterType, SubmitAccepted, Calls
  <2>2. exchangeId' \in [Orders -> Ids]
    BY <1>7, <2>1 DEF SubmitAccepted, TableTyped
  <2>3. UNCHANGED <<inFlight, now, events>>
    BY <1>7 DEF SubmitAccepted
  <2> QED BY <2>2, <2>3 DEF TableTyped
<1>8. CASE CleanupTimedOutOrders
  <2>1. Release(Expired) /\ UNCHANGED <<now, exchangeId, events>>
    BY <1>8 DEF CleanupTimedOutOrders
  <2>2. events' \in 0..MaxEvents
    BY <2>1 DEF TableTyped
  <2> QED BY <1>1, <2>1, <2>2
<1>9. CASE Outside
  <2>1. events' = events + 1 /\ events' \in 0..MaxEvents
    BY <1>9, RouterAssumption DEF Outside, TableTyped
  <2>2. ASSUME NEW o \in Orders, ConfirmOrder(o) PROVE TableTyped'
    BY <1>1, <2>1, <2>2 DEF ConfirmOrder
  <2>3. ASSUME \/ \E o \in Orders : CancelOrder(o)
               \/ \E m \in Modes : SetMode(m)
               \/ Market
        PROVE  UNCHANGED <<inFlight, exchangeId, now>>
    BY <2>3 DEF CancelOrder, SetMode, Market
  <2>4. ASSUME Tick PROVE TableTyped'
    BY <1>2, <2>1, <2>4 DEF Tick
  <2>5. ASSUME UNCHANGED <<inFlight, exchangeId, now>> PROVE TableTyped'
    BY <1>2, <2>1, <2>5
  <2> QED BY <1>9, <2>2, <2>3, <2>4, <2>5 DEF Outside
<1>10. CASE \E f \in fillers : Fill(f) /\ UNCHANGED routerVars
  BY <1>3, <1>10 DEF routerVars
<1>11. CASE UNCHANGED vars
  BY <1>3, <1>11 DEF vars, routerVars
<1> QED BY <1>3, <1>4, <1>5, <1>6, <1>7, <1>8, <1>9, <1>10, <1>11 DEF Next, Call

\* What the router and the simulator keep has its types, for any orders, prices, callers
\* and bounds: a position is never less than nothing at less than nothing, whatever fills,
\* resets and average prices come, and an order has only ids a venue gave
\* (service/router/order_router.go, service/paper/simulator.go).
THEOREM RouterTypeTheorem == Spec => []TypeOK
<1> DEFINE Inv == RouterType /\ SimInv /\ SimTypeOK /\ TableTyped
<1>1. Init => Inv
  <2> SUFFICES ASSUME Init PROVE Inv
    OBVIOUS
  <2>1. SimTypeOK /\ SimInv /\ RouterType
    BY RouterTypeInit, SimInvInit, SimTypeInit DEF Init
  <2>2. TableTyped
    BY RouterAssumption DEF Init, TableTyped, Ids
  <2> QED BY <2>1, <2>2
<1>2. Inv /\ [Next]_vars => Inv'
  BY RouterTypeStep, SimStep, SimTypeStep, TableTypedStep
<1>3. Inv => TypeOK
  <2> SUFFICES ASSUME Inv PROVE TypeOK
    OBVIOUS
  <2>1. now \in 0..MaxEvents /\ events \in 0..MaxEvents
    BY RouterAssumption DEF TableTyped
  <2> QED BY <2>1 DEF RouterType, TableTyped, Calls, Places, TypeOK
<1> HIDE DEF Inv
<1> QED BY <1>1, <1>2, <1>3, PTL DEF Spec
=============================================================================
