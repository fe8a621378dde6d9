------------------------ MODULE RuntimeSafetyProofs ------------------------
(***************************************************************************)
(* Theorems about RuntimeSafety for any number of processes and callers.   *)
(***************************************************************************)
EXTENDS RuntimeSafety, TLAPS

USE DEF ServiceCalls

-----------------------------------------------------------------------------
(* The operators of the module map statuses to statuses. *)

\* A new manager's status is a status.
LEMMA NewStatusType == NewStatus \in StatusRecords
BY DEF NewStatus, StatusRecords, RunModes, HaltReasons

\* Every service call asks for a run mode, and a halt is only asked for by
\* EmergencyStop, idle only by StopAll, live trading only by StartLive.
LEMMA TargetType ==
  ASSUME NEW op \in ServiceCalls
  PROVE  /\ Target(op) \in RunModes
         /\ Target(op) = "halted" <=> op = "EmergencyStop"
         /\ Target(op) = "idle" <=> op = "StopAll"
         /\ Target(op) = "live_trading" <=> op = "StartLive"
BY DEF Target, RunModes, ActiveModes, TradingModes

\* Manager.Transition yields a status in the mode that was asked for; it is
\* halted with a reason or idle without one.
LEMMA TransitionedType ==
  ASSUME NEW s \in StatusRecords, NEW to \in RunModes
  PROVE  /\ Transitioned(s, to, "emergency stop") \in StatusRecords
         /\ Transitioned(s, to, "emergency stop").mode = to
         /\ Transitioned(s, to, "emergency stop").license = s.license
         /\ ReasonMatches(Transitioned(s, to, "emergency stop"))
BY DEF Transitioned, StatusRecords, RunModes, HaltReasons, ReasonMatches, ActiveModes, TradingModes

\* RestoreSafetySnapshot yields an idle status without a halt reason or a halted
\* one with a reason, whatever the snapshot holds.
LEMMA RestoredType ==
  ASSUME NEW s \in StatusRecords
  PROVE  /\ Restored(s) \in StatusRecords
         /\ Restored(s).mode \in {"idle", "halted"}
         /\ Restored(s).haltReason # "" <=> Restored(s).mode = "halted"
         /\ s.mode # "idle" => Restored(s).mode = "halted"
BY DEF Restored, StatusRecords, RunModes, HaltReasons, ActiveModes, TradingModes

\* The snapshot that stands for an unreadable file is a halted status.
LEMMA UnreadableType ==
  /\ UnreadableSnapshot \in StatusRecords
  /\ UnreadableSnapshot.mode = "halted"
  /\ UnreadableSnapshot.haltReason # ""
BY DEF UnreadableSnapshot, NewStatus, StatusRecords, RunModes, HaltReasons

\* A clock drift changes neither the mode, the reason nor the license.
LEMMA DriftedType ==
  ASSUME NEW s \in StatusRecords, NEW d \in Drifts
  PROVE  /\ Drifted(s, d) \in StatusRecords
         /\ Drifted(s, d).mode = s.mode
         /\ Drifted(s, d).haltReason = s.haltReason
         /\ Drifted(s, d).license = s.license
BY ZenonT(60) DEF Drifted, StatusRecords

\* SetLicense and SetConnectivity change one field of a status.
LEMMA FieldsType ==
  ASSUME NEW s \in StatusRecords
  PROVE  /\ [s EXCEPT !.license = "licensed"] \in StatusRecords
         /\ [s EXCEPT !.connectivity = "network_waiting"] \in StatusRecords
BY DEF StatusRecords

\* A caller that has not begun a call is a caller record.
LEMMA NewCallerType == NewCaller \in CallerRecords
BY DEF NewCaller, CallerRecords, CallSteps

\* A caller that goes on inside a call of its own keeps the callers' type.
LEMMA CallerStepType ==
  ASSUME CallersTypeOK, NEW c \in Callers, NEW r \in CallerRecords,
         r.at # "idle" => r.op \in Calls,
         r.at = "save" => r.snap \in StatusRecords,
         caller' = [caller EXCEPT ![c] = r]
  PROVE  CallersTypeOK'
BY DEF CallersTypeOK

\* A returning call leaves a caller with a result and no snapshot.
LEMMA ReturnType ==
  ASSUME TypeOK, NEW c \in Callers, NEW r \in {"ok", "error"}, Return(c, r)
  PROVE  CallersTypeOK' /\ stopAcked' \in BOOLEAN
<1> DEFINE rec == [caller[c] EXCEPT !.at = "idle", !.then = "return",
                                    !.snap = NoStatus, !.result = r]
<1>1. rec \in CallerRecords /\ rec.at = "idle"
  BY ZenonT(60) DEF TypeOK, CallersTypeOK, CallerRecords, CallSteps
<1>2. caller' = [caller EXCEPT ![c] = rec]
  BY DEF Return
<1>3. CallersTypeOK'
  BY <1>1, <1>2, CallerStepType DEF TypeOK
<1> QED BY <1>3 DEF Return, TypeOK

\* A step to the next lock of a call keeps the callers' type.
LEMMA GoToType ==
  ASSUME TypeOK, NEW c \in Callers, NEW s \in CallSteps \ {"idle", "save"},
         caller[c].at # "idle", GoTo(c, s)
  PROVE  CallersTypeOK'
<1> DEFINE rec == [caller[c] EXCEPT !.at = s]
<1>1. rec \in CallerRecords /\ rec.at = s /\ rec.op \in Calls
  BY DEF TypeOK, CallersTypeOK, CallerRecords, CallSteps
<1>2. caller' = [caller EXCEPT ![c] = rec]
  BY DEF GoTo
<1> QED BY <1>1, <1>2, CallerStepType DEF TypeOK

\* So does the step after which a call persists the status.
LEMMA PersistThenType ==
  ASSUME TypeOK, NEW c \in Callers, NEW s \in {"machine", "connectivity", "return"},
         caller[c].at # "idle", PersistThen(c, s)
  PROVE  CallersTypeOK'
<1> DEFINE rec == [caller[c] EXCEPT !.at = "snapshot", !.then = s]
<1>1. rec \in CallerRecords /\ rec.at = "snapshot" /\ rec.op \in Calls
  BY ZenonT(60) DEF TypeOK, CallersTypeOK, CallerRecords, CallSteps
<1>2. caller' = [caller EXCEPT ![c] = rec]
  BY DEF PersistThen
<1> QED BY <1>1, <1>2, CallerStepType DEF TypeOK

-----------------------------------------------------------------------------
(* Type correctness. *)

\* Every step keeps every variable in its type.
LEMMA TypeStep == TypeOK /\ [Next]_vars => TypeOK'
<1> SUFFICES ASSUME TypeOK, [Next]_vars PROVE TypeOK'
  OBVIOUS
<1> USE OwnerAssumption, CallsAssumption, DriftsAssumption
<1>1. ASSUME NEW c \in Callers, NEW op \in Calls, Call(c, op) PROVE TypeOK'
  <2> DEFINE rec == [NewCaller EXCEPT
               !.at = IF op = "StartLive" THEN "disclaimer" ELSE "machine", !.op = op]
  <2>1. rec \in CallerRecords /\ rec.op \in Calls /\ rec.at # "save"
    BY DEF NewCaller, CallerRecords, CallSteps
  <2>2. caller' = [caller EXCEPT ![c] = rec]
    BY <1>1 DEF Call
  <2>3. CallersTypeOK'
    BY <2>1, <2>2, CallerStepType DEF TypeOK
  <2>4. requested' \in [Procs -> SUBSET RunModes]
    BY <1>1, TargetType DEF Call, TypeOK
  <2> QED BY <1>1, <2>3, <2>4 DEF Call, TypeOK
<1>2. ASSUME NEW c \in Callers, CheckDisclaimer(c) PROVE TypeOK'
  <2>1. CASE GoTo(c, "license") /\ UNCHANGED stopAcked
    <3>1. CallersTypeOK'
      BY <1>2, <2>1, GoToType DEF CheckDisclaimer, CallSteps
    <3> QED BY <1>2, <2>1, <3>1 DEF CheckDisclaimer, TypeOK
  <2>2. CASE Return(c, "error")
    BY <1>2, <2>2, ReturnType DEF CheckDisclaimer, TypeOK
  <2> QED BY <1>2, <2>1, <2>2 DEF CheckDisclaimer
<1>3. ASSUME NEW c \in Callers, SetLicense(c) PROVE TypeOK'
  <2>1. OwnerOf[c] \in Procs
    OBVIOUS
  <2>2. status' \in [Procs -> StatusRecords]
    BY <1>3, <2>1, FieldsType DEF SetLicense, TypeOK
  <2>3. CallersTypeOK'
    BY <1>3, PersistThenType DEF SetLicense
  <2> QED BY <1>3, <2>2, <2>3 DEF SetLicense, TypeOK
<1>4. ASSUME NEW c \in Callers, MachineStep(c) PROVE TypeOK'
  <2>1. CASE MachineAllows(machine[OwnerOf[c]], Target(caller[c].op))
    <3>1. Target(caller[c].op) \in RunModes
      BY <1>4, TargetType DEF MachineStep, TypeOK, CallersTypeOK
    <3>2. CallersTypeOK'
      BY <1>4, <2>1, GoToType DEF MachineStep, CallSteps
    <3> QED BY <1>4, <2>1, <3>1, <3>2 DEF MachineStep, TypeOK
  <2>2. CASE ~MachineAllows(machine[OwnerOf[c]], Target(caller[c].op))
    BY <1>4, <2>2, ReturnType DEF MachineStep, TypeOK
  <2> QED BY <2>1, <2>2
<1>5. ASSUME NEW c \in Callers, StatusStep(c) PROVE TypeOK'
  <2>1. OwnerOf[c] \in Procs /\ Target(caller[c].op) \in RunModes
    BY <1>5, TargetType DEF StatusStep, TypeOK, CallersTypeOK
  <2>2. status' \in [Procs -> StatusRecords]
    BY <1>5, <2>1, TransitionedType DEF StatusStep, TypeOK
  <2>3. CallersTypeOK'
    <3>1. CASE caller[c].op = "EmergencyStop"
      BY <1>5, <3>1, PersistThenType DEF StatusStep
    <3>2. CASE caller[c].op # "EmergencyStop"
      BY <1>5, <3>2, PersistThenType DEF StatusStep
    <3> QED BY <3>1, <3>2
  <2> QED BY <1>5, <2>2, <2>3 DEF StatusStep, TypeOK
<1>6. ASSUME NEW c \in Callers, SetConnectivity(c) PROVE TypeOK'
  <2>1. OwnerOf[c] \in Procs
    OBVIOUS
  <2>2. status' \in [Procs -> StatusRecords]
    BY <1>6, <2>1, FieldsType DEF SetConnectivity, TypeOK
  <2>3. CallersTypeOK'
    BY <1>6, PersistThenType DEF SetConnectivity
  <2> QED BY <1>6, <2>2, <2>3 DEF SetConnectivity, TypeOK
<1>7. ASSUME NEW c \in Callers, TakeSnapshot(c) PROVE TypeOK'
  <2> DEFINE rec == [caller[c] EXCEPT !.at = "save", !.snap = status[OwnerOf[c]]]
  <2>1. status[OwnerOf[c]] \in StatusRecords
    BY DEF TypeOK
  <2>2. rec \in CallerRecords /\ rec.op \in Calls /\ rec.snap \in StatusRecords
    BY <1>7, <2>1, ZenonT(60) DEF TakeSnapshot, TypeOK, CallersTypeOK, CallerRecords, CallSteps
  <2>3. caller' = [caller EXCEPT ![c] = rec]
    BY <1>7 DEF TakeSnapshot
  <2>4. CallersTypeOK'
    BY <2>2, <2>3, CallerStepType DEF TypeOK
  <2> QED BY <1>7, <2>4 DEF TakeSnapshot, TypeOK
<1>8. ASSUME NEW c \in Callers, Save(c) PROVE TypeOK'
  <2>1. disk' \in StatusRecords \cup {NoStatus}
    BY <1>8 DEF Save, TypeOK, CallersTypeOK
  <2>2. CASE caller[c].then = "return"
    BY <1>8, <2>1, <2>2, ReturnType DEF Save, TypeOK
  <2>3. CASE caller[c].then # "return"
    <3> DEFINE rec == [caller[c] EXCEPT !.at = caller[c].then, !.then = "return",
                                        !.snap = NoStatus]
    <3>1. /\ rec \in CallerRecords
          /\ rec.op \in Calls
          /\ rec.at \in {"machine", "connectivity"}
      BY <1>8, <2>3 DEF Save, TypeOK, CallersTypeOK, CallerRecords, CallSteps
    <3>2. caller' = [caller EXCEPT ![c] = rec]
      BY <1>8, <2>3 DEF Save
    <3>3. CallersTypeOK'
      BY <3>1, <3>2, CallerStepType DEF TypeOK
    <3> QED BY <1>8, <2>1, <2>3, <3>3 DEF Save, TypeOK
  <2> QED BY <2>2, <2>3
<1>9. ASSUME NEW c \in Callers, SaveFails(c) PROVE TypeOK'
  BY <1>9, ReturnType DEF SaveFails, TypeOK
<1>10. ASSUME NEW p \in Procs, Boot(p) PROVE TypeOK'
  <2>1. PICK s \in {IF disk = NoStatus \/ p \in Commands THEN NewStatus
                     ELSE Restored(disk),
                    UnreadableSnapshot} :
          /\ status' = [status EXCEPT ![p] = s]
          /\ machine' = [machine EXCEPT ![p] = s.mode]
    BY <1>10 DEF Boot
  <2>2. s \in StatusRecords
    BY NewStatusType, RestoredType, UnreadableType DEF TypeOK
  <2>3. s.mode \in RunModes
    BY <2>2 DEF StatusRecords
  <2> QED BY <1>10, <2>1, <2>2, <2>3 DEF Boot, TypeOK, CallersTypeOK
<1>11. ASSUME NEW p \in Procs, BootPersist(p) PROVE TypeOK'
  BY <1>11 DEF BootPersist, TypeOK, CallersTypeOK
<1>12. ASSUME NEW p \in Procs, Crash(p) PROVE TypeOK'
  <2>1. CallersTypeOK'
    <3> DEFINE lost(c) == [NewCaller EXCEPT !.op = caller[c].op, !.result = "lost"]
    <3>1. \A c \in Callers : lost(c) \in CallerRecords /\ lost(c).at = "idle"
      BY DEF TypeOK, CallersTypeOK, NewCaller, CallerRecords, CallSteps
    <3>2. caller' = [c \in Callers |-> IF OwnerOf[c] = p THEN lost(c) ELSE caller[c]]
      BY <1>12 DEF Crash
    <3> HIDE DEF lost
    <3> QED BY <3>1, <3>2 DEF TypeOK, CallersTypeOK
  <2> QED BY <1>12, <2>1, NewStatusType DEF Crash, TypeOK, RunModes
<1>13. ASSUME NEW p \in Procs, NEW d \in Drifts, NTPTick(p, d) PROVE TypeOK'
  BY <1>13, DriftedType DEF NTPTick, TypeOK, CallersTypeOK
<1>14. CASE AcceptDisclaimer
  BY <1>14 DEF AcceptDisclaimer, TypeOK, CallersTypeOK
<1>15. CASE UNCHANGED vars
  BY <1>15 DEF vars, TypeOK, CallersTypeOK
<1> QED
  BY <1>1, <1>2, <1>3, <1>4, <1>5, <1>6, <1>7, <1>8, <1>9, <1>10, <1>11, <1>12,
     <1>13, <1>14, <1>15 DEF Next, CallStep, ProcStep

\* The type invariant holds for any number of processes and callers.
THEOREM TypeCorrect == Spec => []TypeOK
<1>1. Init => TypeOK
  <2> SUFFICES ASSUME Init PROVE TypeOK
    OBVIOUS
  <2>1. CallersTypeOK
    BY NewCallerType DEF Init, CallersTypeOK, NewCaller
  <2> QED BY <2>1, NewStatusType DEF Init, TypeOK, RunModes
<1> QED BY <1>1, TypeStep, PTL DEF Spec

-----------------------------------------------------------------------------
(* A halted status has its reason and an idle one has none. *)

\* Neither clearing a status nor the updates of single fields separate a mode
\* from its halt reason.
LEMMA ReasonKept ==
  /\ ReasonMatches(NewStatus) /\ ReasonMatches(NoStatus)
  /\ ReasonMatches(UnreadableSnapshot)
  /\ \A s \in StatusRecords :
       /\ ReasonMatches(Restored(s))
       /\ ReasonMatches(s) =>
            /\ ReasonMatches([s EXCEPT !.license = "licensed"])
            /\ ReasonMatches([s EXCEPT !.connectivity = "network_waiting"])
            /\ \A d \in Drifts : ReasonMatches(Drifted(s, d))
<1>1. \A s \in StatusRecords : ReasonMatches(Restored(s))
  BY RestoredType DEF ReasonMatches
<1>2. \A s \in StatusRecords, d \in Drifts : ReasonMatches(s) => ReasonMatches(Drifted(s, d))
  BY DriftedType DEF ReasonMatches
<1>3. \A s \in StatusRecords : ReasonMatches(s) =>
            /\ ReasonMatches([s EXCEPT !.license = "licensed"])
            /\ ReasonMatches([s EXCEPT !.connectivity = "network_waiting"])
  BY DEF ReasonMatches, StatusRecords
<1>4. ReasonMatches(NewStatus) /\ ReasonMatches(NoStatus)
  BY DEF ReasonMatches, NewStatus, NoStatus
<1>5. ReasonMatches(UnreadableSnapshot)
  BY UnreadableType DEF ReasonMatches
<1> QED BY <1>1, <1>2, <1>3, <1>4, <1>5

\* Every step keeps modes and reasons together, in memory, on their way to the
\* file and in the file.
LEMMA ReasonStep == TypeOK /\ HaltReasonMatchesMode /\ [Next]_vars => HaltReasonMatchesMode'
<1> SUFFICES ASSUME TypeOK, HaltReasonMatchesMode, [Next]_vars PROVE HaltReasonMatchesMode'
  OBVIOUS
<1> USE OwnerAssumption, CallsAssumption, DriftsAssumption
<1>a. ASSUME NEW c \in Callers, NEW r \in {"ok", "error"}, Return(c, r)
      PROVE  \A d \in Callers : ReasonMatches(caller'[d].snap)
  BY <1>a, ReasonKept DEF Return, TypeOK, CallersTypeOK, CallerRecords, HaltReasonMatchesMode
<1>1. ASSUME NEW c \in Callers, NEW op \in Calls, Call(c, op) PROVE HaltReasonMatchesMode'
  <2>1. \A d \in Callers : caller'[d].snap = IF d = c THEN NoStatus ELSE caller[d].snap
    BY <1>1 DEF Call, NewCaller, TypeOK, CallersTypeOK
  <2> QED BY <1>1, <2>1, ReasonKept DEF Call, HaltReasonMatchesMode
<1>2. ASSUME NEW c \in Callers, CheckDisclaimer(c) PROVE HaltReasonMatchesMode'
  <2>1. CASE GoTo(c, "license")
    BY <1>2, <2>1 DEF CheckDisclaimer, GoTo, TypeOK, CallersTypeOK, CallerRecords, HaltReasonMatchesMode
  <2>2. CASE Return(c, "error")
    BY <1>2, <2>2, <1>a DEF CheckDisclaimer, HaltReasonMatchesMode
  <2> QED BY <1>2, <2>1, <2>2 DEF CheckDisclaimer
<1>b. ASSUME NEW c \in Callers, NEW s \in {"machine", "connectivity", "return"}, PersistThen(c, s)
      PROVE  \A d \in Callers : ReasonMatches(caller'[d].snap)
  BY <1>b DEF PersistThen, TypeOK, CallersTypeOK, CallerRecords, HaltReasonMatchesMode
<1>c. ASSUME NEW p \in Procs, NEW s \in StatusRecords, ReasonMatches(s),
             status' = [status EXCEPT ![p] = s]
      PROVE  \A q \in Procs : ReasonMatches(status'[q])
  BY <1>c DEF TypeOK, HaltReasonMatchesMode
<1>d. \A c \in Callers : OwnerOf[c] \in Procs /\ status[OwnerOf[c]] \in StatusRecords
                         /\ ReasonMatches(status[OwnerOf[c]])
  BY DEF TypeOK, HaltReasonMatchesMode
<1>3. ASSUME NEW c \in Callers, SetLicense(c) PROVE HaltReasonMatchesMode'
  <2> DEFINE s == [status[OwnerOf[c]] EXCEPT !.license = "licensed"]
  <2>1. s \in StatusRecords /\ ReasonMatches(s)
    BY <1>d, FieldsType, ReasonKept
  <2>2. status' = [status EXCEPT ![OwnerOf[c]] = s]
    BY <1>3 DEF SetLicense
  <2>3. \A q \in Procs : ReasonMatches(status'[q])
    BY <1>c, <1>d, <2>1, <2>2
  <2> QED BY <1>3, <1>b, <2>3 DEF SetLicense, HaltReasonMatchesMode
<1>4. ASSUME NEW c \in Callers, MachineStep(c) PROVE HaltReasonMatchesMode'
  <2>1. CASE GoTo(c, "status")
    BY <1>4, <2>1 DEF MachineStep, GoTo, TypeOK, CallersTypeOK, CallerRecords, HaltReasonMatchesMode
  <2>2. CASE Return(c, "error")
    BY <1>4, <2>2, <1>a DEF MachineStep, HaltReasonMatchesMode
  <2> QED BY <1>4, <2>1, <2>2 DEF MachineStep
<1>5. ASSUME NEW c \in Callers, StatusStep(c) PROVE HaltReasonMatchesMode'
  <2> DEFINE s == Transitioned(status[OwnerOf[c]], Target(caller[c].op), "emergency stop")
  <2>1. Target(caller[c].op) \in RunModes
    BY <1>5, TargetType DEF StatusStep, TypeOK, CallersTypeOK
  <2>2. s \in StatusRecords /\ ReasonMatches(s)
    BY <1>d, <2>1, TransitionedType
  <2>3. status' = [status EXCEPT ![OwnerOf[c]] = s]
    BY <1>5 DEF StatusStep
  <2>4. \A q \in Procs : ReasonMatches(status'[q])
    BY <1>c, <1>d, <2>2, <2>3
  <2>5. \A d \in Callers : ReasonMatches(caller'[d].snap)
    BY <1>5, <1>b DEF StatusStep
  <2> QED BY <1>5, <2>4, <2>5 DEF StatusStep, HaltReasonMatchesMode
<1>6. ASSUME NEW c \in Callers, SetConnectivity(c) PROVE HaltReasonMatchesMode'
  <2> DEFINE s == [status[OwnerOf[c]] EXCEPT !.connectivity = "network_waiting"]
  <2>1. s \in StatusRecords /\ ReasonMatches(s)
    BY <1>d, FieldsType, ReasonKept
  <2>2. status' = [status EXCEPT ![OwnerOf[c]] = s]
    BY <1>6 DEF SetConnectivity
  <2>3. \A q \in Procs : ReasonMatches(status'[q])
    BY <1>c, <1>d, <2>1, <2>2
  <2> QED BY <1>6, <1>b, <2>3 DEF SetConnectivity, HaltReasonMatchesMode
<1>7. ASSUME NEW c \in Callers, TakeSnapshot(c) PROVE HaltReasonMatchesMode'
  BY <1>7, <1>d DEF TakeSnapshot, TypeOK, CallersTypeOK, CallerRecords, HaltReasonMatchesMode
<1>8. ASSUME NEW c \in Callers, Save(c) PROVE HaltReasonMatchesMode'
  <2>1. CASE caller[c].then = "return"
    BY <1>8, <2>1, <1>a DEF Save, HaltReasonMatchesMode
  <2>2. CASE caller[c].then # "return"
    <3>1. \A d \in Callers : caller'[d].snap = IF d = c THEN NoStatus ELSE caller[d].snap
      BY <1>8, <2>2 DEF Save, TypeOK, CallersTypeOK, CallerRecords
    <3> QED BY <1>8, <3>1, ReasonKept DEF Save, HaltReasonMatchesMode
  <2> QED BY <2>1, <2>2
<1>9. ASSUME NEW c \in Callers, SaveFails(c) PROVE HaltReasonMatchesMode'
  BY <1>9, <1>a DEF SaveFails, HaltReasonMatchesMode
<1>10. ASSUME NEW p \in Procs, Boot(p) PROVE HaltReasonMatchesMode'
  <2>1. PICK s \in {IF disk = NoStatus \/ p \in Commands THEN NewStatus
                     ELSE Restored(disk),
                    UnreadableSnapshot} : status' = [status EXCEPT ![p] = s]
    BY <1>10 DEF Boot
  <2>2. s \in StatusRecords /\ ReasonMatches(s)
    BY NewStatusType, RestoredType, UnreadableType, ReasonKept DEF TypeOK
  <2> QED BY <1>10, <1>c, <2>1, <2>2 DEF Boot, HaltReasonMatchesMode
<1>11. ASSUME NEW p \in Procs, BootPersist(p) PROVE HaltReasonMatchesMode'
  BY <1>11 DEF BootPersist, HaltReasonMatchesMode
<1>12. ASSUME NEW p \in Procs, Crash(p) PROVE HaltReasonMatchesMode'
  <2>1. \A d \in Callers : ReasonMatches(caller'[d].snap)
    BY <1>12, ReasonKept DEF Crash, NewCaller, HaltReasonMatchesMode
  <2> QED BY <1>12, <1>c, <2>1, NewStatusType, ReasonKept DEF Crash, HaltReasonMatchesMode
<1>13. ASSUME NEW p \in Procs, NEW d \in Drifts, NTPTick(p, d) PROVE HaltReasonMatchesMode'
  <2>1. Drifted(status[p], d) \in StatusRecords /\ ReasonMatches(Drifted(status[p], d))
    BY DriftedType, ReasonKept DEF TypeOK, HaltReasonMatchesMode
  <2> QED BY <1>13, <1>c, <2>1 DEF NTPTick, HaltReasonMatchesMode
<1>14. CASE AcceptDisclaimer
  BY <1>14 DEF AcceptDisclaimer, HaltReasonMatchesMode
<1>15. CASE UNCHANGED vars
  BY <1>15 DEF vars, HaltReasonMatchesMode
<1> QED
  BY <1>1, <1>2, <1>3, <1>4, <1>5, <1>6, <1>7, <1>8, <1>9, <1>10, <1>11, <1>12,
     <1>13, <1>14, <1>15 DEF Next, CallStep, ProcStep

\* A halted status has its reason and an idle one none, in every process, every
\* pending snapshot and the file, for any number of processes and callers.
THEOREM HaltReasonTheorem == Spec => []HaltReasonMatchesMode
<1>1. Init => HaltReasonMatchesMode
  BY ReasonKept DEF Init, NewCaller, HaltReasonMatchesMode
<1> QED BY <1>1, ReasonStep, TypeCorrect, PTL DEF Spec

-----------------------------------------------------------------------------
(* What a step of a call does, as far as the theorems below need it. *)

\* Caller c moves on inside its call; the other callers stay where they are.
CallerEffect(c) ==
  /\ caller[c].at # "idle"
  /\ \A d \in Callers \ {c} : caller'[d] = caller[d]
  /\ caller'[c].op = caller[c].op
  /\ caller'[c].at # "disclaimer"
  /\ caller'[c].at = "license" =>
       caller[c].at = "disclaimer" /\ (disclaimer \/ OwnerOf[c] \in Commands)
  /\ caller'[c].at # "idle" /\ caller[c].at = "disclaimer" => caller'[c].at = "license"
  /\ caller'[c].at = "status" =>
       /\ caller[c].at = "machine"
       /\ machine'[OwnerOf[c]] = Target(caller[c].op)
       /\ MachineAllows(machine[OwnerOf[c]], Target(caller[c].op))

\* It changes its own process only: the machine on the way to "status", the
\* mode of the status from there.
RunEffect(c) ==
  LET p == OwnerOf[c] IN
  /\ UNCHANGED <<proc, disclaimer, requested>>
  /\ \A q \in Procs \ {p} : machine'[q] = machine[q] /\ status'[q] = status[q]
  /\ caller'[c].at # "status" => machine'[p] = machine[p]
  /\ caller[c].at = "status" =>
       /\ status'[p].mode = Target(caller[c].op)
       /\ Target(caller[c].op) = "halted" => status'[p].haltReason # ""
       /\ Target(caller[c].op) = "idle" => status'[p].haltReason = ""
       /\ Target(caller[c].op) \in ActiveModes => status'[p].haltReason = status[p].haltReason
  /\ caller[c].at # "status" =>
       /\ status'[p].mode = status[p].mode
       /\ status'[p].haltReason = status[p].haltReason
  /\ caller[c].at = "license" => status'[p].license = "licensed"
  /\ status[p].license = "licensed" => status'[p].license = "licensed"

\* Every step of a call has these effects.
LEMMA CallEffect ==
  ASSUME TypeOK, NEW c \in Callers, CallStep(c)
  PROVE  CallerEffect(c) /\ RunEffect(c)
<1> USE OwnerAssumption, CallsAssumption, DriftsAssumption DEF CallerEffect, RunEffect
<1>0. /\ OwnerOf[c] \in Procs
      /\ status[OwnerOf[c]] \in StatusRecords
      /\ caller[c] \in CallerRecords
      /\ caller \in [Callers -> CallerRecords]
      /\ status \in [Procs -> StatusRecords]
      /\ machine \in [Procs -> RunModes]
  BY DEF TypeOK, CallersTypeOK
<1>a. ASSUME NEW r, Return(c, r)
      PROVE  /\ \A d \in Callers \ {c} : caller'[d] = caller[d]
             /\ caller'[c].op = caller[c].op
             /\ caller'[c].at = "idle"
  BY <1>0, <1>a DEF Return, CallerRecords
<1>b. ASSUME NEW s, GoTo(c, s)
      PROVE  /\ \A d \in Callers \ {c} : caller'[d] = caller[d]
             /\ caller'[c].op = caller[c].op
             /\ caller'[c].at = s
  BY <1>0, <1>b DEF GoTo, CallerRecords
<1>c. ASSUME NEW s, PersistThen(c, s)
      PROVE  /\ \A d \in Callers \ {c} : caller'[d] = caller[d]
             /\ caller'[c].op = caller[c].op
             /\ caller'[c].at = "snapshot"
  BY <1>0, <1>c DEF PersistThen, CallerRecords
<1>1. CASE CheckDisclaimer(c)
  <2>1. CASE (disclaimer \/ OwnerOf[c] \in Commands) /\ GoTo(c, "license")
    BY <1>0, <1>1, <1>b, <2>1 DEF CheckDisclaimer
  <2>2. CASE Return(c, "error")
    BY <1>0, <1>1, <1>a, <2>2 DEF CheckDisclaimer
  <2> QED BY <1>1, <2>1, <2>2 DEF CheckDisclaimer
<1>2. CASE SetLicense(c)
  <2>1. \A q \in Procs \ {OwnerOf[c]} : status'[q] = status[q]
    BY <1>0, <1>2 DEF SetLicense
  <2>2. status'[OwnerOf[c]] = [status[OwnerOf[c]] EXCEPT !.license = "licensed"]
    BY <1>0, <1>2 DEF SetLicense
  <2>3. /\ status'[OwnerOf[c]].license = "licensed"
        /\ status'[OwnerOf[c]].mode = status[OwnerOf[c]].mode
        /\ status'[OwnerOf[c]].haltReason = status[OwnerOf[c]].haltReason
    BY <1>0, <2>2 DEF StatusRecords
  <2> QED BY <1>0, <1>2, <1>c, <2>1, <2>3 DEF SetLicense
<1>3. CASE MachineStep(c)
  <2>1. CASE MachineAllows(machine[OwnerOf[c]], Target(caller[c].op))
    BY <1>0, <1>3, <1>b, <2>1 DEF MachineStep
  <2>2. CASE ~MachineAllows(machine[OwnerOf[c]], Target(caller[c].op))
    BY <1>0, <1>3, <1>a, <2>2 DEF MachineStep
  <2> QED BY <2>1, <2>2
<1>4. CASE StatusStep(c)
  <2> DEFINE s == Transitioned(status[OwnerOf[c]], Target(caller[c].op), "emergency stop")
  <2>1. Target(caller[c].op) \in RunModes
    BY <1>4, TargetType DEF StatusStep, TypeOK, CallersTypeOK
  <2>2. status'[OwnerOf[c]] = s /\ \A q \in Procs \ {OwnerOf[c]} : status'[q] = status[q]
    BY <1>0, <1>4 DEF StatusStep
  <2>3. /\ s.mode = Target(caller[c].op)
        /\ s.license = status[OwnerOf[c]].license
        /\ ReasonMatches(s)
    BY <1>0, <2>1, TransitionedType
  <2>4. Target(caller[c].op) \in ActiveModes => s.haltReason = status[OwnerOf[c]].haltReason
    BY <1>0 DEF Transitioned, StatusRecords, ActiveModes, TradingModes
  <2> HIDE DEF s
  <2> QED BY <1>0, <1>4, <1>c, <2>2, <2>3, <2>4 DEF StatusStep, ReasonMatches
<1>5. CASE SetConnectivity(c)
  <2>1. \A q \in Procs \ {OwnerOf[c]} : status'[q] = status[q]
    BY <1>0, <1>5 DEF SetConnectivity
  <2>2. status'[OwnerOf[c]] = [status[OwnerOf[c]] EXCEPT !.connectivity = "network_waiting"]
    BY <1>0, <1>5 DEF SetConnectivity
  <2>3. /\ status'[OwnerOf[c]].license = status[OwnerOf[c]].license
        /\ status'[OwnerOf[c]].mode = status[OwnerOf[c]].mode
        /\ status'[OwnerOf[c]].haltReason = status[OwnerOf[c]].haltReason
    BY <1>0, <2>2 DEF StatusRecords
  <2> QED BY <1>0, <1>5, <1>c, <2>1, <2>3 DEF SetConnectivity
<1>6. CASE TakeSnapshot(c)
  BY <1>0, <1>6 DEF TakeSnapshot, CallerRecords
<1>7. CASE Save(c)
  <2>1. CASE caller[c].then = "return"
    BY <1>0, <1>7, <1>a, <2>1 DEF Save
  <2>2. CASE caller[c].then # "return"
    BY <1>0, <1>7, <2>2 DEF Save, CallerRecords
  <2> QED BY <2>1, <2>2
<1>8. CASE SaveFails(c)
  BY <1>0, <1>8, <1>a DEF SaveFails
<1> QED BY <1>1, <1>2, <1>3, <1>4, <1>5, <1>6, <1>7, <1>8 DEF CallStep

\* The steps of a process: what each does to its own process ...
BootEffect(p) ==
  /\ proc[p] = "down" /\ proc'[p] = "booting"
  /\ status'[p].mode \in {"idle", "halted"}
  /\ machine'[p] = status'[p].mode
  /\ status'[p].haltReason # "" <=> status'[p].mode = "halted"
  /\ caller' = caller /\ requested' = requested

BootPersistEffect(p) ==
  /\ proc[p] = "booting" /\ proc'[p] = "up"
  /\ UNCHANGED <<machine, status, caller, requested>>

CrashEffect(p) ==
  /\ proc'[p] = "down"
  /\ status'[p].mode = "idle" /\ machine'[p] = "idle"
  /\ status'[p].haltReason = ""
  /\ \A c \in Callers : OwnerOf[c] = p => caller'[c].at = "idle"

TickEffect(p) ==
  /\ UNCHANGED <<proc, machine, caller, requested>>
  /\ status'[p].mode = status[p].mode
  /\ status'[p].haltReason = status[p].haltReason
  /\ status'[p].license = status[p].license

\* ... and that they leave the other processes and their callers alone.
OthersUnchanged(p) ==
  /\ disclaimer' = disclaimer
  /\ \A q \in Procs \ {p} :
       /\ proc'[q] = proc[q] /\ machine'[q] = machine[q]
       /\ status'[q] = status[q] /\ requested'[q] = requested[q]
  /\ \A c \in Callers : OwnerOf[c] # p => caller'[c] = caller[c]

\* Every step of a process has one of these effects.
LEMMA ProcEffect ==
  ASSUME TypeOK, NEW p \in Procs, ProcStep(p)
  PROVE  /\ OthersUnchanged(p)
         /\ BootEffect(p) \/ BootPersistEffect(p) \/ CrashEffect(p) \/ TickEffect(p)
<1> USE DEF OthersUnchanged, BootEffect, BootPersistEffect, CrashEffect, TickEffect
<1>1. CASE Boot(p)
  <2>1. PICK s \in {IF disk = NoStatus \/ p \in Commands THEN NewStatus
                     ELSE Restored(disk),
                    UnreadableSnapshot} :
          /\ status' = [status EXCEPT ![p] = s]
          /\ machine' = [machine EXCEPT ![p] = s.mode]
    BY <1>1 DEF Boot
  <2>2. /\ s.mode \in {"idle", "halted"}
        /\ s.haltReason # "" <=> s.mode = "halted"
    <3>1. CASE s = NewStatus
      BY <3>1 DEF NewStatus
    <3>2. CASE s = UnreadableSnapshot
      BY <3>2, UnreadableType
    <3>3. CASE s = Restored(disk) /\ disk # NoStatus
      BY <3>3, RestoredType DEF TypeOK
    <3> QED BY <3>1, <3>2, <3>3
  <2> QED BY <1>1, <2>1, <2>2 DEF Boot, TypeOK
<1>2. CASE BootPersist(p)
  BY <1>2 DEF BootPersist, TypeOK
<1>3. CASE Crash(p)
  BY <1>3 DEF Crash, NewCaller, NewStatus, TypeOK, CallersTypeOK
<1>4. ASSUME NEW d \in Drifts, NTPTick(p, d)
      PROVE  /\ UNCHANGED <<disclaimer, proc, machine, caller, requested>>
             /\ \A q \in Procs \ {p} : status'[q] = status[q]
             /\ status'[p].mode = status[p].mode
             /\ status'[p].haltReason = status[p].haltReason
             /\ status'[p].license = status[p].license
  BY <1>4, DriftedType DEF NTPTick, TypeOK
<1> QED BY <1>1, <1>2, <1>3, <1>4 DEF ProcStep

-----------------------------------------------------------------------------
(* A process trades live only with permission. *)

\* Strengthening: a StartLive call past its disclaimer check means an accepted
\* disclaimer, past SetLicense also a licensed process; and a process that is
\* not up has no calls, so its license cannot be lost under one.
LiveInv ==
  /\ \A c \in Callers :
       /\ proc[OwnerOf[c]] # "up" => caller[c].at = "idle"
       /\ caller[c].op = "StartLive" /\ caller[c].at \notin {"idle", "disclaimer"} =>
            /\ disclaimer \/ OwnerOf[c] \in Commands
            /\ caller[c].at # "license" => status[OwnerOf[c]].license = "licensed"
  /\ \A p \in Procs : proc[p] = "down" => machine[p] = "idle" /\ status[p].mode = "idle"
  /\ LiveWasPermitted

\* Every step keeps the strengthening.
LEMMA LiveStep == TypeOK /\ LiveInv /\ [Next]_vars => LiveInv'
<1> SUFFICES ASSUME TypeOK, LiveInv, [Next]_vars PROVE LiveInv'
  OBVIOUS
<1> USE OwnerAssumption, CallsAssumption, DriftsAssumption
<1>1. ASSUME NEW c \in Callers, NEW op \in Calls, Call(c, op) PROVE LiveInv'
  <2>1. /\ \A d \in Callers \ {c} : caller'[d] = caller[d]
        /\ caller'[c].op = op
        /\ caller'[c].at = IF op = "StartLive" THEN "disclaimer" ELSE "machine"
    BY <1>1 DEF Call, NewCaller, TypeOK, CallersTypeOK
  <2>2. proc[OwnerOf[c]] = "up" /\ UNCHANGED <<proc, machine, status, disclaimer>>
    BY <1>1 DEF Call
  <2> QED BY <2>1, <2>2 DEF LiveInv, LiveWasPermitted
<1>2. ASSUME NEW c \in Callers, CallStep(c) PROVE LiveInv'
  <2>1. CallerEffect(c) /\ RunEffect(c)
    BY <1>2, CallEffect
  <2>2. /\ OwnerOf[c] \in Procs
        /\ caller[c].op \in ServiceCalls
        /\ Target(caller[c].op) = "live_trading" <=> caller[c].op = "StartLive"
    BY <2>1, TargetType DEF CallerEffect, TypeOK, CallersTypeOK
  <2>3. proc[OwnerOf[c]] = "up"
    BY <2>1 DEF CallerEffect, LiveInv
  <2>4. ASSUME NEW d \in Callers
        PROVE  /\ proc'[OwnerOf[d]] # "up" => caller'[d].at = "idle"
               /\ caller'[d].op = "StartLive" /\ caller'[d].at \notin {"idle", "disclaimer"} =>
                    /\ disclaimer' \/ OwnerOf[d] \in Commands
                    /\ caller'[d].at # "license" => status'[OwnerOf[d]].license = "licensed"
    <3>1. CASE d = c
      <4>1. CASE caller'[c].at = "license" \/ caller[c].at = "disclaimer"
        BY <2>1, <2>3, <3>1, <4>1 DEF CallerEffect, RunEffect, LiveInv
      <4>2. CASE caller'[c].at # "license" /\ caller[c].at = "license"
        BY <2>1, <2>3, <3>1, <4>2 DEF CallerEffect, RunEffect, LiveInv
      <4>3. CASE caller'[c].at # "license" /\ caller[c].at \notin {"license", "disclaimer"}
        BY <2>1, <2>3, <3>1, <4>3, ZenonT(60) DEF CallerEffect, RunEffect, LiveInv
      <4> QED BY <4>1, <4>2, <4>3
    <3>2. CASE d # c
      <4>1. caller'[d] = caller[d] /\ proc' = proc /\ disclaimer' = disclaimer
        BY <2>1, <3>2 DEF CallerEffect, RunEffect
      <4>2. status[OwnerOf[d]].license = "licensed" => status'[OwnerOf[d]].license = "licensed"
        BY <2>1, <2>2 DEF RunEffect
      <4> QED BY <4>1, <4>2 DEF LiveInv
    <3> QED BY <3>1, <3>2
  <2>5. \A p \in Procs : proc'[p] = "down" => machine'[p] = "idle" /\ status'[p].mode = "idle"
    BY <2>1, <2>2, <2>3, ZenonT(60) DEF RunEffect, LiveInv
  <2>6. LiveWasPermitted'
    <3> SUFFICES ASSUME NEW p \in Procs,
                        machine'[p] = "live_trading" \/ status'[p].mode = "live_trading"
                 PROVE  /\ disclaimer' \/ p \in Commands
                        /\ status'[p].license = "licensed"
      BY DEF LiveWasPermitted
    <3>1. CASE p # OwnerOf[c]
      BY <2>1, <3>1, ZenonT(60) DEF RunEffect, LiveInv, LiveWasPermitted
    <3>2. CASE p = OwnerOf[c] /\ caller'[c].at = "status"
      <4>1. caller[c].at = "machine" /\ machine'[p] = Target(caller[c].op)
        BY <2>1, <3>2 DEF CallerEffect
      <4>2. CASE machine'[p] = "live_trading"
        BY <2>1, <2>2, <3>2, <4>1, <4>2 DEF RunEffect, LiveInv
      <4>3. CASE status'[p].mode = "live_trading"
        BY <2>1, <3>2, <4>1, <4>3 DEF RunEffect, LiveInv, LiveWasPermitted
      <4> QED BY <4>2, <4>3
    <3>3. CASE p = OwnerOf[c] /\ caller'[c].at # "status" /\ caller[c].at = "status"
      <4>1. machine'[p] = machine[p] /\ status'[p].mode = Target(caller[c].op)
        BY <2>1, <3>3 DEF RunEffect
      <4>2. CASE machine'[p] = "live_trading"
        BY <2>1, <3>3, <4>1, <4>2, ZenonT(60) DEF RunEffect, LiveInv, LiveWasPermitted
      <4>3. CASE status'[p].mode = "live_trading"
        BY <2>1, <2>2, <3>3, <4>1, <4>3 DEF RunEffect, LiveInv
      <4> QED BY <4>2, <4>3
    <3>4. CASE p = OwnerOf[c] /\ caller'[c].at # "status" /\ caller[c].at # "status"
      <4>1. machine'[p] = machine[p] /\ status'[p].mode = status[p].mode
        BY <2>1, <3>4 DEF RunEffect
      <4>2. status[p].license = "licensed" => status'[p].license = "licensed"
        BY <2>1, <3>4 DEF RunEffect
      <4>3. disclaimer' = disclaimer
        BY <2>1 DEF RunEffect
      <4> QED BY <4>1, <4>2, <4>3 DEF LiveInv, LiveWasPermitted
    <3> QED BY <3>1, <3>2, <3>3, <3>4
  <2> QED BY <2>4, <2>5, <2>6 DEF LiveInv
<1>3. ASSUME NEW p \in Procs, ProcStep(p) PROVE LiveInv'
  <2> DEFINE CallerOK(c) ==
        /\ proc[OwnerOf[c]] # "up" => caller[c].at = "idle"
        /\ caller[c].op = "StartLive" /\ caller[c].at \notin {"idle", "disclaimer"} =>
             /\ disclaimer \/ OwnerOf[c] \in Commands
             /\ caller[c].at # "license" => status[OwnerOf[c]].license = "licensed"
      ProcOK(q) ==
        /\ proc[q] = "down" => machine[q] = "idle" /\ status[q].mode = "idle"
        /\ machine[q] = "live_trading" \/ status[q].mode = "live_trading" =>
             (disclaimer \/ q \in Commands) /\ status[q].license = "licensed"
  <2>0. /\ OthersUnchanged(p)
        /\ BootEffect(p) \/ BootPersistEffect(p) \/ CrashEffect(p) \/ TickEffect(p)
    BY <1>3, ProcEffect
  <2>1. ASSUME NEW c \in Callers PROVE CallerOK(c)'
    <3>0. OwnerOf[c] \in Procs
      OBVIOUS
    <3>1. CASE OwnerOf[c] # p
      BY <2>0, <3>0, <3>1 DEF LiveInv, OthersUnchanged
    <3>2. CASE OwnerOf[c] = p /\ (BootEffect(p) \/ CrashEffect(p))
      BY <3>2 DEF LiveInv, BootEffect, CrashEffect
    <3>3. CASE OwnerOf[c] = p /\ BootPersistEffect(p)
      BY <2>0, <3>3 DEF LiveInv, BootPersistEffect, OthersUnchanged
    <3>4. CASE OwnerOf[c] = p /\ TickEffect(p)
      BY <2>0, <3>4 DEF LiveInv, TickEffect, OthersUnchanged
    <3> QED BY <2>0, <3>1, <3>2, <3>3, <3>4
  <2>2. ASSUME NEW q \in Procs PROVE ProcOK(q)'
    <3>1. CASE q # p
      BY <2>0, <3>1 DEF LiveInv, LiveWasPermitted, OthersUnchanged
    <3>2. CASE q = p /\ (BootEffect(p) \/ CrashEffect(p))
      BY <3>2 DEF BootEffect, CrashEffect
    <3>3. CASE q = p /\ BootPersistEffect(p)
      BY <2>0, <3>3 DEF LiveInv, LiveWasPermitted, BootPersistEffect, OthersUnchanged
    <3>4. CASE q = p /\ TickEffect(p)
      BY <2>0, <3>4 DEF LiveInv, LiveWasPermitted, TickEffect, OthersUnchanged
    <3> QED BY <2>0, <3>1, <3>2, <3>3, <3>4
  <2> QED BY <2>1, <2>2 DEF LiveInv, LiveWasPermitted
<1>4. CASE AcceptDisclaimer
  BY <1>4 DEF AcceptDisclaimer, LiveInv, LiveWasPermitted
<1>5. CASE UNCHANGED vars
  BY <1>5 DEF vars, LiveInv, LiveWasPermitted
<1> QED BY <1>1, <1>2, <1>3, <1>4, <1>5 DEF Next

\* No process trades live without its license set and, unless a command of
\* cmd/kairos/cli put it together, without an accepted disclaimer, however many
\* callers, processes and crashes there are.
THEOREM LiveTheorem == Spec => []LiveWasPermitted
<1>1. Init => LiveInv
  <2> SUFFICES ASSUME Init PROVE LiveInv
    OBVIOUS
  <2>1. \A c \in Callers : caller[c].at = "idle"
    BY DEF Init, NewCaller
  <2>2. \A p \in Procs : machine[p] = "idle" /\ status[p].mode = "idle"
    BY DEF Init, NewStatus
  <2> QED BY <2>1, <2>2 DEF LiveInv, LiveWasPermitted
<1>2. LiveInv => LiveWasPermitted
  BY DEF LiveInv
<1> QED BY <1>1, <1>2, LiveStep, TypeCorrect, PTL DEF Spec

-----------------------------------------------------------------------------
(* No session starts by itself. *)

\* Strengthening: a call under way has asked for its mode since the process
\* started, because a crash ends the calls of the process.
RequestInv ==
  /\ \A c \in Callers : caller[c].at # "idle" => Target(caller[c].op) \in requested[OwnerOf[c]]
  /\ ActiveOnlyOnRequest

\* Every step keeps the strengthening.
LEMMA RequestStep == TypeOK /\ RequestInv /\ [Next]_vars => RequestInv'
<1> SUFFICES ASSUME TypeOK, RequestInv, [Next]_vars PROVE RequestInv'
  OBVIOUS
<1> USE OwnerAssumption, CallsAssumption, DriftsAssumption
<1>1. ASSUME NEW c \in Callers, NEW op \in Calls, Call(c, op) PROVE RequestInv'
  <2>1. /\ \A d \in Callers \ {c} : caller'[d] = caller[d]
        /\ caller'[c].op = op
    BY <1>1 DEF Call, NewCaller, TypeOK, CallersTypeOK
  <2>2. /\ UNCHANGED <<machine, status>>
        /\ \A p \in Procs : requested[p] \subseteq requested'[p]
        /\ Target(op) \in requested'[OwnerOf[c]]
    BY <1>1 DEF Call, TypeOK
  <2>3. \A d \in Callers : caller'[d].at # "idle" =>
          Target(caller'[d].op) \in requested'[OwnerOf[d]]
    BY <2>1, <2>2 DEF RequestInv
  <2>4. ActiveOnlyOnRequest'
    BY <2>2 DEF RequestInv, ActiveOnlyOnRequest
  <2> QED BY <2>3, <2>4 DEF RequestInv
<1>2. ASSUME NEW c \in Callers, CallStep(c) PROVE RequestInv'
  <2>1. CallerEffect(c) /\ RunEffect(c)
    BY <1>2, CallEffect
  <2>2. /\ OwnerOf[c] \in Procs
        /\ Target(caller[c].op) \in requested[OwnerOf[c]]
        /\ requested' = requested
    BY <2>1 DEF CallerEffect, RunEffect, RequestInv
  <2>3. \A d \in Callers : caller'[d].at # "idle" =>
          Target(caller'[d].op) \in requested'[OwnerOf[d]]
    BY <2>1, <2>2 DEF CallerEffect, RequestInv
  <2>4. \A p \in Procs :
          /\ machine'[p] = machine[p] \/ machine'[p] \in requested[p]
          /\ status'[p].mode = status[p].mode \/ status'[p].mode \in requested[p]
    <3> SUFFICES ASSUME NEW p \in Procs
                 PROVE  /\ machine'[p] = machine[p] \/ machine'[p] \in requested[p]
                        /\ status'[p].mode = status[p].mode \/ status'[p].mode \in requested[p]
      OBVIOUS
    <3>1. CASE p # OwnerOf[c]
      BY <2>1, <3>1 DEF RunEffect
    <3>2. CASE p = OwnerOf[c]
      <4>1. machine'[p] = machine[p] \/ machine'[p] = Target(caller[c].op)
        BY <2>1, <3>2 DEF CallerEffect, RunEffect
      <4>2. status'[p].mode = status[p].mode \/ status'[p].mode = Target(caller[c].op)
        BY <2>1, <3>2 DEF RunEffect
      <4> QED BY <2>2, <3>2, <4>1, <4>2
    <3> QED BY <3>1, <3>2
  <2> QED BY <2>2, <2>3, <2>4 DEF RequestInv, ActiveOnlyOnRequest
<1>3. ASSUME NEW p \in Procs, ProcStep(p) PROVE RequestInv'
  <2>0. /\ OthersUnchanged(p)
        /\ BootEffect(p) \/ BootPersistEffect(p) \/ CrashEffect(p) \/ TickEffect(p)
    BY <1>3, ProcEffect
  <2>1. ASSUME NEW c \in Callers, caller'[c].at # "idle"
        PROVE  Target(caller'[c].op) \in requested'[OwnerOf[c]]
    <3>1. CASE OwnerOf[c] # p
      BY <2>0, <2>1, <3>1 DEF OthersUnchanged, RequestInv
    <3>2. CASE OwnerOf[c] = p /\ CrashEffect(p)
      BY <2>1, <3>2 DEF CrashEffect
    <3>3. CASE BootEffect(p) \/ BootPersistEffect(p) \/ TickEffect(p)
      BY <2>1, <3>3 DEF BootEffect, BootPersistEffect, TickEffect, RequestInv
    <3> QED BY <2>0, <3>1, <3>2, <3>3
  <2>2. ASSUME NEW q \in Procs
        PROVE  /\ machine'[q] \in ActiveModes => machine'[q] \in requested'[q]
               /\ status'[q].mode \in ActiveModes => status'[q].mode \in requested'[q]
    <3>1. CASE q # p
      BY <2>0, <3>1 DEF OthersUnchanged, RequestInv, ActiveOnlyOnRequest
    <3>2. CASE q = p /\ (BootEffect(p) \/ CrashEffect(p))
      BY <3>2 DEF BootEffect, CrashEffect, ActiveModes, TradingModes
    <3>3. CASE q = p /\ (BootPersistEffect(p) \/ TickEffect(p))
      BY <3>3 DEF BootPersistEffect, TickEffect, RequestInv, ActiveOnlyOnRequest
    <3> QED BY <2>0, <3>1, <3>2, <3>3
  <2> QED BY <2>1, <2>2 DEF RequestInv, ActiveOnlyOnRequest
<1>4. CASE AcceptDisclaimer
  BY <1>4 DEF AcceptDisclaimer, RequestInv, ActiveOnlyOnRequest
<1>5. CASE UNCHANGED vars
  BY <1>5 DEF vars, RequestInv, ActiveOnlyOnRequest
<1> QED BY <1>1, <1>2, <1>3, <1>4, <1>5 DEF Next

\* A process is in an active mode only if one of its own callers asked for that
\* mode since it started, whatever snapshots others write and whoever crashes.
THEOREM RequestTheorem == Spec => []ActiveOnlyOnRequest
<1>1. Init => RequestInv
  <2> SUFFICES ASSUME Init PROVE RequestInv
    OBVIOUS
  <2>1. \A c \in Callers : caller[c].at = "idle"
    BY DEF Init, NewCaller
  <2>2. \A p \in Procs : machine[p] = "idle" /\ status[p].mode = "idle"
    BY DEF Init, NewStatus
  <2> QED BY <2>1, <2>2 DEF RequestInv, ActiveOnlyOnRequest, ActiveModes, TradingModes
<1>2. RequestInv => ActiveOnlyOnRequest
  BY DEF RequestInv
<1> QED BY <1>1, <1>2, RequestStep, TypeCorrect, PTL DEF Spec

-----------------------------------------------------------------------------
(* Processes with one caller each. *)

\* Each process issues one call at a time, as the update loop of the TUI does.
OneCallerEach == \A c, d \in Callers : OwnerOf[c] = OwnerOf[d] => c = d

\* Strengthening: a reason is there exactly in a halt; status and machine agree
\* except while the process is between the two halves of Manager.Transition,
\* and then the machine has allowed the mode that the status will show.
SerialInv ==
  /\ \A c \in Callers :
       /\ proc[OwnerOf[c]] # "up" => caller[c].at = "idle"
       /\ caller[c].at = "status" =>
            /\ machine[OwnerOf[c]] = Target(caller[c].op)
            /\ MachineAllows(status[OwnerOf[c]].mode, Target(caller[c].op))
  /\ \A p \in Procs :
       /\ proc[p] = "down" => status[p].mode = "idle"
       /\ status[p].haltReason # "" <=> status[p].mode = "halted"
       /\ ~InTransition(p) => status[p].mode = machine[p]

\* The callers' part of the strengthening stays true for a caller that stays
\* where it is in a process that stays as it is.
LEMMA KeptSerial ==
  ASSUME SerialInv, NEW d \in Callers, caller'[d] = caller[d],
         proc'[OwnerOf[d]] = proc[OwnerOf[d]], machine'[OwnerOf[d]] = machine[OwnerOf[d]],
         status'[OwnerOf[d]] = status[OwnerOf[d]]
  PROVE  /\ proc'[OwnerOf[d]] # "up" => caller'[d].at = "idle"
         /\ caller'[d].at = "status" =>
              /\ machine'[OwnerOf[d]] = Target(caller'[d].op)
              /\ MachineAllows(status'[OwnerOf[d]].mode, Target(caller'[d].op))
<1>1. Target(caller'[d].op) = Target(caller[d].op)
  OBVIOUS
<1>2. /\ proc[OwnerOf[d]] # "up" => caller[d].at = "idle"
      /\ caller[d].at = "status" =>
           /\ machine[OwnerOf[d]] = Target(caller[d].op)
           /\ MachineAllows(status[OwnerOf[d]].mode, Target(caller[d].op))
  BY DEF SerialInv
<1> QED BY <1>1, <1>2

\* Every step keeps the strengthening.
LEMMA SerialStep ==
  ASSUME OneCallerEach
  PROVE  TypeOK /\ SerialInv /\ [Next]_vars => SerialInv'
<1> SUFFICES ASSUME TypeOK, SerialInv, [Next]_vars PROVE SerialInv'
  OBVIOUS
<1> USE OwnerAssumption, CallsAssumption, DriftsAssumption
<1>1. ASSUME NEW c \in Callers, NEW op \in Calls, Call(c, op) PROVE SerialInv'
  <2>1. /\ \A d \in Callers \ {c} : caller'[d] = caller[d]
        /\ caller[c].at = "idle"
        /\ caller'[c].at \in {"disclaimer", "machine"}
    BY <1>1 DEF Call, NewCaller, TypeOK, CallersTypeOK
  <2>2. proc[OwnerOf[c]] = "up" /\ UNCHANGED <<proc, machine, status>>
    BY <1>1 DEF Call
  <2>3. \A p \in Procs : InTransition(p) => InTransition(p)'
    BY <2>1 DEF InTransition
  <2>4. ASSUME NEW d \in Callers
        PROVE  /\ proc'[OwnerOf[d]] # "up" => caller'[d].at = "idle"
               /\ caller'[d].at = "status" =>
                    /\ machine'[OwnerOf[d]] = Target(caller'[d].op)
                    /\ MachineAllows(status'[OwnerOf[d]].mode, Target(caller'[d].op))
    <3>1. CASE d = c
      BY <2>1, <2>2, <3>1
    <3>2. CASE d # c
      <4>1. /\ caller'[d] = caller[d]
            /\ UNCHANGED <<proc, machine, status>>
        BY <2>1, <2>2, <3>2
      <4> QED BY <4>1, KeptSerial
    <3> QED BY <3>1, <3>2
  <2> QED BY <2>2, <2>3, <2>4 DEF SerialInv
<1>2. ASSUME NEW c \in Callers, CallStep(c) PROVE SerialInv'
  <2> DEFINE p == OwnerOf[c]
             to == Target(caller[c].op)
  <2>1. CallerEffect(c) /\ RunEffect(c)
    BY <1>2, CallEffect
  <2>2. /\ p \in Procs /\ proc[p] = "up" /\ proc' = proc
        /\ to \in RunModes
        /\ \A d \in Callers \ {c} : OwnerOf[d] # p /\ caller'[d] = caller[d]
    BY <2>1, TargetType, ZenonT(60) DEF CallerEffect, RunEffect, SerialInv, OneCallerEach, TypeOK, CallersTypeOK
  <2>3. InTransition(p) <=> caller[c].at = "status"
    BY <2>2 DEF InTransition
  <2>4. InTransition(p)' <=> caller'[c].at = "status"
    BY <2>2 DEF InTransition
  <2>5. \A q \in Procs \ {p} : InTransition(q) <=> InTransition(q)'
    BY <2>2 DEF InTransition
  <2>6. ASSUME NEW d \in Callers
        PROVE  /\ proc'[OwnerOf[d]] # "up" => caller'[d].at = "idle"
               /\ caller'[d].at = "status" =>
                    /\ machine'[OwnerOf[d]] = Target(caller'[d].op)
                    /\ MachineAllows(status'[OwnerOf[d]].mode, Target(caller'[d].op))
    <3>1. CASE d # c
      <4>1. OwnerOf[d] \in Procs \ {p} /\ caller'[d] = caller[d]
        BY <2>2, <3>1
      <4>2. machine'[OwnerOf[d]] = machine[OwnerOf[d]] /\ status'[OwnerOf[d]] = status[OwnerOf[d]]
        BY <2>1, <4>1 DEF RunEffect
      <4> QED BY <2>2, <4>1, <4>2, KeptSerial
    <3>2. CASE d = c /\ caller'[c].at = "status"
      <4>1. /\ caller[c].at = "machine" /\ machine'[p] = to
            /\ MachineAllows(machine[p], to)
            /\ caller'[c].op = caller[c].op
        BY <2>1, <3>2 DEF CallerEffect
      <4>2. status'[p].mode = machine[p]
        BY <2>1, <2>2, <2>3, <4>1 DEF RunEffect, SerialInv
      <4> QED BY <2>2, <3>2, <4>1, <4>2
    <3>3. CASE d = c /\ caller'[c].at # "status"
      BY <2>2, <3>3
    <3> QED BY <3>1, <3>2, <3>3
  <2>7. ASSUME NEW q \in Procs
        PROVE  /\ proc'[q] = "down" => status'[q].mode = "idle"
               /\ status'[q].haltReason # "" <=> status'[q].mode = "halted"
               /\ ~InTransition(q)' => status'[q].mode = machine'[q]
    <3>1. CASE q # p
      <4>1. machine'[q] = machine[q] /\ status'[q] = status[q]
        BY <2>1, <3>1 DEF RunEffect
      <4> QED BY <2>2, <2>5, <3>1, <4>1, ZenonT(60) DEF SerialInv
    <3>2. CASE q = p /\ caller[c].at = "status"
      <4>1. /\ status'[p].mode = to
            /\ to = "halted" => status'[p].haltReason # ""
            /\ to = "idle" => status'[p].haltReason = ""
            /\ to \in ActiveModes => status'[p].haltReason = status[p].haltReason
        BY <2>1, <3>2 DEF RunEffect
      <4>2. machine[p] = to /\ MachineAllows(status[p].mode, to)
        BY <3>2 DEF SerialInv
      <4>3. machine'[p] = machine[p]
        BY <2>1, <3>2 DEF CallerEffect, RunEffect
      <4>4. to \in ActiveModes => status[p].haltReason = ""
        BY <2>2, <4>2 DEF MachineAllows, SerialInv, ActiveModes, TradingModes
      <4>5. status'[p].haltReason # "" <=> status'[p].mode = "halted"
        BY <2>2, <4>1, <4>4 DEF RunModes, ActiveModes, TradingModes
      <4> QED BY <2>2, <3>2, <4>1, <4>2, <4>3, <4>5
    <3>3. CASE q = p /\ caller[c].at # "status"
      <4>1. /\ status'[p].mode = status[p].mode
            /\ status'[p].haltReason = status[p].haltReason
        BY <2>1, <3>3 DEF RunEffect
      <4>2. ~InTransition(p)' => machine'[p] = machine[p]
        BY <2>1, <2>4 DEF RunEffect
      <4> QED BY <2>2, <2>3, <3>3, <4>1, <4>2, ZenonT(60) DEF SerialInv
    <3> QED BY <3>1, <3>2, <3>3
  <2> QED BY <2>6, <2>7 DEF SerialInv
<1>3. ASSUME NEW p \in Procs, ProcStep(p) PROVE SerialInv'
  <2>0. /\ OthersUnchanged(p)
        /\ BootEffect(p) \/ BootPersistEffect(p) \/ CrashEffect(p) \/ TickEffect(p)
    BY <1>3, ProcEffect
  <2>1. ASSUME NEW c \in Callers
        PROVE  /\ proc'[OwnerOf[c]] # "up" => caller'[c].at = "idle"
               /\ caller'[c].at = "status" =>
                    /\ machine'[OwnerOf[c]] = Target(caller'[c].op)
                    /\ MachineAllows(status'[OwnerOf[c]].mode, Target(caller'[c].op))
    <3>1. CASE OwnerOf[c] # p
      <4>1. OwnerOf[c] \in Procs
        OBVIOUS
      <4> QED BY <2>0, <3>1, <4>1, KeptSerial DEF OthersUnchanged
    <3>2. CASE OwnerOf[c] = p /\ (BootEffect(p) \/ CrashEffect(p))
      BY <3>2, ZenonT(60) DEF BootEffect, CrashEffect, SerialInv
    <3>3. CASE OwnerOf[c] = p /\ (BootPersistEffect(p) \/ TickEffect(p))
      <4>1. /\ caller' = caller /\ machine' = machine
            /\ proc' = proc \/ proc'[p] = "up"
            /\ status'[p].mode = status[p].mode
        BY <3>3 DEF BootPersistEffect, TickEffect
      <4> QED BY <3>3, <4>1, ZenonT(60) DEF SerialInv, MachineAllows
    <3> QED BY <2>0, <3>1, <3>2, <3>3
  <2>2. ASSUME NEW q \in Procs
        PROVE  /\ proc'[q] = "down" => status'[q].mode = "idle"
               /\ status'[q].haltReason # "" <=> status'[q].mode = "halted"
               /\ ~InTransition(q)' => status'[q].mode = machine'[q]
    <3>1. CASE q # p
      <4>1. InTransition(q) <=> InTransition(q)'
        BY <2>0, <3>1 DEF OthersUnchanged, InTransition
      <4> QED BY <2>0, <3>1, <4>1, ZenonT(60) DEF OthersUnchanged, SerialInv
    <3>2. CASE q = p /\ (BootEffect(p) \/ CrashEffect(p))
      BY <3>2 DEF BootEffect, CrashEffect
    <3>3. CASE q = p /\ (BootPersistEffect(p) \/ TickEffect(p))
      BY <3>3, ZenonT(60) DEF BootPersistEffect, TickEffect, SerialInv, InTransition
    <3> QED BY <2>0, <3>1, <3>2, <3>3
  <2> QED BY <2>1, <2>2 DEF SerialInv
<1>4. CASE AcceptDisclaimer
  BY <1>4 DEF AcceptDisclaimer, SerialInv, InTransition
<1>5. CASE UNCHANGED vars
  BY <1>5 DEF vars, SerialInv, InTransition
<1> QED BY <1>1, <1>2, <1>3, <1>4, <1>5 DEF Next

\* The strengthening holds throughout.
LEMMA SerialInvariant == ASSUME OneCallerEach PROVE Spec => []SerialInv
<1>1. Init => SerialInv
  <2> SUFFICES ASSUME Init PROVE SerialInv
    OBVIOUS
  <2>1. \A c \in Callers : caller[c].at = "idle"
    BY DEF Init, NewCaller
  <2>2. \A p \in Procs : /\ machine[p] = "idle" /\ status[p].mode = "idle"
                         /\ status[p].haltReason = ""
    BY DEF Init, NewStatus
  <2> QED BY <2>1, <2>2 DEF SerialInv
<1> QED BY <1>1, SerialStep, TypeCorrect, PTL DEF Spec

\* With one caller per process, and any number of processes on the same file,
\* the status agrees with the state machine between two calls: the trading gate
\* reads the mode the machine is in, and a halt reason is there in a halt only.
THEOREM SerialModeAgreement == ASSUME OneCallerEach PROVE Spec => []ModeAgreement
<1>1. SerialInv => ModeAgreement
  BY DEF SerialInv, ModeAgreement, GateOpen
<1> QED BY <1>1, SerialInvariant, PTL

\* With one caller per process, a process leaves its halt only by ending or by a
\* StopAll call.
THEOREM SerialHaltIsSticky == ASSUME OneCallerEach PROVE Spec => HaltIsSticky
<1> DEFINE Leaves(p) == status[p].mode = "halted" /\ status'[p].mode # "halted"
           Excused(p) == \/ proc'[p] = "down"
                         \/ \E c \in Callers : /\ OwnerOf[c] = p
                                               /\ caller[c].at = "status"
                                               /\ caller[c].op = "StopAll"
<1>1. TypeOK /\ SerialInv /\ [Next]_vars => [\A p \in Procs : Leaves(p) => Excused(p)]_vars
  <2> SUFFICES ASSUME TypeOK, SerialInv, Next, NEW p \in Procs, Leaves(p)
               PROVE  Excused(p)
    OBVIOUS
  <2>1. ASSUME NEW c \in Callers, NEW op \in Calls, Call(c, op) PROVE Excused(p)
    BY <2>1 DEF Call
  <2>2. ASSUME NEW c \in Callers, CallStep(c) PROVE Excused(p)
    <3>1. CallerEffect(c) /\ RunEffect(c)
      BY <2>2, CallEffect
    <3>2. OwnerOf[c] = p /\ caller[c].at = "status"
      BY <3>1 DEF RunEffect
    <3>3. Target(caller[c].op) # "halted" /\ MachineAllows("halted", Target(caller[c].op))
      BY <3>1, <3>2 DEF RunEffect, SerialInv
    <3>4. caller[c].op \in ServiceCalls
      BY <3>2, CallsAssumption DEF TypeOK, CallersTypeOK
    <3>5. caller[c].op = "StopAll"
      BY <3>3, <3>4, TargetType DEF MachineAllows
    <3> QED BY <3>2, <3>5
  <2>3. ASSUME NEW q \in Procs, ProcStep(q) PROVE Excused(p)
    <3>0. /\ OthersUnchanged(q)
          /\ BootEffect(q) \/ BootPersistEffect(q) \/ CrashEffect(q) \/ TickEffect(q)
      BY <2>3, ProcEffect
    <3>1. p = q
      BY <3>0 DEF OthersUnchanged
    <3>2. ~BootEffect(q) /\ ~BootPersistEffect(q) /\ ~TickEffect(q)
      BY <3>1 DEF BootEffect, BootPersistEffect, TickEffect, SerialInv
    <3> QED BY <3>0, <3>1, <3>2 DEF CrashEffect
  <2>4. CASE AcceptDisclaimer
    BY <2>4 DEF AcceptDisclaimer
  <2> QED BY <2>1, <2>2, <2>3, <2>4 DEF Next
<1> QED BY <1>1, SerialInvariant, TypeCorrect, PTL DEF Spec, HaltIsSticky

-----------------------------------------------------------------------------
(* One process with one caller: what a returned call leaves behind. *)

\* One process, put together by bootstrap.Factory.Open, has the state directory
\* open and issues one call at a time.
Alone ==
  /\ \A c, d \in Callers : c = d
  /\ \A p, q \in Procs : p = q
  /\ Commands = {}

\* Strengthening: from the moment the status shows what the call asked for until
\* the call has returned, machine and status keep showing it; the snapshot under
\* way has the mode and the connectivity of the status, which only a clock drift
\* can change meanwhile; and the last snapshot of an EmergencyStop is taken after
\* the process was cut off.
AloneCall(c) ==
  LET r == caller[c]
      p == OwnerOf[c]
      m == Target(r.op) IN
  /\ r.at = "connectivity" \/ (r.at \in {"snapshot", "save"} /\ r.then = "connectivity") =>
       r.op = "EmergencyStop"
  /\ r.at = "connectivity" \/ (r.at \in {"snapshot", "save"} /\ r.then # "machine") =>
       machine[p] = m /\ status[p].mode = m
  /\ r.at = "idle" /\ r.result = "ok" =>
       machine[p] = m /\ status[p].mode = m /\ proc[p] = "up" /\ disk.mode = m
  /\ r.at = "save" => /\ r.snap.mode = status[p].mode
                      /\ r.snap.connectivity = status[p].connectivity
  /\ r.op = "EmergencyStop" /\ r.at \in {"snapshot", "save"} /\ r.then = "return" =>
       status[p].connectivity = "network_waiting"
  /\ stopAcked => r.at = "idle"

AloneInv == (\A c \in Callers : AloneCall(c)) /\ AckedStopHolds

\* A restart keeps the connectivity of the snapshot, and an idle one stays idle.
LEMMA RestoredAlone ==
  ASSUME NEW s \in StatusRecords
  PROVE  /\ Restored(s).connectivity = s.connectivity
         /\ s.mode = "halted" => Restored(s).mode = "halted"
         /\ s.mode = "idle" => Restored(s).mode = "idle"
BY DEF Restored, StatusRecords, ActiveModes, TradingModes

\* No mode change touches the connectivity, and neither does a clock drift.
LEMMA ConnectivityKept ==
  ASSUME NEW s \in StatusRecords
  PROVE  /\ \A to \in RunModes :
              Transitioned(s, to, "emergency stop").connectivity = s.connectivity
         /\ \A d \in Drifts : Drifted(s, d).connectivity = s.connectivity
BY DEF Transitioned, Drifted, StatusRecords

\* Every step keeps the strengthening.
LEMMA AloneStep ==
  ASSUME Alone
  PROVE  TypeOK /\ SerialInv /\ AloneInv /\ [Next]_vars => AloneInv'
<1> SUFFICES ASSUME TypeOK, SerialInv, AloneInv, [Next]_vars PROVE AloneInv'
  OBVIOUS
<1> USE OwnerAssumption, CallsAssumption, DriftsAssumption
<1>0. ASSUME NEW c \in Callers
      PROVE  /\ OwnerOf[c] \in Procs
             /\ status[OwnerOf[c]] \in StatusRecords
             /\ caller[c] \in CallerRecords
             /\ AloneCall(c)
  BY DEF TypeOK, CallersTypeOK, AloneInv
<1>t. /\ caller \in [Callers -> CallerRecords]
      /\ status \in [Procs -> StatusRecords]
      /\ machine \in [Procs -> RunModes]
      /\ proc \in [Procs -> {"down", "booting", "up"}]
  BY DEF TypeOK, CallersTypeOK
<1>a. ASSUME NEW c \in Callers, AloneCall(c)', AckedStopHolds' PROVE AloneInv'
  BY <1>a DEF Alone, AloneInv
<1>b. ASSUME NEW c \in Callers, NEW r, Return(c, r)
      PROVE  /\ caller'[c].at = "idle" /\ caller'[c].op = caller[c].op
             /\ caller'[c].result = r
  BY <1>b, <1>t DEF Return, CallerRecords
<1>c. ASSUME NEW c \in Callers, NEW s, PersistThen(c, s)
      PROVE  /\ caller'[c].at = "snapshot" /\ caller'[c].op = caller[c].op
             /\ caller'[c].then = s
  BY <1>c, <1>t DEF PersistThen, CallerRecords
<1>d. ASSUME NEW c \in Callers, caller[c].at # "idle" PROVE ~stopAcked
  BY <1>0, <1>d DEF AloneCall
<1>e. ASSUME NEW c \in Callers, caller[c].at # "idle", Return(c, "error") PROVE AloneInv'
  <2>1. ~stopAcked'
    BY <1>d, <1>e DEF Return
  <2>2. AloneCall(c)'
    BY <1>b, <1>e, <2>1 DEF AloneCall
  <2> QED BY <1>a, <2>1, <2>2 DEF AckedStopHolds
<1>1. ASSUME NEW c \in Callers, NEW op \in Calls, Call(c, op) PROVE AloneInv'
  <2>1. caller'[c].at \in {"disclaimer", "machine"} /\ ~stopAcked'
    BY <1>1, <1>t DEF Call, NewCaller
  <2>2. AloneCall(c)'
    BY <2>1 DEF AloneCall
  <2> QED BY <1>a, <2>1, <2>2 DEF AckedStopHolds
<1>2. ASSUME NEW c \in Callers, CheckDisclaimer(c) PROVE AloneInv'
  <2>1. CASE GoTo(c, "license") /\ UNCHANGED stopAcked
    <3>1. caller'[c].at = "license" /\ ~stopAcked'
      BY <1>2, <1>d, <1>t, <2>1 DEF CheckDisclaimer, GoTo, CallerRecords
    <3>2. AloneCall(c)'
      BY <3>1 DEF AloneCall
    <3> QED BY <1>a, <3>1, <3>2 DEF AckedStopHolds
  <2>2. CASE Return(c, "error")
    BY <1>2, <1>e, <2>2 DEF CheckDisclaimer
  <2> QED BY <1>2, <2>1, <2>2 DEF CheckDisclaimer
<1>3. ASSUME NEW c \in Callers, SetLicense(c) PROVE AloneInv'
  <2>1. caller'[c].at = "snapshot" /\ caller'[c].then = "machine" /\ ~stopAcked'
    BY <1>3, <1>c, <1>d DEF SetLicense
  <2>2. AloneCall(c)'
    BY <2>1 DEF AloneCall
  <2> QED BY <1>a, <2>1, <2>2 DEF AckedStopHolds
<1>4. ASSUME NEW c \in Callers, MachineStep(c) PROVE AloneInv'
  <2>1. CASE MachineAllows(machine[OwnerOf[c]], Target(caller[c].op))
    <3>1. caller'[c].at = "status" /\ ~stopAcked'
      BY <1>4, <1>d, <1>t, <2>1 DEF MachineStep, GoTo, CallerRecords
    <3>2. AloneCall(c)'
      BY <3>1 DEF AloneCall
    <3> QED BY <1>a, <3>1, <3>2 DEF AckedStopHolds
  <2>2. CASE ~MachineAllows(machine[OwnerOf[c]], Target(caller[c].op))
    BY <1>4, <1>e, <2>2 DEF MachineStep
  <2> QED BY <2>1, <2>2
<1>5. ASSUME NEW c \in Callers, StatusStep(c) PROVE AloneInv'
  <2> DEFINE p == OwnerOf[c]
             m == Target(caller[c].op)
  <2>1. m \in RunModes /\ (m = "halted" <=> caller[c].op = "EmergencyStop")
    BY <1>5, TargetType DEF StatusStep, TypeOK, CallersTypeOK
  <2>2. status'[p].mode = m
    BY <1>5, <1>0, <1>t, <2>1, TransitionedType DEF StatusStep
  <2>3. machine'[p] = m
    BY <1>5 DEF StatusStep, SerialInv
  <2>4. /\ caller'[c].at = "snapshot" /\ caller'[c].op = caller[c].op
        /\ caller'[c].then = IF caller[c].op = "EmergencyStop" THEN "connectivity" ELSE "return"
        /\ ~stopAcked'
    BY <1>5, <1>c, <1>d DEF StatusStep
  <2>5. AloneCall(c)'
    BY <2>2, <2>3, <2>4 DEF AloneCall
  <2> QED BY <1>a, <2>4, <2>5 DEF AckedStopHolds
<1>6. ASSUME NEW c \in Callers, SetConnectivity(c) PROVE AloneInv'
  <2> DEFINE p == OwnerOf[c]
             m == Target(caller[c].op)
  <2>1. machine[p] = m /\ status[p].mode = m
    BY <1>0, <1>6 DEF AloneCall, SetConnectivity
  <2>2. status'[p].mode = m /\ status'[p].connectivity = "network_waiting"
    BY <1>6, <1>0, <1>t, <2>1 DEF SetConnectivity, StatusRecords
  <2>3. /\ caller'[c].at = "snapshot" /\ caller'[c].op = caller[c].op
        /\ caller'[c].then = "return" /\ machine' = machine /\ ~stopAcked'
    BY <1>6, <1>c, <1>d DEF SetConnectivity
  <2>4. AloneCall(c)'
    BY <2>1, <2>2, <2>3 DEF AloneCall
  <2> QED BY <1>a, <2>3, <2>4 DEF AckedStopHolds
<1>7. ASSUME NEW c \in Callers, TakeSnapshot(c) PROVE AloneInv'
  <2>1. /\ caller'[c].at = "save" /\ caller'[c].op = caller[c].op
        /\ caller'[c].then = caller[c].then
        /\ caller'[c].snap = status[OwnerOf[c]]
        /\ UNCHANGED <<machine, status>> /\ ~stopAcked'
    BY <1>7, <1>d, <1>t DEF TakeSnapshot, CallerRecords
  <2>2. caller[c].at = "snapshot"
    BY <1>7 DEF TakeSnapshot
  <2>3. AloneCall(c)'
    BY <1>0, <2>1, <2>2 DEF AloneCall
  <2> QED BY <1>a, <2>1, <2>3 DEF AckedStopHolds
<1>8. ASSUME NEW c \in Callers, Save(c) PROVE AloneInv'
  <2> DEFINE p == OwnerOf[c]
             m == Target(caller[c].op)
  <2>1. /\ caller[c].at = "save" /\ disk' = caller[c].snap
        /\ UNCHANGED <<proc, machine, status>>
        /\ disk'.mode = status[p].mode /\ disk'.connectivity = status[p].connectivity
    BY <1>0, <1>8 DEF Save, AloneCall, Alone
  <2>2. proc[p] = "up"
    BY <2>1 DEF SerialInv
  <2>3. CASE caller[c].then = "return"
    <3>1. /\ caller'[c].at = "idle" /\ caller'[c].op = caller[c].op
          /\ stopAcked' => caller[c].op = "EmergencyStop"
      BY <1>8, <1>b, <1>d, <2>1, <2>3 DEF Save, Return
    <3>2. machine[p] = m /\ status[p].mode = m
      BY <1>0, <2>1, <2>3 DEF AloneCall
    <3>3. AloneCall(c)'
      BY <2>1, <2>2, <3>1, <3>2 DEF AloneCall
    <3>4. caller[c].op = "EmergencyStop" => m = "halted" /\ status[p].connectivity = "network_waiting"
      BY <1>0, <2>1, <2>3 DEF AloneCall, Target
    <3>5. AckedStopHolds'
      BY <1>0, <2>1, <3>1, <3>2, <3>4 DEF AckedStopHolds, Alone
    <3> QED BY <1>a, <3>3, <3>5
  <2>4. CASE caller[c].then # "return"
    <3>1. /\ caller'[c].at = caller[c].then /\ caller'[c].op = caller[c].op
          /\ caller'[c].then = "return" /\ ~stopAcked'
      BY <1>8, <1>d, <1>t, <2>1, <2>4 DEF Save, CallerRecords
    <3>2. /\ caller[c].then \in {"machine", "connectivity"}
          /\ caller[c].then = "connectivity" => machine[p] = m /\ status[p].mode = m
      BY <1>0, <2>1, <2>4 DEF AloneCall, CallerRecords
    <3>3. caller[c].then = "connectivity" => caller[c].op = "EmergencyStop"
      BY <1>0, <2>1 DEF AloneCall
    <3>4. AloneCall(c)'
      BY <2>1, <3>1, <3>2, <3>3 DEF AloneCall
    <3> QED BY <1>a, <3>1, <3>4 DEF AckedStopHolds
  <2> QED BY <2>3, <2>4
<1>9. ASSUME NEW c \in Callers, SaveFails(c) PROVE AloneInv'
  BY <1>9, <1>e DEF SaveFails
<1>10. ASSUME NEW p \in Procs, Boot(p) PROVE AloneInv'
  <2>1. PICK s \in {IF disk = NoStatus THEN NewStatus ELSE Restored(disk),
                    UnreadableSnapshot} :
          /\ disk = NoStatus => s = NewStatus
          /\ status' = [status EXCEPT ![p] = s]
          /\ machine' = [machine EXCEPT ![p] = s.mode]
    BY <1>10 DEF Boot, Alone
  <2>2. proc[p] = "down" /\ UNCHANGED <<disk, caller, stopAcked>>
    BY <1>10 DEF Boot
  <2>3. ASSUME NEW c \in Callers PROVE AloneCall(c)'
    <3>1. OwnerOf[c] = p
      BY <1>0 DEF Alone
    <3>2. caller[c].at = "idle" /\ caller[c].result # "ok"
      BY <1>0, <2>2, <3>1 DEF SerialInv, AloneCall
    <3>3. caller'[c] = caller[c]
      BY <2>2
    <3> QED BY <3>2, <3>3 DEF AloneCall
  <2>4. AckedStopHolds'
    <3> SUFFICES ASSUME stopAcked PROVE AckedStopHolds'
      BY <2>2 DEF AckedStopHolds
    <3>1. disk \in StatusRecords /\ disk.mode = "halted" /\ disk.connectivity = "network_waiting"
      BY DEF AckedStopHolds, AloneInv, TypeOK, NoStatus
    <3>2. disk # NoStatus
      BY <3>1 DEF NoStatus
    <3>3. s.mode = "halted" /\ s.connectivity = "network_waiting"
      BY <2>1, <3>1, <3>2, RestoredAlone DEF UnreadableSnapshot, NewStatus
    <3>4. \A q \in Procs : q = p
      BY DEF Alone
    <3> QED BY <1>t, <2>1, <2>2, <3>1, <3>3, <3>4 DEF AckedStopHolds
  <2> QED BY <2>3, <2>4 DEF AloneInv
<1>11. ASSUME NEW p \in Procs, BootPersist(p) PROVE AloneInv'
  <2>1. /\ proc[p] = "booting" /\ disk' \in {status[p], disk}
        /\ UNCHANGED <<machine, status, caller, stopAcked>>
    BY <1>11 DEF BootPersist
  <2>2. ASSUME NEW c \in Callers PROVE AloneCall(c)'
    <3>1. OwnerOf[c] = p
      BY <1>0 DEF Alone
    <3>2. caller[c].at = "idle" /\ caller[c].result # "ok"
      BY <1>0, <2>1, <3>1 DEF SerialInv, AloneCall
    <3>3. caller'[c] = caller[c]
      BY <2>1
    <3> QED BY <3>2, <3>3 DEF AloneCall
  <2>3. AckedStopHolds'
    BY <2>1 DEF AckedStopHolds, AloneInv, Alone
  <2> QED BY <2>2, <2>3 DEF AloneInv
<1>12. ASSUME NEW p \in Procs, Crash(p) PROVE AloneInv'
  <2>1. proc'[p] = "down" /\ UNCHANGED <<disk, stopAcked>>
    BY <1>12, <1>t DEF Crash
  <2>2. ASSUME NEW c \in Callers PROVE AloneCall(c)'
    <3>1. OwnerOf[c] = p
      BY <1>0 DEF Alone
    <3>2. caller'[c].at = "idle" /\ caller'[c].result = "lost"
      BY <1>12, <3>1 DEF Crash, NewCaller
    <3> QED BY <3>2 DEF AloneCall
  <2>3. AckedStopHolds'
    BY <2>1 DEF AckedStopHolds, AloneInv, Alone
  <2> QED BY <2>2, <2>3 DEF AloneInv
<1>13. ASSUME NEW p \in Procs, NEW d \in Drifts, NTPTick(p, d) PROVE AloneInv'
  <2>1. /\ proc[p] = "up" /\ UNCHANGED <<proc, machine, disk, caller, stopAcked>>
        /\ status'[p] = Drifted(status[p], d)
    BY <1>13, <1>t DEF NTPTick
  <2>2. /\ status'[p].mode = status[p].mode
        /\ status'[p].connectivity = status[p].connectivity
    <3>1. status[p] \in StatusRecords
      BY <1>t
    <3>2. Drifted(status[p], d).mode = status[p].mode
      BY <3>1, DriftedType
    <3>3. Drifted(status[p], d).connectivity = status[p].connectivity
      BY <3>1, ConnectivityKept
    <3> QED BY <2>1, <3>2, <3>3
  <2>3. ASSUME NEW c \in Callers PROVE AloneCall(c)'
    <3>1. OwnerOf[c] = p
      BY <1>0 DEF Alone
    <3> QED BY <1>0, <2>1, <2>2, <3>1 DEF AloneCall
  <2>4. AckedStopHolds'
    BY <2>1, <2>2 DEF AckedStopHolds, AloneInv, Alone
  <2> QED BY <2>3, <2>4 DEF AloneInv
<1>14. CASE AcceptDisclaimer
  BY <1>14 DEF AcceptDisclaimer, AloneInv, AloneCall, AckedStopHolds
<1>15. CASE UNCHANGED vars
  BY <1>15 DEF vars, AloneInv, AloneCall, AckedStopHolds
<1> QED
  BY <1>1, <1>2, <1>3, <1>4, <1>5, <1>6, <1>7, <1>8, <1>9, <1>10, <1>11, <1>12,
     <1>13, <1>14, <1>15 DEF Next, CallStep, ProcStep

\* The strengthening holds throughout.
LEMMA AloneInvariant == ASSUME Alone PROVE Spec => []AloneInv
<1>0. OneCallerEach
  BY DEF Alone, OneCallerEach
<1>1. Init => AloneInv
  <2> SUFFICES ASSUME Init PROVE AloneInv
    OBVIOUS
  <2>1. \A c \in Callers : caller[c].at = "idle" /\ caller[c].result = "none"
    BY DEF Init, NewCaller
  <2> QED BY <2>1 DEF Init, AloneInv, AloneCall, AckedStopHolds
<1>2. TypeOK /\ SerialInv /\ AloneInv /\ [Next]_vars => AloneInv'
  BY AloneStep
<1>3. Spec => []SerialInv
  BY <1>0, SerialInvariant
<1> QED BY <1>1, <1>2, <1>3, TypeCorrect, PTL DEF Spec

\* While one process with one caller uses the state directory, a call that has
\* returned nil has put what it asked for into the state machine, the status and
\* the file, whatever crashes, restarts, failed saves and clock drifts came
\* before (Repository.Transition, persist).
THEOREM DurableTheorem == ASSUME Alone PROVE Spec => []CallsAreDurable
<1>1. TypeOK /\ AloneInv => CallsAreDurable
  <2> SUFFICES ASSUME TypeOK, AloneInv, NEW c \in Callers,
                      caller[c].at = "idle", caller[c].result = "ok"
               PROVE  LET m == Target(caller[c].op) IN
                      /\ machine[OwnerOf[c]] = m
                      /\ disk.mode = m
                      /\ Restored(disk).mode = IF m = "idle" THEN "idle" ELSE "halted"
    BY DEF CallsAreDurable
  <2>1. /\ machine[OwnerOf[c]] = Target(caller[c].op)
        /\ disk.mode = Target(caller[c].op)
    BY DEF AloneInv, AloneCall
  <2>2. disk \in StatusRecords
    <3>1. machine[OwnerOf[c]] \in RunModes
      BY OwnerAssumption DEF TypeOK
    <3> QED BY <2>1, <3>1 DEF TypeOK, NoStatus, RunModes, ActiveModes, TradingModes
  <2> QED BY <2>1, <2>2, RestoredType, RestoredAlone
<1> QED BY <1>1, AloneInvariant, TypeCorrect, PTL

\* While one process with one caller uses the state directory, an EmergencyStop
\* that has returned nil holds until the next call: the file and every process
\* that is running stay halted and cut off through clock drifts, crashes and
\* restarts, also restarts that cannot read the file (service.EmergencyStop).
THEOREM AckedStopTheorem == ASSUME Alone PROVE Spec => []AckedStopHolds
<1>1. AloneInv => AckedStopHolds
  BY DEF AloneInv
<1> QED BY <1>1, AloneInvariant, PTL

-----------------------------------------------------------------------------
(* One process with one caller: its calls are commands on a register. *)

\* The agent and its operator are all there is, and what the register holds is read
\* from the agent's variables.
LEMMA TheTwo ==
  ASSUME Alone, Callers # {}
  PROVE  /\ TheOperator \in Callers /\ TheAgent \in Procs
         /\ OwnerOf[TheOperator] = TheAgent
         /\ \A c \in Callers : c = TheOperator
         /\ \A p \in Procs : p = TheAgent
<1>1. TheOperator \in Callers
  BY DEF TheOperator
<1>2. OwnerOf[TheOperator] \in Procs
  BY <1>1, OwnerAssumption
<1>3. TheAgent \in Procs
  BY <1>2 DEF TheAgent
<1> QED BY <1>1, <1>2, <1>3 DEF Alone

\* A restart shows the operator what the register may start with, whether the file
\* was read or not (RestoreSafetySnapshot, restoreSnapshot).
LEMMA RestoredFace ==
  /\ \A s \in StatusRecords : Face(Restored(s)) = Control!AfterRestart(Face(s))
  /\ Face(NewStatus) = Control!AfterRestart([mode |-> "none", net |-> "connected"])
  /\ Face(UnreadableSnapshot) = Control!Unreadable
<1>1. ASSUME NEW s \in StatusRecords
      PROVE  Face(Restored(s)) = Control!AfterRestart(Face(s))
  <2>1. /\ Restored(s).connectivity = s.connectivity
        /\ Restored(s).mode = IF s.mode = "idle" THEN "idle" ELSE "halted"
    BY RestoredType, RestoredAlone
  <2>2. s.mode # "none"
    BY DEF StatusRecords, RunModes, ActiveModes, TradingModes
  <2> QED BY <2>1, <2>2 DEF Face, Control!AfterRestart
<1>2. Face(NewStatus) = Control!AfterRestart([mode |-> "none", net |-> "connected"])
  BY DEF Face, NewStatus, Control!AfterRestart
<1>3. Face(UnreadableSnapshot) = Control!Unreadable
  BY DEF Face, UnreadableSnapshot, NewStatus, Control!Unreadable
<1> QED BY <1>1, <1>2, <1>3

\* Every step of the agent is a command on the register, an event of its life or
\* nothing an operator sees.
LEMMA ControlStep ==
  ASSUME Alone, Callers # {}
  PROVE  TypeOK /\ SerialInv /\ AloneInv /\ [Next]_vars => [Control!Next]_(Control!vars)
<1> SUFFICES ASSUME TypeOK, SerialInv, AloneInv, [Next]_vars
             PROVE  [Control!Next]_(Control!vars)
  OBVIOUS
<1> USE OwnerAssumption, CallsAssumption, DriftsAssumption
<1> DEFINE c == TheOperator
           p == TheAgent
           r == caller[c]
           m == Target(r.op)
           off == [mode |-> "off", net |-> "none"]
           running == proc[p] # "down" /\ proc'[p] # "down"
<1>0. /\ c \in Callers /\ p \in Procs /\ OwnerOf[c] = p
      /\ \A d \in Callers : d = c
      /\ \A q \in Procs : q = p
  BY TheTwo
<1> HIDE DEF c, p
<1>t. /\ caller \in [Callers -> CallerRecords] /\ r \in CallerRecords
      /\ status \in [Procs -> StatusRecords] /\ status[p] \in StatusRecords
      /\ proc \in [Procs -> {"down", "booting", "up"}]
      /\ AloneCall(c)
  BY <1>0 DEF TypeOK, CallersTypeOK, AloneInv
<1>m. ASSUME r.at # "idle"
      PROVE  /\ r.op \in ServiceCalls /\ m \in RunModes /\ m # "none"
             /\ proc[p] = "up"
             /\ m = "halted" <=> r.op = "EmergencyStop"
  <2>1. r.op \in ServiceCalls /\ proc[p] = "up"
    BY <1>0, <1>m DEF TypeOK, CallersTypeOK, SerialInv
  <2>2. m \in RunModes /\ (m = "halted" <=> r.op = "EmergencyStop")
    BY <2>1, TargetType
  <2> QED BY <2>1, <2>2 DEF RunModes, ActiveModes, TradingModes
<1>s. /\ Shown = IF proc[p] = "down" THEN off ELSE Face(status[p])
      /\ Shown' = IF proc'[p] = "down" THEN off ELSE Face(status'[p])
      /\ Kept = IF disk = NoStatus THEN [mode |-> "none", net |-> "connected"] ELSE Face(disk)
      /\ Asked = IF r.at = "idle" THEN "none" ELSE m
      /\ Asked' = IF caller'[c].at = "idle" THEN "none" ELSE Target(caller'[c].op)
  BY DEF Shown, Kept, Asked, c, p
<1>k. disk' = disk => Kept' = Kept
  BY DEF Kept
<1>f. /\ \A q \in StatusRecords : Face(q).mode = q.mode /\ Face(q).net = q.connectivity
      /\ \A q \in StatusRecords : Face(q) # off
  <2>1. \A q \in StatusRecords : q.mode # "off"
    BY DEF StatusRecords, RunModes, ActiveModes, TradingModes
  <2>2. \A q \in StatusRecords : Face(q).mode = q.mode /\ Face(q).net = q.connectivity
    BY DEF Face
  <2> QED BY <2>1, <2>2
<1>a. ASSUME r.at # "idle", Return(c, "error"), UNCHANGED <<proc, status, disk>>
      PROVE  [Control!Next]_(Control!vars)
  <2>1. caller'[c].at = "idle"
    BY <1>0, <1>a, <1>t DEF Return, CallerRecords
  <2>2. Asked = m /\ m # "none" /\ Asked' = "none"
    BY <1>a, <1>m, <1>s, <2>1
  <2>3. Shown' = Shown /\ Kept' = Kept
    BY <1>a, <1>k, <1>s
  <2> QED BY <2>2, <2>3 DEF Control!Fail, Control!Next
<1>b. ASSUME Shown' = Shown, Asked' = Asked, disk' = disk
      PROVE  [Control!Next]_(Control!vars)
  BY <1>b, <1>k DEF Control!vars
<1>c. ASSUME r.at # "idle", caller'[c].at # "idle", caller'[c].op = r.op
      PROVE  Asked' = Asked /\ Asked = m
  BY <1>c, <1>s
<1> HIDE DEF r, m, off
<1>1. ASSUME NEW op \in Calls, Call(c, op) PROVE [Control!Next]_(Control!vars)
  <2>1. /\ r.at = "idle" /\ proc[p] = "up" /\ UNCHANGED <<proc, status, disk>>
    BY <1>0, <1>1 DEF Call, r
  <2>2. caller'[c].at # "idle" /\ caller'[c].op = op
    BY <1>0, <1>1, <1>t DEF Call, NewCaller
  <2>3. Asked = "none" /\ Asked' = Target(op)
    BY <1>s, <2>1, <2>2
  <2>4. Shown' = Shown /\ Kept' = Kept /\ Shown # off
    BY <1>f, <1>k, <1>s, <1>t, <2>1
  <2>5. Target(op) \in RunModes
    BY TargetType
  <2>6. Control!Ask(Target(op))
    BY <2>3, <2>4 DEF Control!Ask, Control!Off, off
  <2> QED BY <2>5, <2>6 DEF Control!Next
<1>2. ASSUME CheckDisclaimer(c) PROVE [Control!Next]_(Control!vars)
  <2>1. r.at = "disclaimer" /\ UNCHANGED <<proc, status, disk>>
    BY <1>2 DEF CheckDisclaimer, r
  <2>2. CASE GoTo(c, "license")
    <3>1. caller'[c].at = "license" /\ caller'[c].op = r.op
      BY <1>0, <1>t, <2>2 DEF GoTo, CallerRecords, r
    <3> QED BY <1>b, <1>c, <1>s, <2>1, <3>1
  <2>3. CASE Return(c, "error")
    BY <1>a, <2>1, <2>3
  <2> QED BY <1>2, <2>2, <2>3 DEF CheckDisclaimer
<1>d. ASSUME NEW s, PersistThen(c, s)
      PROVE  caller'[c].at = "snapshot" /\ caller'[c].op = r.op
  BY <1>0, <1>d, <1>t DEF PersistThen, CallerRecords, r
<1>3. ASSUME SetLicense(c) PROVE [Control!Next]_(Control!vars)
  <2>1. /\ r.at = "license" /\ UNCHANGED <<proc, disk>>
        /\ status'[p] = [status[p] EXCEPT !.license = "licensed"]
        /\ caller'[c].at = "snapshot" /\ caller'[c].op = r.op
    BY <1>0, <1>3, <1>d, <1>t DEF SetLicense, r
  <2>2. Face(status'[p]) = Face(status[p])
    BY <1>t, <2>1 DEF Face, StatusRecords
  <2> QED BY <1>b, <1>c, <1>s, <2>1, <2>2
<1>4. ASSUME MachineStep(c) PROVE [Control!Next]_(Control!vars)
  <2>1. r.at = "machine" /\ UNCHANGED <<proc, status, disk>>
    BY <1>4 DEF MachineStep, r
  <2>2. CASE GoTo(c, "status")
    <3>1. caller'[c].at = "status" /\ caller'[c].op = r.op
      BY <1>0, <1>t, <2>2 DEF GoTo, CallerRecords, r
    <3> QED BY <1>b, <1>c, <1>s, <2>1, <3>1
  <2>3. CASE Return(c, "error")
    BY <1>a, <2>1, <2>3
  <2> QED BY <1>4, <2>2, <2>3 DEF MachineStep
<1>5. ASSUME StatusStep(c) PROVE [Control!Next]_(Control!vars)
  <2>1. /\ r.at = "status" /\ UNCHANGED <<proc, disk>>
        /\ status'[p] = Transitioned(status[p], m, "emergency stop")
        /\ caller'[c].at = "snapshot" /\ caller'[c].op = r.op
    BY <1>0, <1>5, <1>d, <1>t DEF StatusStep, r, m
  <2>2. proc[p] = "up" /\ m \in RunModes /\ m # "none"
    BY <1>m, <2>1
  <2>3. status'[p].mode = m /\ status'[p].connectivity = status[p].connectivity
    <3>1. status[p] \in StatusRecords /\ m \in RunModes
      BY <1>t, <2>2
    <3>2. Transitioned(status[p], m, "emergency stop").mode = m
      BY <3>1, TransitionedType
    <3>3. Transitioned(status[p], m, "emergency stop").connectivity = status[p].connectivity
      BY <3>1, ConnectivityKept
    <3> QED BY <2>1, <3>2, <3>3
  <2>4. Shown = Face(status[p]) /\ Shown' = Face(status'[p])
    BY <1>s, <2>1, <2>2
  <2>5. Shown' = [Shown EXCEPT !.mode = m]
    BY <2>3, <2>4 DEF Face
  <2>6. Asked = m /\ Asked' = Asked /\ Kept' = Kept
    BY <1>c, <1>k, <2>1
  <2>7. Shown.mode = "halted" => m \in {"idle", "halted"}
    BY <1>0, <1>f, <1>t, <2>1, <2>4, ZenonT(60) DEF SerialInv, MachineAllows, r, m
  <2> QED BY <2>2, <2>5, <2>6, <2>7 DEF Control!Obey, Control!Next
<1>6. ASSUME SetConnectivity(c) PROVE [Control!Next]_(Control!vars)
  <2>1. /\ r.at = "connectivity" /\ UNCHANGED <<proc, disk>>
        /\ status'[p] = [status[p] EXCEPT !.connectivity = "network_waiting"]
        /\ caller'[c].at = "snapshot" /\ caller'[c].op = r.op
    BY <1>0, <1>6, <1>d, <1>t DEF SetConnectivity, r
  <2>2. r.op = "EmergencyStop" /\ status[p].mode = m
    BY <1>0, <1>t, <2>1 DEF AloneCall, r, m
  <2>3. proc[p] = "up" /\ m = "halted"
    BY <1>m, <2>1, <2>2
  <2>4. Shown = Face(status[p]) /\ Shown' = Face(status'[p])
    BY <1>s, <2>1, <2>3
  <2>5. Shown' = [Shown EXCEPT !.net = "network_waiting"]
    BY <1>t, <2>1, <2>4 DEF Face, StatusRecords
  <2>6. Asked = "halted" /\ Asked' = Asked /\ Kept' = Kept
    BY <1>c, <1>k, <2>1, <2>3
  <2>7. Shown.mode = "halted"
    BY <1>f, <1>t, <2>2, <2>3, <2>4
  <2> QED BY <2>5, <2>6, <2>7 DEF Control!CutOff, Control!Next
<1>7. ASSUME TakeSnapshot(c) PROVE [Control!Next]_(Control!vars)
  <2>1. /\ r.at = "snapshot" /\ UNCHANGED <<proc, status, disk>>
        /\ caller'[c].at = "save" /\ caller'[c].op = r.op
    BY <1>0, <1>7, <1>t DEF TakeSnapshot, CallerRecords, r
  <2> QED BY <1>b, <1>c, <1>s, <2>1
<1>8. ASSUME Save(c) PROVE [Control!Next]_(Control!vars)
  <2>1. /\ r.at = "save" /\ UNCHANGED <<proc, status>> /\ disk' = r.snap
    BY <1>8 DEF Save, Alone, r
  <2>2. proc[p] = "up" /\ m \in RunModes /\ m # "none"
        /\ (m = "halted" <=> r.op = "EmergencyStop")
    BY <1>m, <2>1
  <2>3. disk' \in StatusRecords /\ Face(disk') = Face(status[p])
    <3>1. r.snap \in StatusRecords
      BY <1>0, <2>1 DEF TypeOK, CallersTypeOK, r
    <3>2. r.snap.mode = status[p].mode /\ r.snap.connectivity = status[p].connectivity
      BY <1>0, <1>t, <2>1 DEF AloneCall, r
    <3> QED BY <2>1, <3>1, <3>2 DEF Face
  <2>4. disk' # NoStatus
    BY <2>3 DEF StatusRecords, NoStatus, RunModes, ActiveModes, TradingModes
  <2>5. Shown = Face(status[p]) /\ Shown' = Shown /\ Kept' = Shown /\ Shown # off
    <3>1. Kept' = Face(disk')
      BY <2>4 DEF Kept
    <3> QED BY <1>f, <1>s, <1>t, <2>1, <2>2, <2>3, <3>1
  <2>6. CASE r.then = "return"
    <3>1. caller'[c].at = "idle"
      BY <1>0, <1>8, <1>t, <2>6 DEF Save, Return, CallerRecords, r
    <3>2. Asked = m /\ Asked' = "none"
      BY <1>s, <2>1, <3>1
    <3>3. /\ status[p].mode = m
          /\ r.op = "EmergencyStop" => status[p].connectivity = "network_waiting"
      BY <1>0, <1>t, <2>1, <2>6 DEF AloneCall, r, m
    <3>4. Shown.mode = m /\ (m = "halted" => Shown.net = "network_waiting")
      BY <1>f, <1>t, <2>2, <2>5, <3>3
    <3> QED BY <2>2, <2>5, <3>2, <3>4 DEF Control!Confirm, Control!Next
  <2>7. CASE r.then # "return"
    <3>1. caller'[c].at = r.then /\ caller'[c].op = r.op
      BY <1>0, <1>8, <1>t, <2>7 DEF Save, CallerRecords, r
    <3>2. r.then # "idle"
      BY <1>t DEF CallerRecords
    <3>3. Asked' = Asked
      BY <1>c, <2>1, <3>1, <3>2
    <3> QED BY <2>5, <3>3 DEF Control!Keep, Control!Off, Control!Next, off
  <2> QED BY <2>6, <2>7
<1>9. ASSUME SaveFails(c) PROVE [Control!Next]_(Control!vars)
  BY <1>9, <1>a DEF SaveFails, r
<1>10. ASSUME Boot(p) PROVE [Control!Next]_(Control!vars)
  <2>1. PICK s \in {IF disk = NoStatus THEN NewStatus ELSE Restored(disk),
                    UnreadableSnapshot} :
          /\ disk = NoStatus => s = NewStatus
          /\ status' = [status EXCEPT ![p] = s]
    BY <1>10 DEF Boot, Alone
  <2>2. /\ proc[p] = "down" /\ proc'[p] = "booting" /\ UNCHANGED <<disk, caller>>
        /\ status'[p] = s
    BY <1>0, <1>10, <1>t, <2>1 DEF Boot
  <2>3. Shown = off /\ Shown' = Face(s) /\ Kept' = Kept /\ Asked' = Asked
    BY <1>k, <1>s, <2>2 DEF Asked
  <2>4. \/ Face(s) = Control!AfterRestart(Kept)
        \/ Kept.mode # "none" /\ Face(s) = Control!Unreadable
    <3>1. CASE disk = NoStatus
      BY <1>s, <2>1, <3>1, RestoredFace
    <3>2. CASE disk # NoStatus
      <4>1. disk \in StatusRecords /\ Kept = Face(disk)
        BY <1>s, <3>2 DEF TypeOK
      <4>2. Kept.mode # "none"
        BY <1>f, <4>1 DEF StatusRecords, RunModes, ActiveModes, TradingModes
      <4> QED BY <2>1, <3>2, <4>1, <4>2, RestoredFace
    <3> QED BY <3>1, <3>2
  <2> QED BY <2>3, <2>4 DEF Control!Start, Control!Off, Control!Next, off
<1>11. ASSUME BootPersist(p) PROVE [Control!Next]_(Control!vars)
  <2>1. /\ proc[p] = "booting" /\ proc'[p] = "up"
        /\ UNCHANGED <<status, caller>> /\ disk' \in {status[p], disk}
    BY <1>0, <1>11, <1>t DEF BootPersist
  <2>2. Shown' = Shown /\ Shown = Face(status[p]) /\ Shown # off /\ Asked' = Asked
    BY <1>f, <1>s, <1>t, <2>1 DEF Asked
  <2>3. CASE disk' = disk
    BY <1>b, <2>2, <2>3
  <2>4. CASE disk' = status[p]
    <3>1. disk' # NoStatus
      BY <1>t, <2>4 DEF StatusRecords, NoStatus, RunModes, ActiveModes, TradingModes
    <3>2. Kept' = Shown
      BY <2>2, <2>4, <3>1 DEF Kept
    <3> QED BY <2>2, <3>2 DEF Control!Keep, Control!Off, Control!Next, off
  <2> QED BY <2>1, <2>3, <2>4
<1>12. ASSUME Crash(p) PROVE [Control!Next]_(Control!vars)
  <2>1. proc[p] # "down" /\ proc'[p] = "down" /\ disk' = disk /\ caller'[c].at = "idle"
    BY <1>0, <1>12, <1>t DEF Crash, NewCaller
  <2>2. Shown # off /\ Shown' = off /\ Asked' = "none" /\ Kept' = Kept
    BY <1>f, <1>k, <1>s, <1>t, <2>1
  <2> QED BY <2>2 DEF Control!Die, Control!Off, Control!Next, off
<1>13. ASSUME NEW d \in Drifts, NTPTick(p, d) PROVE [Control!Next]_(Control!vars)
  <2>1. /\ UNCHANGED <<proc, disk, caller>>
        /\ status'[p] = Drifted(status[p], d)
    BY <1>0, <1>13, <1>t DEF NTPTick
  <2>2. Face(status'[p]) = Face(status[p])
    <3>1. Drifted(status[p], d).mode = status[p].mode
      BY <1>t, DriftedType
    <3>2. Drifted(status[p], d).connectivity = status[p].connectivity
      BY <1>t, ConnectivityKept
    <3> QED BY <2>1, <3>1, <3>2 DEF Face
  <2> QED BY <1>b, <1>s, <2>1, <2>2 DEF Asked
<1>14. ASSUME UNCHANGED <<proc, status, disk, caller>> PROVE [Control!Next]_(Control!vars)
  BY <1>14, <1>b, <1>s DEF Asked
<1>15. ASSUME Next PROVE [Control!Next]_(Control!vars)
  <2>1. CASE \E d \in Callers : (\E op \in Calls : Call(d, op)) \/ CallStep(d)
    <3>1. (\E op \in Calls : Call(c, op)) \/ CallStep(c)
      BY <1>0, <2>1
    <3> QED BY <1>1, <1>2, <1>3, <1>4, <1>5, <1>6, <1>7, <1>8, <1>9, <3>1 DEF CallStep
  <2>2. CASE \E q \in Procs : ProcStep(q)
    <3>1. ProcStep(p)
      BY <1>0, <2>2
    <3> QED BY <1>10, <1>11, <1>12, <1>13, <3>1 DEF ProcStep
  <2>3. CASE AcceptDisclaimer
    BY <1>14, <2>3 DEF AcceptDisclaimer
  <2> QED BY <1>15, <2>1, <2>2, <2>3 DEF Next
<1> QED BY <1>14, <1>15 DEF vars

\* While one process with one caller uses the state directory, its calls implement
\* the commands of AgentControl: between the steps of Transition, EmergencyStop and
\* persist, with crashes, restarts, failed saves and clock drifts anywhere, the mode
\* the operator sees changes only as a call asks, a call that returns nil has kept
\* what is shown, and a restart resumes no session.
THEOREM ControlTheorem == ASSUME Alone, Callers # {} PROVE Spec => ImplementsControl
<1>0. OneCallerEach
  BY DEF Alone, OneCallerEach
<1>1. Init => Control!Init
  <2> SUFFICES ASSUME Init PROVE Control!Init
    OBVIOUS
  <2>1. proc[TheAgent] = "down" /\ caller[TheOperator].at = "idle" /\ disk = NoStatus
    BY TheTwo DEF Init, NewCaller
  <2> QED BY <2>1 DEF Control!Init, Control!Off, Shown, Kept, Asked
<1>2. TypeOK /\ SerialInv /\ AloneInv /\ [Next]_vars => [Control!Next]_(Control!vars)
  BY ControlStep
<1>3. Spec => [](TypeOK /\ SerialInv /\ AloneInv)
  BY <1>0, TypeCorrect, SerialInvariant, AloneInvariant, PTL
<1> QED BY <1>1, <1>2, <1>3, PTL DEF Spec, ImplementsControl, Control!Spec
=============================================================================
