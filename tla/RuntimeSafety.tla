--------------------------- MODULE RuntimeSafety ---------------------------
(***************************************************************************)
(* The run mode of the agent: runtime.Manager and its StateMachine in      *)
(* every process that has a state directory open, the snapshot file those  *)
(* processes share (providers/runtime), the service calls that drive them  *)
(* (service/agent), the NTP gate and the trading gate that reads them.     *)
(*                                                                         *)
(* A service call is a sequence of steps, one for each lock the code takes *)
(* and for each file operation, so that calls, processes, NTP ticks and    *)
(* crashes interleave between them as they do in the program.              *)
(*                                                                         *)
(* A definition marked "Slip" is not part of the specification: it is a    *)
(* mistake the definition after it could hold, and PROJECT.json names the  *)
(* property that catches it.                                               *)
(***************************************************************************)
EXTENDS Integers

CONSTANTS
  Procs,     \* processes that open the same state directory
  Callers,   \* goroutines that issue service calls, one call at a time each
  OwnerOf,   \* the process each caller lives in
  Calls,     \* the service calls the callers issue
  Drifts,    \* clock drifts, in milliseconds, the NTP probe may report
  Commands   \* the processes a command of cmd/kairos/cli puts together, with no
             \* snapshot store and a disclaimer that counts as accepted; the
             \* others are put together by bootstrap.Factory.Open

ServiceCalls == {"StartScan", "StartPaper", "StartLive", "QueueBacktest",
                 "StopAll", "EmergencyStop"}

ASSUME OwnerAssumption == OwnerOf \in [Callers -> Procs]
ASSUME CallsAssumption == Calls \subseteq ServiceCalls
ASSUME DriftsAssumption == Drifts \subseteq Int
ASSUME CommandsAssumption == Commands \subseteq Procs

VARIABLES
  proc,        \* "down", "booting" (inside Repository.New) or "up"
  machine,     \* StateMachine.current of each process
  status,      \* Manager.status of each process
  disk,        \* runtime-status.json, NoStatus while it does not exist
  disclaimer,  \* the audit log holds the accepted disclaimer
  caller,      \* where each caller is in its current call, or its last result
  stopAcked,   \* history: EmergencyStop returned nil and no call began since
  requested    \* history: run modes asked of a process since it booted

vars == <<proc, machine, status, disk, disclaimer, caller, stopAcked, requested>>

-----------------------------------------------------------------------------
(* Values. *)

TradingModes == {"live_trading", "paper_trading"}
ActiveModes  == TradingModes \cup {"scanning", "backtesting", "optimizing"}
RunModes     == ActiveModes \cup {"idle", "halted"}

HaltReasons  == {"", "emergency stop", "unclean restart",
                 "restored halted runtime snapshot", "snapshot restore failed"}

\* runtime.Status. Banner and HaltedAtUTC are set exactly where haltReason is
\* and LastUpdatedAtUTC everywhere. Integrity and AnalyticsDegraded keep their
\* first value: no code calls their setters.
StatusRecords ==
  [mode: RunModes, connectivity: {"connected", "network_waiting"},
   license: {"demo", "licensed"}, drift: Drifts \cup {0}, blocked: BOOLEAN,
   haltReason: HaltReasons]

NoStatus == [mode |-> "none"]

NewStatus ==
  [mode |-> "idle", connectivity |-> "connected", license |-> "demo",
   drift |-> 0, blocked |-> FALSE, haltReason |-> ""]

Target(op) ==
  CASE op = "StartScan"     -> "scanning"
    [] op = "StartPaper"    -> "paper_trading"
    [] op = "StartLive"     -> "live_trading"
    [] op = "QueueBacktest" -> "backtesting"
    [] op = "StopAll"       -> "idle"
    [] op = "EmergencyStop" -> "halted"

-----------------------------------------------------------------------------
(* The pure parts of the runtime. *)

\* Slip: the halted machine is not guarded.
MachineAllowsAny(from, to) == TRUE

\* StateMachine.Transition: a halted machine goes back to idle only.
MachineAllows(from, to) == from = "halted" => to \in {"idle", "halted"}

\* The status update of Manager.Transition.
Transitioned(s, to, reason) ==
  CASE to = "halted" ->
         [s EXCEPT !.mode = to, !.haltReason = reason, !.blocked = TRUE]
    [] to = "idle" /\ s.haltReason # "" ->
         [s EXCEPT !.mode = to, !.haltReason = "", !.blocked = FALSE]
    [] OTHER ->
         [s EXCEPT !.mode = to]

\* Manager.UpdateNTPDrift: between 200 and 500 ms the block keeps its value.
Drifted(s, d) ==
  [s EXCEPT !.drift = d, !.blocked = d > 500 \/ (@ /\ d >= 200)]

\* Slip: a snapshot is restored as it was saved.
RestoredAsSaved(s) == s

\* Slip: a restart is taken to be online again.
RestoredOnline(s) ==
  [s EXCEPT !.mode = IF @ = "idle" THEN @ ELSE "halted", !.connectivity = "connected",
            !.blocked = s.mode # "idle",
            !.haltReason = IF s.mode = "idle" THEN "" ELSE "unclean restart"]

\* Manager.RestoreSafetySnapshot.
Restored(s) ==
  CASE s.mode = "halted" ->
         [s EXCEPT !.blocked = TRUE,
                   !.haltReason = IF @ = "" THEN "restored halted runtime snapshot" ELSE @]
    [] s.mode \in ActiveModes ->
         [s EXCEPT !.mode = "halted", !.haltReason = "unclean restart", !.blocked = TRUE]
    [] OTHER ->
         [s EXCEPT !.mode = "idle", !.haltReason = ""]

\* What Repository.restoreSnapshot restores when the file cannot be read.
UnreadableSnapshot ==
  [NewStatus EXCEPT !.mode = "halted", !.connectivity = "network_waiting",
                    !.blocked = TRUE, !.haltReason = "snapshot restore failed"]

\* Gate.CheckNewEntry with DefaultPolicy.
GateOpen(s) ==
  /\ s.mode \in TradingModes
  /\ ~s.blocked
  /\ s.connectivity = "connected"
  /\ s.drift <= 500
  /\ s.mode = "live_trading" => s.license = "licensed"

-----------------------------------------------------------------------------
(* Callers. *)

CallSteps == {"idle", "disclaimer", "license", "machine", "status",
              "connectivity", "snapshot", "save"}

CallerRecords ==
  [at: CallSteps,                     \* next step, "idle" between calls
   op: ServiceCalls \cup {"none"},    \* the current or the last call
   then: {"machine", "connectivity", "return"},  \* what follows the next save
   snap: StatusRecords \cup {NoStatus},          \* the snapshot being saved
   result: {"none", "ok", "error", "lost"}]

NewCaller == [at |-> "idle", op |-> "none", then |-> "return",
              snap |-> NoStatus, result |-> "none"]

\* Caller c goes on at step s.
GoTo(c, s) == caller' = [caller EXCEPT ![c].at = s]

\* Slip: the last write of a call is left to later.
PersistLater(c, s) ==
  caller' = [caller EXCEPT ![c].at = IF s = "return" THEN "idle" ELSE "snapshot",
                           ![c].then = s, ![c].result = "ok"]

\* Caller c persists the status (Repository.persist), then goes on at s.
PersistThen(c, s) == caller' = [caller EXCEPT ![c].at = "snapshot", ![c].then = s]

\* The call of caller c returns.
Return(c, r) ==
  /\ caller' = [caller EXCEPT ![c].at = "idle", ![c].then = "return",
                              ![c].snap = NoStatus, ![c].result = r]
  /\ stopAcked' = (stopAcked \/ (r = "ok" /\ caller[c].op = "EmergencyStop"))

Init ==
  /\ proc = [p \in Procs |-> "down"]
  /\ machine = [p \in Procs |-> "idle"]
  /\ status = [p \in Procs |-> NewStatus]
  /\ disk = NoStatus
  /\ disclaimer = FALSE
  /\ caller = [c \in Callers |-> NewCaller]
  /\ stopAcked = FALSE
  /\ requested = [p \in Procs |-> {}]

\* A service method is entered; StartLive looks at the disclaimer first.
Call(c, op) ==
  /\ caller[c].at = "idle"
  /\ proc[OwnerOf[c]] = "up"
  /\ caller' = [caller EXCEPT ![c] =
       [NewCaller EXCEPT !.at = IF op = "StartLive" THEN "disclaimer" ELSE "machine",
                         !.op = op]]
  /\ stopAcked' = FALSE
  /\ requested' = [requested EXCEPT ![OwnerOf[c]] = @ \cup {Target(op)}]
  /\ UNCHANGED <<proc, machine, status, disk, disclaimer>>

\* Slip: an error while reading the disclaimer is not an error of the call.
CheckDisclaimerIgnored(c) ==
  /\ caller[c].at = "disclaimer"
  /\ GoTo(c, "license")
  /\ UNCHANGED <<proc, machine, status, disk, disclaimer, stopAcked, requested>>

\* StartLive goes on only with an accepted disclaimer; reading it may fail. The
\* repository of a command says yes whatever the audit log holds.
CheckDisclaimer(c) ==
  /\ caller[c].at = "disclaimer"
  /\ \/ /\ disclaimer \/ OwnerOf[c] \in Commands
        /\ GoTo(c, "license") /\ UNCHANGED stopAcked
     \/ OwnerOf[c] \notin Commands /\ Return(c, "error")
  /\ UNCHANGED <<proc, machine, status, disk, disclaimer, requested>>

\* Repository.SetLicense, called by StartLive before it asks for the mode.
SetLicense(c) ==
  /\ caller[c].at = "license"
  /\ status' = [status EXCEPT ![OwnerOf[c]].license = "licensed"]
  /\ PersistThen(c, "machine")
  /\ UNCHANGED <<proc, machine, disk, disclaimer, stopAcked, requested>>

\* StateMachine.Transition, under the lock of the state machine.
MachineStep(c) ==
  LET p == OwnerOf[c] IN
  /\ caller[c].at = "machine"
  /\ IF MachineAllows(machine[p], Target(caller[c].op))
       THEN /\ machine' = [machine EXCEPT ![p] = Target(caller[c].op)]
            /\ GoTo(c, "status")
            /\ UNCHANGED stopAcked
       ELSE /\ Return(c, "error")
            /\ UNCHANGED machine
  /\ UNCHANGED <<proc, status, disk, disclaimer, requested>>

\* The rest of Manager.Transition, under the lock of the manager.
StatusStep(c) ==
  LET p == OwnerOf[c] IN
  /\ caller[c].at = "status"
  /\ status' = [status EXCEPT ![p] =
       Transitioned(@, Target(caller[c].op), "emergency stop")]
  /\ PersistThen(c, IF caller[c].op = "EmergencyStop" THEN "connectivity" ELSE "return")
  /\ UNCHANGED <<proc, machine, disk, disclaimer, stopAcked, requested>>

\* Repository.SetConnectivity, the last part of EmergencyStop.
SetConnectivity(c) ==
  /\ caller[c].at = "connectivity"
  /\ status' = [status EXCEPT ![OwnerOf[c]].connectivity = "network_waiting"]
  /\ PersistThen(c, "return")
  /\ UNCHANGED <<proc, machine, disk, disclaimer, stopAcked, requested>>

\* persist copies the status before SnapshotStore.Save takes its own lock.
TakeSnapshot(c) ==
  /\ caller[c].at = "snapshot"
  /\ caller' = [caller EXCEPT ![c].at = "save", ![c].snap = status[OwnerOf[c]]]
  /\ UNCHANGED <<proc, machine, status, disk, disclaimer, stopAcked, requested>>

\* Save replaces the file (rename is atomic), and the call goes on; without a
\* store it just goes on.
Save(c) ==
  /\ caller[c].at = "save"
  /\ disk' = IF OwnerOf[c] \in Commands THEN disk ELSE caller[c].snap
  /\ IF caller[c].then = "return"
       THEN Return(c, "ok")
       ELSE /\ caller' = [caller EXCEPT ![c].at = caller[c].then,
                                        ![c].then = "return", ![c].snap = NoStatus]
            /\ UNCHANGED stopAcked
  /\ UNCHANGED <<proc, machine, status, disclaimer, requested>>

\* Save fails, or its context is cancelled: the file keeps its old content,
\* memory keeps its new one, and the call returns the error.
SaveFails(c) ==
  /\ caller[c].at = "save" /\ OwnerOf[c] \notin Commands
  /\ Return(c, "error")
  /\ UNCHANGED <<proc, machine, status, disk, disclaimer, requested>>

-----------------------------------------------------------------------------
(* Processes and their environment. *)

\* A new manager, restored from the snapshot file where there is a store for it.
Boot(p) ==
  /\ proc[p] = "down"
  /\ proc' = [proc EXCEPT ![p] = "booting"]
  /\ \E s \in {IF disk = NoStatus \/ p \in Commands THEN NewStatus ELSE Restored(disk),
               UnreadableSnapshot} :
       /\ disk = NoStatus \/ p \in Commands => s = NewStatus
       /\ status' = [status EXCEPT ![p] = s]
       /\ machine' = [machine EXCEPT ![p] = s.mode]
  /\ UNCHANGED <<disk, disclaimer, caller, stopAcked, requested>>

\* restoreSnapshot persists what it restored and ignores the error.
BootPersist(p) ==
  /\ proc[p] = "booting"
  /\ proc' = [proc EXCEPT ![p] = "up"]
  /\ disk' \in {status[p], disk} /\ (p \in Commands => disk' = disk)
  /\ UNCHANGED <<machine, status, disclaimer, caller, stopAcked, requested>>

\* The process ends at any point, by a crash or by returning from its command:
\* nothing is written on the way out.
Crash(p) ==
  /\ proc[p] # "down"
  /\ proc' = [proc EXCEPT ![p] = "down"]
  /\ machine' = [machine EXCEPT ![p] = "idle"]
  /\ status' = [status EXCEPT ![p] = NewStatus]
  /\ caller' = [c \in Callers |->
       IF OwnerOf[c] = p
         THEN [NewCaller EXCEPT !.op = caller[c].op, !.result = "lost"]
         ELSE caller[c]]
  /\ requested' = [requested EXCEPT ![p] = {}]
  /\ UNCHANGED <<disk, disclaimer, stopAcked>>

\* RunNTPWorker reports a drift; nobody persists it. The first tick comes long
\* after the boot.
NTPTick(p, d) ==
  /\ proc[p] = "up"
  /\ status' = [status EXCEPT ![p] = Drifted(@, d)]
  /\ UNCHANGED <<proc, machine, disk, disclaimer, caller, stopAcked, requested>>

\* The operator accepts the disclaimer: a record of the audit log, for good.
AcceptDisclaimer ==
  /\ ~disclaimer
  /\ disclaimer' = TRUE
  /\ UNCHANGED <<proc, machine, status, disk, caller, stopAcked, requested>>

CallStep(c) ==
  \/ CheckDisclaimer(c)
  \/ SetLicense(c)
  \/ MachineStep(c)
  \/ StatusStep(c)
  \/ SetConnectivity(c)
  \/ TakeSnapshot(c)
  \/ Save(c)
  \/ SaveFails(c)

ProcStep(p) ==
  \/ Boot(p)
  \/ BootPersist(p)
  \/ Crash(p)
  \/ \E d \in Drifts : NTPTick(p, d)

Next ==
  \/ \E c \in Callers : (\E op \in Calls : Call(c, op)) \/ CallStep(c)
  \/ \E p \in Procs : ProcStep(p)
  \/ AcceptDisclaimer

Spec == Init /\ [][Next]_vars

-----------------------------------------------------------------------------
(* Properties. *)

\* A caller between two steps is in one of the service calls, and what it saves
\* is a whole status.
CallersTypeOK ==
  /\ caller \in [Callers -> CallerRecords]
  /\ \A c \in Callers :
       /\ caller[c].at # "idle" => caller[c].op \in Calls
       /\ caller[c].at = "save" => caller[c].snap \in StatusRecords

\* The values of every variable of the runtime (runtime.Status, the state
\* machine, the snapshot file) and of the calls that are under way.
TypeOK ==
  /\ proc \in [Procs -> {"down", "booting", "up"}]
  /\ machine \in [Procs -> RunModes]
  /\ status \in [Procs -> StatusRecords]
  /\ disk \in StatusRecords \cup {NoStatus}
  /\ disclaimer \in BOOLEAN
  /\ CallersTypeOK
  /\ stopAcked \in BOOLEAN
  /\ requested \in [Procs -> SUBSET RunModes]

\* A process trades live only after its license state was set and, if it is no
\* command of cmd/kairos/cli, with an accepted disclaimer, however calls of
\* several callers, crashes and restarts from the file of another process
\* interleave (service.StartLive).
LiveWasPermitted ==
  \A p \in Procs :
    machine[p] = "live_trading" \/ status[p].mode = "live_trading" =>
      /\ disclaimer \/ p \in Commands
      /\ status[p].license = "licensed"

\* A process is in an active mode only if one of its own callers asked for that
\* mode since it started: no snapshot, whoever wrote it, resumes a session
\* (RestoreSafetySnapshot), and no crash leaves half a session behind.
ActiveOnlyOnRequest ==
  \A p \in Procs :
    /\ machine[p] \in ActiveModes => machine[p] \in requested[p]
    /\ status[p].mode \in ActiveModes => status[p].mode \in requested[p]

\* In memory, in the file and in a snapshot on its way to it, a halted status
\* has its reason and an idle one has none: Transition clears the reason and the
\* block of a halt by looking at the reason only.
ReasonMatches(s) ==
  /\ s.mode = "halted" => s.haltReason # ""
  /\ s.mode = "idle" => s.haltReason = ""

HaltReasonMatchesMode ==
  /\ \A p \in Procs : ReasonMatches(status[p])
  /\ ReasonMatches(disk)
  /\ \A c \in Callers : ReasonMatches(caller[c].snap)

\* Between two calls of a process the status shows the mode the state machine
\* is in, a halt reason is there exactly in a halt, and the trading gate is open
\* only if the machine trades (Manager.Transition updates the two apart). It
\* holds while a process has one caller.
InTransition(p) == \E c \in Callers : OwnerOf[c] = p /\ caller[c].at = "status"

ModeAgreement ==
  \A p \in Procs : ~InTransition(p) =>
    /\ status[p].mode = machine[p]
    /\ status[p].haltReason # "" <=> machine[p] = "halted"
    /\ GateOpen(status[p]) => machine[p] \in TradingModes

\* When a call has returned nil, what it asked for is what the process shows and
\* what a restart would read (Repository.Transition persists before it
\* returns). It holds while one process with one caller uses the file.
CallsAreDurable ==
  \A c \in Callers :
    LET m == Target(caller[c].op) IN
    caller[c].at = "idle" /\ caller[c].result = "ok" =>
      /\ machine[OwnerOf[c]] = m
      /\ disk.mode = m
      /\ Restored(disk).mode = IF m = "idle" THEN "idle" ELSE "halted"

\* What an operator sees of a status.
Face(s) == [mode |-> s.mode, net |-> s.connectivity]

TheAgent == CHOOSE p \in Procs : TRUE
TheOperator == CHOOSE c \in Callers : TRUE

\* The mode and the connectivity the process shows, those its file holds, and the
\* mode the call under way asks for.
Shown == IF proc[TheAgent] = "down" THEN [mode |-> "off", net |-> "none"]
         ELSE Face(status[TheAgent])
Kept  == IF disk = NoStatus THEN [mode |-> "none", net |-> "connected"] ELSE Face(disk)
Asked == IF caller[TheOperator].at = "idle" THEN "none"
         ELSE Target(caller[TheOperator].op)

Control == INSTANCE AgentControl WITH
  Modes <- RunModes, shown <- Shown, kept <- Kept, asked <- Asked

\* The calls of a process, cut into steps between which it and its clock go on or
\* die, amount to single commands on a register: what the process shows changes only
\* as a call asks, the write that confirms it is of that very state, and a restart
\* starts from the last write, but for the session (Repository.Transition, persist,
\* RestoreSafetySnapshot). It holds while one process with one caller uses the file.
ImplementsControl == Control!Spec

\* After EmergencyStop returned nil, and until the next call, every process of
\* the state directory is halted and cut off, whatever clock drifts, crashes and
\* restarts follow: service.go:142 "EmergencyStop forces the runtime into halted
\* network waiting state".
AckedStopHolds ==
  stopAcked =>
    /\ disk.mode = "halted" /\ disk.connectivity = "network_waiting"
    /\ \A p \in Procs : proc[p] # "down" =>
         /\ machine[p] = "halted"
         /\ status[p].mode = "halted"
         /\ status[p].connectivity = "network_waiting"

\* After EmergencyStop returned nil, and until the next call, no process of the
\* state directory lets new entries through its trading gate: the command is
\* described as root.go:178 "Bypass queues and halt the runtime immediately".
\* AckedStopHolds implies it; several processes break it.
NoOpenGateAfterStop == stopAcked => \A p \in Procs : ~GateOpen(status[p])

\* A halted status is left only by the end of the process or by a StopAll call,
\* although the state machine refuses in an earlier step than the one that
\* changes the status. It holds while a process has one caller.
HaltIsSticky ==
  [][\A p \in Procs :
       status[p].mode = "halted" /\ status'[p].mode # "halted" =>
         \/ proc'[p] = "down"
         \/ \E c \in Callers : /\ OwnerOf[c] = p
                               /\ caller[c].at = "status"
                               /\ caller[c].op = "StopAll"]_vars

=============================================================================
