---------------------------- MODULE StreamWriter ----------------------------
(***************************************************************************)
(* The two writers that keep a critical and an analytics database:         *)
(* storage/dual/writer.go ("dual") and providers/storage/dualstream.go     *)
(* ("stream").  Analytics events go through a channel to one goroutine     *)
(* that inserts them; critical writes are made by the caller.              *)
(*                                                                         *)
(* The dual writer does not look at closed when it takes an event, and its *)
(* Close empties the channel itself once the goroutine has gone; the       *)
(* stream writer takes events under its lock, and its goroutine empties    *)
(* the channel before it leaves.                                           *)
(*                                                                         *)
(* A definition marked "Slip" is not part of the specification: it is a    *)
(* mistake the definition after it could hold.                             *)
(***************************************************************************)
EXTENDS Integers, Sequences

CONSTANTS
  Records,      \* analytics events, each offered once
  BufferSize,   \* capacity of the channel (10000 in the code)
  Closers,      \* goroutines that call Close
  MaxCritical   \* bound: critical writes

ASSUME WriterAssumption == BufferSize \in Nat /\ MaxCritical \in Nat

Kinds == {"dual", "stream"}
Databases == {"critical", "analytics"}

VARIABLES
  kind,        \* which of the two writers
  record,      \* event -> "new", "queued", "written", "failed" or "dropped"
  channel,     \* analyticsCh
  inserter,    \* the goroutine: "select", "drain" or "exited"
  wClosed,     \* w.closed
  stopping,    \* stopCh is closed
  closeCall,   \* closer -> where its Close is
  database,    \* "open", "closed", or "failed" if closing it was refused
  critical,    \* critical rows
  counted,     \* analyticsWrites: of the dual writer on the way in, of the stream writer once stored
  uncounted,   \* events the dual writer sent and has not counted yet
  late         \* history: events offered after a Close began

writerVars == <<kind, record, channel, inserter, wClosed, stopping, closeCall,
                database, critical, counted, uncounted, late>>

WriterInit ==
  /\ kind \in Kinds
  /\ record = [e \in Records |-> "new"]
  /\ channel = <<>>
  /\ inserter = "select"
  /\ wClosed = FALSE /\ stopping = FALSE
  /\ closeCall = [c \in Closers |-> "idle"]
  /\ database = [d \in Databases |-> "open"]
  /\ critical = 0 /\ counted = 0
  /\ uncounted = {} /\ late = {}

\* WriteAnalytics takes no event, although there may be room.
RefusesEvents == kind = "stream" /\ wClosed

WriteAnalytics(e) ==
  /\ record[e] = "new"
  /\ late' = IF wClosed THEN late \cup {e} ELSE late
  /\ IF RefusesEvents \/ Len(channel) >= BufferSize
       THEN /\ record' = [record EXCEPT ![e] = "dropped"]
            /\ UNCHANGED <<channel, uncounted>>
       ELSE /\ record' = [record EXCEPT ![e] = "queued"]
            /\ channel' = Append(channel, e)
            /\ uncounted' = IF kind = "dual" THEN uncounted \cup {e} ELSE uncounted
  /\ UNCHANGED <<kind, inserter, wClosed, stopping, closeCall, database, critical, counted>>

\* The dual writer counts what it sent under a lock of its own.
CountSent(e) ==
  /\ e \in uncounted
  /\ uncounted' = uncounted \ {e}
  /\ counted' = counted + 1
  /\ UNCHANGED <<kind, record, channel, inserter, wClosed, stopping, closeCall, database,
                 critical, late>>

\* writeAnalyticsEvent of the channel's head: it is inserted, or encoding or inserting
\* it fails and it is gone.
InsertHead ==
  /\ channel # <<>>
  /\ channel' = Tail(channel)
  /\ \/ /\ database["analytics"] = "open"
        /\ record' = [record EXCEPT ![Head(channel)] = "written"]
        /\ counted' = IF kind = "stream" THEN counted + 1 ELSE counted
     \/ /\ record' = [record EXCEPT ![Head(channel)] = "failed"]
        /\ UNCHANGED counted

InserterWrites ==
  /\ inserter \in {"select", "drain"}
  /\ InsertHead
  /\ UNCHANGED <<kind, inserter, wClosed, stopping, closeCall, database, critical,
                 uncounted, late>>

\* Its select picks the stop channel.
InserterStops ==
  /\ inserter = "select" /\ stopping
  /\ inserter' = IF kind = "dual" THEN "exited" ELSE "drain"
  /\ UNCHANGED <<kind, record, channel, wClosed, stopping, closeCall, database, critical,
                 counted, uncounted, late>>

InserterDrained ==
  /\ inserter = "drain" /\ channel = <<>>
  /\ inserter' = "exited"
  /\ UNCHANGED <<kind, record, channel, wClosed, stopping, closeCall, database, critical,
                 counted, uncounted, late>>

\* WriteCritical: the caller waits for the row, or gets an error.
WriteCritical ==
  /\ critical < MaxCritical
  /\ database["critical"] = "open"
  /\ critical' = critical + 1
  /\ UNCHANGED <<kind, record, channel, inserter, wClosed, stopping, closeCall, database,
                 counted, uncounted, late>>

CloseAt(c, place) == closeCall' = [closeCall EXCEPT ![c] = place]

\* The first caller of Close closes the writer, the others return nil at once.
CloseWriter(c) ==
  /\ closeCall[c] = "idle"
  /\ CloseAt(c, IF wClosed THEN "late" ELSE "signal")
  /\ wClosed' = TRUE
  /\ UNCHANGED <<kind, record, channel, inserter, stopping, database, critical, counted,
                 uncounted, late>>

SignalStop(c) ==
  /\ closeCall[c] = "signal"
  /\ CloseAt(c, "wait")
  /\ stopping' = TRUE
  /\ UNCHANGED <<kind, record, channel, inserter, wClosed, database, critical, counted,
                 uncounted, late>>

WaitForInserter(c) ==
  /\ closeCall[c] = "wait" /\ inserter = "exited"
  /\ CloseAt(c, IF kind = "dual" THEN "drain" ELSE "close_critical")
  /\ UNCHANGED <<kind, record, channel, inserter, wClosed, stopping, database, critical,
                 counted, uncounted, late>>

\* Slip: the dual writer closes its databases with events still in the channel.
CloserDrainsNothing(c) ==
  /\ closeCall[c] = "drain"
  /\ CloseAt(c, "close_critical")
  /\ UNCHANGED <<kind, record, channel, inserter, wClosed, stopping, database, critical,
                 counted, uncounted, late>>

\* The dual writer's Close empties the channel.
CloserDrains(c) ==
  /\ closeCall[c] = "drain"
  /\ \/ InsertHead /\ UNCHANGED closeCall
     \/ channel = <<>> /\ CloseAt(c, "close_critical") /\ UNCHANGED <<record, channel, counted>>
  /\ UNCHANGED <<kind, inserter, wClosed, stopping, database, critical, uncounted, late>>

\* The dual writer returns when the first database cannot be closed and leaves the
\* second open; the stream writer closes both and reports what failed.
CloseDatabase(c, d, next) ==
  /\ closeCall[c] = IF d = "critical" THEN "close_critical" ELSE "close_analytics"
  /\ \/ database' = [database EXCEPT ![d] = "closed"] /\ CloseAt(c, next)
     \/ /\ database' = [database EXCEPT ![d] = "failed"]
        /\ CloseAt(c, IF kind = "dual" THEN "returned" ELSE next)
  /\ UNCHANGED <<kind, record, channel, inserter, wClosed, stopping, critical, counted,
                 uncounted, late>>

InserterStep == InserterWrites \/ InserterStops \/ InserterDrained

CloserStep(c) ==
  \/ SignalStop(c) \/ WaitForInserter(c) \/ CloserDrains(c)
  \/ CloseDatabase(c, "critical", "close_analytics")
  \/ CloseDatabase(c, "analytics", "returned")

WriterNext ==
  \/ \E e \in Records : WriteAnalytics(e) \/ CountSent(e)
  \/ InserterStep
  \/ WriteCritical
  \/ \E c \in Closers : CloseWriter(c) \/ CloserStep(c)

WriterSpec == WriterInit /\ [][WriterNext]_writerVars

WriterProgress ==
  \/ InserterStep
  \/ \E e \in Records : CountSent(e)
  \/ \E c \in Closers : CloserStep(c)

\* Something that can go on does; events and calls of Close are finitely many.
WriterFairSpec == WriterSpec /\ WF_writerVars(WriterProgress)

-----------------------------------------------------------------------------
(* Properties *)

Queued == {channel[i] : i \in 1..Len(channel)}
Returned == \E c \in Closers : closeCall[c] = "returned"
InState(s) == {e \in Records : record[e] = s}

WriterTypeOK ==
  /\ kind \in Kinds
  /\ record \in [Records -> {"new", "queued", "written", "failed", "dropped"}]
  /\ channel \in Seq(Records) /\ Len(channel) <= BufferSize
  /\ inserter \in {"select", "drain", "exited"}
  /\ wClosed \in BOOLEAN /\ stopping \in BOOLEAN
  /\ closeCall \in [Closers -> {"idle", "late", "signal", "wait", "drain", "close_critical",
                                "close_analytics", "returned"}]
  /\ database \in [Databases -> {"open", "closed", "failed"}]
  /\ critical \in 0..MaxCritical /\ counted \in Nat
  /\ uncounted \subseteq Records /\ late \subseteq Records

\* When Close returns, every event that was taken before it was called has been given
\* to the database; of the stream writer, every event that was ever taken, and it has
\* tried to close both databases, whatever failed.
CloseLeavesNothing ==
  Returned =>
    /\ InState("queued") \subseteq late
    /\ kind = "stream" => /\ InState("queued") = {}
                          /\ \A d \in Databases : database[d] # "open"

RecordItem ==
  [e \in Records |-> CASE record[e] \in {"new", "dropped"} -> "new"
                       [] record[e] = "queued" -> "accepted"
                       [] OTHER -> "handled"]
WriterQueue == INSTANCE WorkQueue WITH Items <- Records, item <- RecordItem, open <- ~wClosed

\* The writers are work queues: an event that was taken is handed to the database once.
WriterImplementsQueue == WriterQueue!Spec

\* Close returns, and a writer that is open has handed on what it took.
WriterSettled ==
  /\ \A c \in Closers : closeCall[c] \in {"idle", "late", "returned"}
  /\ wClosed \/ channel = <<>>
WriterSettles == []<>WriterSettled
=============================================================================
