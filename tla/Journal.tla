------------------------------ MODULE Journal ------------------------------
(***************************************************************************)
(* The append-only journal of order intents (internal/journal): a file of  *)
(* one line per entry, rotated by size to a name that carries the second,  *)
(* replayed over all segments and truncated after a reconciliation.  The   *)
(* application opens and closes it; the appends, replays and truncations   *)
(* are the ones its interface offers.                                      *)
(*                                                                         *)
(* Segment 0 is the active file, segment t the one rotated in second t; a  *)
(* line is an entry or Garbage, what no JSON decoder takes.                *)
(***************************************************************************)
EXTENDS Integers, Sequences, FiniteSets, SequencesExt

CONSTANTS
    ClientOrderIds,
    Garbage,
    SegmentLines,    \* max_size_bytes, as a number of lines
    MaxEntries, MaxSeconds, MaxFaults    \* bounds: appends, clock, failures and crashes

ASSUME JournalAssumption ==
    /\ SegmentLines \in Nat \ {0} /\ MaxEntries \in Nat /\ MaxSeconds \in Nat \ {0} /\ MaxFaults \in Nat
    /\ Garbage \notin [id : ClientOrderIds, n : Nat]

VARIABLES
    segments,   \* segment -> its lines, in the order they were written
    torn,       \* the active file ends inside a line
    journalFile,\* "open", "closed" (a rotation or truncation failed) or "down"
    second,
    version,    \* entries written so far; an entry carries its number
    acked,      \* ghost: id -> the entry of its last append that returned nil
    lost,       \* ghost: ids whose entry was overwritten or glued to a torn line
    faults

journalVars == <<segments, torn, journalFile, second, version, acked, lost, faults>>

JournalInit ==
    /\ segments = [s \in {0} |-> <<>>]
    /\ torn = FALSE /\ journalFile = "open" /\ second = 1
    /\ version = 0 /\ acked = <<>> /\ lost = {} /\ faults = 0

Entry(id) == [id |-> id, n |-> version + 1]
IdsOf(lines) == {lines[k].id : k \in {j \in DOMAIN lines : lines[j] # Garbage}}

\* The active file after a line is written: one that follows a torn line is part of it.
WithLine(line) ==
    IF torn THEN Append(Front(segments[0]), Garbage) ELSE Append(segments[0], line)

Renamed(active) ==
    [s \in DOMAIN segments \union {second} |->
        IF s = 0 THEN <<>> ELSE IF s = second THEN active ELSE segments[s]]

\* The ids of the segment that a rotation in this second replaces.
Replaced == IF second \in DOMAIN segments THEN IdsOf(segments[second]) ELSE {}

Fault == faults < MaxFaults /\ faults' = faults + 1

\* Append: write, sync, and rotate when the file has reached its size. The rename
\* replaces a segment rotated in the same second.
AppendEntry(id) ==
    /\ journalFile = "open" /\ version < MaxEntries
    /\ version' = version + 1
    /\ LET active == WithLine(Entry(id))
           rotates == Len(active) >= SegmentLines
           replaced == IF rotates THEN Replaced ELSE {}
       IN  /\ segments' = IF rotates THEN Renamed(active) ELSE [segments EXCEPT ![0] = active]
           /\ acked' = [i \in DOMAIN acked \union {id} |-> IF i = id THEN version + 1 ELSE acked[i]]
           /\ lost' = (lost \ {id}) \union replaced \union (IF torn THEN {id} ELSE {})
    /\ torn' = FALSE
    /\ UNCHANGED <<journalFile, second, faults>>

\* The write or the process stops in the line; or it was all written, and not
\* acknowledged.
AppendBreaks(id) ==
    /\ journalFile = "open" /\ version < MaxEntries /\ Fault
    /\ version' = version + 1
    /\ \E whole \in BOOLEAN :
          /\ segments' = [segments EXCEPT ![0] = WithLine(IF whole THEN Entry(id) ELSE Garbage)]
          /\ torn' = ~whole
    /\ journalFile' \in {"open", "down"}
    /\ UNCHANGED <<second, acked, lost>>

\* The rename fails, or the reopening after it: the entry is there, the call returns an
\* error and the handle stays closed.
RotationFails(id) ==
    /\ journalFile = "open" /\ version < MaxEntries /\ Fault
    /\ version' = version + 1
    /\ LET active == WithLine(Entry(id)) IN
          /\ Len(active) >= SegmentLines
          /\ \/ segments' = [segments EXCEPT ![0] = active] /\ UNCHANGED lost
             \/ /\ segments' = [s \in (DOMAIN segments \union {second}) \ {0} |->
                                   IF s = second THEN active ELSE segments[s]]
                /\ lost' = lost \union Replaced
    /\ torn' = FALSE /\ journalFile' = "closed"
    /\ UNCHANGED <<second, acked>>

\* filepath.Glob and sort.Strings: the active file sorts before its rotated segments.
FirstNames(k) == {s \in DOMAIN segments : Cardinality({t \in DOMAIN segments : t < s}) < k}

\* Slip: Replay opens the active file only.
ReplayActive == DOMAIN segments \cap {0}
ReplayFiles == DOMAIN segments

LinesOf(id, lines) == {k \in DOMAIN lines : lines[k] # Garbage /\ lines[k].id = id}

\* Replay: id -> the last entry read of it, file after file in the order of their names.
Replay ==
    [id \in UNION {IdsOf(segments[s]) : s \in ReplayFiles} |->
        LET lines == segments[Max({s \in ReplayFiles : LinesOf(id, segments[s]) # {}})]
        IN  lines[Max(LinesOf(id, lines))].n]

\* TruncateAfterReconciliation removes the segments in the order of their names; when
\* it stops early the handle is closed.
TruncateAfterReconciliation(k) ==
    /\ journalFile = "open" /\ k \in 0..Cardinality(DOMAIN segments)
    /\ LET done == k = Cardinality(DOMAIN segments)
       IN  /\ IF done
              THEN \/ segments' = [s \in {0} |-> <<>>] /\ UNCHANGED <<journalFile, faults>>
                   \/ segments' = <<>> /\ journalFile' = "closed" /\ Fault
              ELSE /\ Fault
                   /\ segments' = [s \in DOMAIN segments \ FirstNames(k) |-> segments[s]]
                   /\ journalFile' \in {"closed", "down"}
           /\ torn' = (torn /\ k = 0)
    /\ acked' = <<>> /\ lost' = {}
    /\ UNCHANGED <<second, version>>

CloseJournal ==
    /\ journalFile \in {"open", "closed"} /\ Fault
    /\ journalFile' = "down"
    /\ UNCHANGED <<segments, torn, second, version, acked, lost>>

\* The application starts again.
OpenJournal ==
    /\ journalFile = "down"
    /\ journalFile' = "open"
    /\ segments' = [s \in DOMAIN segments \union {0} |-> IF s \in DOMAIN segments THEN segments[s] ELSE <<>>]
    /\ UNCHANGED <<torn, second, version, acked, lost, faults>>

NextSecond ==
    /\ second < MaxSeconds
    /\ second' = second + 1
    /\ UNCHANGED <<segments, torn, journalFile, version, acked, lost, faults>>

JournalNext ==
    \/ \E id \in ClientOrderIds : AppendEntry(id)
    \/ \E id \in ClientOrderIds : AppendBreaks(id)
    \/ \E id \in ClientOrderIds : RotationFails(id)
    \/ \E k \in 0..(MaxSeconds + 1) : TruncateAfterReconciliation(k)
    \/ CloseJournal
    \/ OpenJournal
    \/ NextSecond

JournalSpec == JournalInit /\ [][JournalNext]_journalVars

-----------------------------------------------------------------------------
JournalTypeOK ==
    /\ DOMAIN segments \subseteq 0..MaxSeconds
    /\ journalFile \in {"open", "closed", "down"}
    /\ journalFile = "open" => 0 \in DOMAIN segments
    /\ DOMAIN acked \subseteq ClientOrderIds /\ lost \subseteq ClientOrderIds

\* A replay finds every intent whose append returned nil, through rotations, broken
\* writes, failed rotations and restarts, unless it was written behind a line that a
\* broken write had cut or its segment was replaced by another of the same second.
\* It returns the last entry of an id, unless an older one sits in a rotated segment
\* while the last is in the active file, which is read first
\* (journal/journal.go:57-93, 96-126).
JournalReplays ==
    \A id \in DOMAIN acked \ lost :
        /\ id \in DOMAIN Replay
        /\ \/ Replay[id] >= acked[id]
           \/ /\ 0 \in DOMAIN segments
              /\ \E k \in DOMAIN segments[0] : segments[0][k] = [id |-> id, n |-> acked[id]]
              /\ \E s \in DOMAIN segments \ {0} : id \in IdsOf(segments[s])
=============================================================================
