--------------------------- MODULE ConfigManager ---------------------------
(***************************************************************************)
(* The agent's configuration: the file config.yaml, the live copy that     *)
(* config.Manager holds in an atomic pointer, and the calls of its         *)
(* repository (providers/config) and of the operator who edits the file.   *)
(* No lock is held over a call: it reads the live copy, writes the file    *)
(* and swaps the pointer in steps of their own, and os.WriteFile truncates *)
(* the file before it writes.                                              *)
(*                                                                         *)
(* A configuration is reduced to one setting of each kind: the critical    *)
(* risk limit, one that is validated, the cloud settings, which the domain *)
(* model of the configuration lacks, and the licence (Entitlement).        *)
(*                                                                         *)
(* A definition marked "Slip" is not part of the specification: it is a    *)
(* mistake the definition after it could hold.                             *)
(***************************************************************************)
EXTENDS Entitlement

CONSTANTS Editors,          \* goroutines that call the manager
          Risks, Zones,     \* values of risk.max_position and export_timezone
          ConfigLicences,   \* the licences a configuration may hold
          MaxConfigCalls,   \* bound: calls of the manager and edits of the file
          MaxStarts         \* bound: starts of the process

ASSUME ConfigAssumption ==
    /\ Risks \subseteq Nat /\ Zones \subseteq Nat \ {0} /\ 1 \in Risks \cap Zones
    /\ Community \in ConfigLicences /\ ConfigLicences \subseteq Licences
    /\ MaxConfigCalls \in Nat /\ MaxStarts \in Nat

VARIABLES configFile,  \* config.yaml
          liveConfig,  \* m.live
          editor,      \* the call each goroutine is in
          configCalls, \* calls and edits so far
          starts,      \* starts of the process so far
          expected,    \* history: what the acknowledged calls add up to
          overlapped,  \* history: two calls were under way at once
          disturbed,   \* history: the file may hold what no acknowledged call wrote
          strayed      \* history: what runs was loaded from such a file

configVars == <<configFile, liveConfig, editor, configCalls, starts, expected, overlapped,
                disturbed, strayed>>

Configs == [risk: Risks \union {0}, zone: Zones \union {0}, cloud: BOOLEAN,
            licence: ConfigLicences]
Default == [risk |-> 1, zone |-> 1, cloud |-> FALSE, licence |-> Community]

\* No process runs; no file; a file that is empty or does not decode.
Down == [down |-> TRUE]
NoConfig == [contents |-> "none"]
Undecodable == [contents |-> "other"]

\* Validate: a setting that is missing or wrong is refused, an empty risk limit
\* and cloud section are not.
Validate(c) == c \in Configs /\ c.zone # 0

\* Slip: the risk limit is not among the critical settings.
NoCriticalChanges(c, other) == FALSE

CriticalChanges(c, other) == c.risk # other.risk

\* ConfigFromDomain after ConfigToDomain.
ThroughDomain(c) == [c EXCEPT !.cloud = FALSE]

\* Beginnings of a file that decode and are valid: what was written stops before
\* the licence, before the cloud section or before the risk limit.
Beginnings(c) ==
    LET unlicensed == [c EXCEPT !.licence = Community]
        offline == [unlicensed EXCEPT !.cloud = FALSE]
    IN {unlicensed, offline, [offline EXCEPT !.risk = 0]}

NoEdit == [op |-> "none"]
Editing == {e \in Editors : editor[e] # NoEdit}

ConfigInit ==
    /\ configFile = NoConfig /\ liveConfig = Down
    /\ editor = [e \in Editors |-> NoEdit]
    /\ configCalls = 0 /\ starts = 0
    /\ expected = Default
    /\ overlapped = FALSE /\ disturbed = FALSE /\ strayed = FALSE

-----------------------------------------------------------------------------
(* NewManager, in the process's start. *)

\* The first start writes the default. If the write fails or is cut short, or the
\* process dies in it, what was written so far remains.
StartNew ==
    /\ configFile = NoConfig
    /\ \/ configFile' = Default /\ liveConfig' = Default /\ disturbed' = FALSE
       \/ /\ configFile' \in {NoConfig, Undecodable, Default} \union Beginnings(Default)
          /\ disturbed' = (configFile' \notin {NoConfig, Default})
          /\ UNCHANGED liveConfig
    /\ strayed' = FALSE

\* Else the file is loaded, if it is valid.
StartLoaded ==
    /\ Validate(configFile)
    /\ liveConfig' = configFile
    /\ strayed' = disturbed
    /\ UNCHANGED <<configFile, disturbed>>

NewManager ==
    /\ liveConfig = Down /\ starts < MaxStarts
    /\ starts' = starts + 1
    /\ StartNew \/ StartLoaded
    /\ overlapped' = FALSE
    /\ UNCHANGED <<editor, configCalls, expected>>

-----------------------------------------------------------------------------
(* The calls. *)

BeginCall(e, call) ==
    /\ liveConfig # Down /\ editor[e] = NoEdit /\ configCalls < MaxConfigCalls
    /\ configCalls' = configCalls + 1
    /\ editor' = [editor EXCEPT ![e] = call]
    /\ overlapped' = (overlapped \/ Editing # {})
    /\ UNCHANGED <<configFile, liveConfig, starts, expected, disturbed, strayed>>

Apply(c, change) == [op |-> "apply", at |-> "truncate", config |-> c, change |-> change]

\* UpdateConfig changes settings in a copy of the live configuration. A key or a
\* value that is unknown, and a result that is not valid, end it there.
UpdateConfig(e) ==
    /\ liveConfig # Down
    /\ \E r \in Risks \union {liveConfig.risk}, z \in Zones \union {liveConfig.zone} :
          LET changed == [liveConfig EXCEPT !.risk = r, !.zone = z] IN
          /\ Validate(changed)
          /\ BeginCall(e, Apply(changed, [expected EXCEPT
                !.risk = IF r = liveConfig.risk THEN @ ELSE r,
                !.zone = IF z = liveConfig.zone THEN @ ELSE z]))

\* SetConfig replaces the whole configuration by one of the domain model.
SetConfig(e) ==
    \E c \in Configs :
        /\ c.risk \in Risks /\ Validate(ThroughDomain(c))
        /\ BeginCall(e, Apply(ThroughDomain(c), ThroughDomain(c)))

\* Write truncates the file; if it cannot be opened the call ends.
Truncate(e) ==
    /\ editor[e].op = "apply" /\ editor[e].at = "truncate"
    /\ \/ configFile' = Undecodable /\ editor' = [editor EXCEPT ![e].at = "fill"]
       \/ UNCHANGED configFile /\ editor' = [editor EXCEPT ![e] = NoEdit]
    /\ UNCHANGED <<liveConfig, configCalls, starts, expected, overlapped, disturbed, strayed>>

\* Then it is filled. Another writer may have filled it meanwhile, with a longer
\* text whose end remains.
FillFile(e) ==
    /\ editor[e].op = "apply" /\ editor[e].at = "fill"
    /\ configFile' \in {editor[e].config} \union (IF configFile = Undecodable THEN {} ELSE {Undecodable})
    /\ editor' = [editor EXCEPT ![e].at = "store"]
    /\ disturbed' = (configFile' # editor[e].config)
    /\ UNCHANGED <<liveConfig, configCalls, starts, expected, overlapped, strayed>>

\* A full disk leaves the beginning, and the call ends with an error.
FillCutShort(e) ==
    /\ editor[e].op = "apply" /\ editor[e].at = "fill"
    /\ configFile' \in {Undecodable} \union Beginnings(editor[e].config)
    /\ editor' = [editor EXCEPT ![e] = NoEdit]
    /\ disturbed' = TRUE
    /\ UNCHANGED <<liveConfig, configCalls, starts, expected, overlapped, strayed>>

\* The pointer is swapped and the call acknowledged. What has strayed is whole again
\* once a call has replaced it.
Store(e) ==
    /\ editor[e].op = "apply" /\ editor[e].at = "store"
    /\ liveConfig' = editor[e].config
    /\ expected' = editor[e].change
    /\ strayed' = (strayed /\ liveConfig' # expected')
    /\ editor' = [editor EXCEPT ![e] = NoEdit]
    /\ UNCHANGED <<configFile, configCalls, starts, overlapped, disturbed>>

\* ReloadFromDisk compares the file with the live configuration it read first.
ReloadFromDisk(e) ==
    BeginCall(e, [op |-> "reload", at |-> "load", config |-> liveConfig])

\* A file that is not valid, and one with critical changes, end the call.
LoadCandidate(e) ==
    /\ editor[e].op = "reload" /\ editor[e].at = "load"
    /\ editor' = [editor EXCEPT ![e] =
          IF Validate(configFile) /\ ~CriticalChanges(editor[e].config, configFile)
          THEN [@ EXCEPT !.at = "swap", !.config = configFile] ELSE NoEdit]
    /\ UNCHANGED <<configFile, liveConfig, configCalls, starts, expected, overlapped, disturbed, strayed>>

\* Whatever the file says, the critical settings are to stay as they were.
Swap(e) ==
    /\ editor[e].op = "reload" /\ editor[e].at = "swap"
    /\ liveConfig' = editor[e].config
    /\ expected' = [editor[e].config EXCEPT !.risk = expected.risk]
    /\ strayed' = (strayed /\ liveConfig' # expected')
    /\ editor' = [editor EXCEPT ![e] = NoEdit]
    /\ UNCHANGED <<configFile, configCalls, starts, overlapped, disturbed>>

-----------------------------------------------------------------------------
\* The operator edits the file: any text, a valid configuration or not.
EditFile ==
    /\ configFile # NoConfig /\ configCalls < MaxConfigCalls
    /\ configCalls' = configCalls + 1
    /\ configFile' \in {c \in Configs : c.risk \in Risks} \union {Undecodable}
    /\ disturbed' = TRUE
    /\ UNCHANGED <<liveConfig, editor, starts, expected, overlapped, strayed>>

\* The process ends, in the middle of its calls or not. A write that was under way,
\* one that overlapped with another and one made of what had strayed is not what
\* the acknowledged calls add up to.
Exit ==
    /\ liveConfig # Down
    /\ liveConfig' = Down
    /\ editor' = [e \in Editors |-> NoEdit]
    /\ disturbed' = \/ disturbed \/ overlapped \/ strayed
                    \/ \E e \in Editing : editor[e].at \in {"fill", "store"}
    /\ strayed' = FALSE
    /\ UNCHANGED <<configFile, configCalls, starts, expected, overlapped>>

EditorStep(e) ==
    \/ UpdateConfig(e) \/ SetConfig(e) \/ ReloadFromDisk(e)
    \/ Truncate(e) \/ FillFile(e) \/ FillCutShort(e) \/ Store(e)
    \/ LoadCandidate(e) \/ Swap(e)

ConfigNext ==
    \/ \E e \in Editors : EditorStep(e)
    \/ NewManager
    \/ EditFile
    \/ Exit

ConfigSpec == ConfigInit /\ [][ConfigNext]_configVars

-----------------------------------------------------------------------------
\* The values of every variable.
ConfigTypeOK ==
    /\ configFile \in Configs \union {NoConfig, Undecodable}
    /\ liveConfig \in Configs \union {Down}
    /\ \A e \in Editing : /\ editor[e].at \in {"truncate", "fill", "store", "load", "swap"}
                          /\ editor[e].config \in Configs
    /\ expected \in Configs

\* The agent runs with what the acknowledged calls add up to, and finds it in the
\* file when it starts again: no failed write, refused reload, edit of the file or
\* restart after a finished write changes a setting of the running agent, above all
\* not the risk limit, which only UpdateConfig and SetConfig may change while it
\* runs (config/config.go:177-203). Two things are excepted: calls that overlap,
\* and a start from a file that was edited or whose write was cut short, which
\* takes whatever the file says, until a later call replaces it. Whatever happens,
\* the agent never runs with a configuration that Validate refuses.
ConfigSettles ==
    liveConfig # Down =>
        /\ Validate(liveConfig)
        /\ ~overlapped /\ ~strayed =>
              /\ liveConfig = expected
              /\ ~disturbed /\ Editing = {} => configFile = expected
=============================================================================
