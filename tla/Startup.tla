------------------------------- MODULE Startup ------------------------------
(***************************************************************************)
(* The exporter from its start to its service (entrypoint.Execute), with   *)
(* the two files it replaces: the configuration (--init-config) and the    *)
(* GeoIP database.  The process may die between any two steps and is       *)
(* started again, by systemd or by hand; as a Windows service it runs      *)
(* beside the handler that speaks to the service control manager.          *)
(***************************************************************************)
EXTENDS Configuration

CONSTANTS
    Texts,        \* what the operator may write into the configuration file
    Example,      \* the embedded example-config.yaml
    Blank,        \* a file that is empty or white space
    Cut,          \* a part of the example: its write was interrupted
    MaxVersions,  \* bound: versions of the GeoIP database at its URL
    MaxFaults,    \* bound: crashes, and failures of the disk and the network
    MaxEdits,     \* bound: times the operator writes the configuration
    AgeCap        \* bound: ages of the database are not told apart beyond it

VARIABLES
    supervisor,  \* who starts the process: "systemd" or "scm"
    initConfig,  \* opts.InitConfig
    place,       \* where Execute is; "off": there is no process
    service,     \* the state the service handler last reported
    configFile,  \* the file at ConfigPath
    configTmp,   \* ConfigPath.tmp
    text,        \* the text the process has read
    cfg,         \* the configuration it runs with
    db,          \* the file at geo_ip.path: its version, 0 for a part of one
    dbTmp,       \* geo_ip.path.tmp
    dbAge,       \* ticks since the database was put in place
    geoDB,       \* Manager.geoDB: the version that was opened
    opened,      \* history: what geoip2.Open said, "ok" or "error"; "no": nothing yet
    editsBefore, \* history: edits by the time the process had its flags
    upstream,    \* the version the URL gives
    faults,      \* crashes and failures so far (bookkeeping of the bound)
    edits        \* writes of the operator so far (bookkeeping of the bound)

settings == <<supervisor, initConfig>>
configFiles == <<configFile, configTmp>>
dbFiles == <<db, dbTmp, dbAge>>
history == <<opened, editsBefore>>
memory == <<text, cfg, geoDB, history>>
world == <<upstream, faults, edits>>
startupVars == <<settings, place, service, configFiles, memory, dbFiles, world>>

Contents == Texts \cup {Example, Blank, Cut, None}
Versions == 1 .. MaxVersions

\* ParseFlags, which looks at the file once, and the steps of EnsureConfigFile.
InitPlaces == {"flags", "write", "writing", "remove", "rename"}
GeoIPPlaces == {"ensure", "create", "get", "copy", "replace", "open"}
Places == InitPlaces \cup GeoIPPlaces
            \cup {"off", "load", "start", "listen", "serving", "returned"}

ASSUME StartupAssumption ==
    /\ Texts \cup {Example, Blank, Cut} \subseteq Text
    /\ Blank.parses /\ Blank.cfg = NewConfig
    /\ ~Cut.parses
    /\ Blank \notin Texts /\ Cut \notin Texts \cup {Example, Blank} /\ Blank # Example
    /\ None \notin Text \cup Config \cup Int
    /\ MaxVersions \in Nat \ {0}
    /\ {MaxFaults, MaxEdits, AgeCap} \subseteq Nat

-----------------------------------------------------------------------------
StartupInit ==
    /\ supervisor \in {"systemd", "scm"}
    /\ initConfig \in BOOLEAN
    /\ place = "off"
    /\ service = "stopped"
    /\ configFile \in Texts \cup {None, Blank}
    /\ configTmp = None
    /\ text = None /\ cfg = None /\ geoDB = None
    /\ opened = "no" /\ editsBefore = 0
    /\ db = None /\ dbTmp = None /\ dbAge = 0
    /\ upstream = 1
    /\ faults = 0 /\ edits = 0

At(p) == place = p
GoTo(p) == place' = p

\* The end of the process, and of what it had in memory.
Die ==
    /\ GoTo("off")
    /\ service' = "stopped"
    /\ text' = None /\ cfg' = None /\ geoDB' = None
    /\ opened' = "no" /\ editsBefore' = 0

\* A failure that the bound allows.
Fault == faults < MaxFaults /\ faults' = faults + 1

(* Supervision.                                                            *)

\* main, and serviceHandler.Execute, which runs the program in a goroutine.
Start ==
    /\ At("off")
    /\ GoTo("flags")
    /\ service' = IF supervisor = "scm" THEN "start_pending" ELSE service
    /\ UNCHANGED <<settings, configFiles, memory, dbFiles, world>>

ReportRunning ==
    /\ service = "start_pending"
    /\ service' = "running"
    /\ UNCHANGED <<settings, place, configFiles, memory, dbFiles, world>>

\* The handler answers svc.Stop by returning, whatever the program is doing,
\* even if it has returned long ago.
ServiceStop ==
    /\ service = "running"
    /\ Die
    /\ UNCHANGED <<settings, configFiles, dbFiles, world>>

\* The process is killed.
Crash ==
    /\ ~At("off")
    /\ Fault
    /\ Die
    /\ UNCHANGED <<settings, configFiles, dbFiles, upstream, edits>>

(* ParseFlags and EnsureConfigFile.                                        *)

\* BUG: only a file that is there counts.
IsNonEmptyIfThere == configFile # None

\* BUG: anything but the example is replaced by it.
IsExample == configFile = Example

isNonEmptyFile == configFile \notin {None, Blank}

ParseFlags ==
    /\ At("flags")
    /\ GoTo(IF initConfig /\ ~isNonEmptyFile THEN "write" ELSE "load")
    /\ editsBefore' = edits
    /\ UNCHANGED <<settings, service, configFiles, text, cfg, geoDB, opened, dbFiles, world>>

\* BUG: a temporary file left behind is an error.
WriteTmpExclusive ==
    /\ At("write")
    /\ IF configTmp = None
       THEN /\ configTmp' = Cut
            /\ GoTo("writing")
            /\ UNCHANGED <<service, memory>>
       ELSE Die /\ UNCHANGED configTmp
    /\ UNCHANGED <<settings, configFile, dbFiles, world>>

\* BUG: the example is written to the path itself.
WriteInPlace ==
    /\ At("write")
    /\ configTmp' = Cut
    /\ configFile' = Cut
    /\ GoTo("writing")
    /\ UNCHANGED <<settings, service, memory, dbFiles, world>>

\* os.WriteFile truncates the file it finds and writes the new one.
WriteTmp ==
    /\ At("write")
    /\ configTmp' = Cut
    /\ GoTo("writing")
    /\ UNCHANGED <<settings, service, configFile, memory, dbFiles, world>>

TmpWritten ==
    /\ At("writing")
    /\ configTmp' = Example
    /\ GoTo("remove")
    /\ UNCHANGED <<settings, service, configFile, memory, dbFiles, world>>

RemoveOld ==
    /\ At("remove")
    /\ configFile' = None
    /\ GoTo("rename")
    /\ UNCHANGED <<settings, service, configTmp, memory, dbFiles, world>>

RenameTmp ==
    /\ At("rename")
    /\ configFile' = configTmp
    /\ configTmp' = None
    /\ GoTo("load")
    /\ UNCHANGED <<settings, service, memory, dbFiles, world>>

\* ParseFlags exits, when it cannot look at the file, too; the temporary file
\* goes only if the removal failed.
InitFails ==
    /\ place \in InitPlaces
    /\ initConfig
    /\ Fault
    /\ configTmp' = IF At("remove") THEN None ELSE configTmp
    /\ Die
    /\ UNCHANGED <<settings, configFile, dbFiles, upstream, edits>>

(* LoadConfig.                                                             *)

Load ==
    /\ At("load")
    /\ Accepted(configFile)
    /\ text' = configFile
    /\ cfg' = Loaded(configFile)
    /\ GoTo("ensure")
    /\ UNCHANGED <<settings, service, configFiles, geoDB, history, dbFiles, world>>

\* BUG: the error is printed and the start goes on.
LoadRefusedGoOn ==
    /\ At("load")
    /\ ~Accepted(configFile)
    /\ GoTo("ensure")
    /\ UNCHANGED <<settings, service, configFiles, memory, dbFiles, world>>

\* Execute returns 2: the process ends, but for a service, which goes on
\* without the program.
LoadRefused ==
    /\ At("load")
    /\ ~Accepted(configFile)
    /\ IF supervisor = "scm" THEN GoTo("returned") /\ UNCHANGED <<service, memory>>
                             ELSE Die
    /\ UNCHANGED <<settings, configFiles, dbFiles, world>>

\* The log file cannot be opened: log.Fatal ends the process.
LogFails ==
    /\ At("load")
    /\ Accepted(configFile)
    /\ Fault
    /\ Die
    /\ UNCHANGED <<settings, configFiles, dbFiles, upstream, edits>>

(* NewManager: EnsureDB, downloadFile and geoip2.Open.                     *)

\* The database is there and young enough.
UpToDate == db # None /\ cfg.maxAge > 0 /\ dbAge < cfg.maxAge

EnsureDB ==
    /\ At("ensure")
    /\ GoTo(CASE ~cfg.geoPath -> "start"
              [] cfg.geoPath /\ (~cfg.geoURL \/ UpToDate) -> "open"
              [] OTHER -> "create")
    /\ UNCHANGED <<settings, service, configFiles, memory, dbFiles, world>>

CreateTmp ==
    /\ At("create")
    /\ dbTmp' = 0
    /\ GoTo("get")
    /\ UNCHANGED <<settings, service, configFiles, memory, db, dbAge, world>>

Get ==
    /\ At("get")
    /\ GoTo("copy")
    /\ UNCHANGED <<settings, service, configFiles, memory, dbFiles, world>>

Copy ==
    /\ At("copy")
    /\ dbTmp' = upstream
    /\ GoTo("replace")
    /\ UNCHANGED <<settings, service, configFiles, memory, db, dbAge, world>>

Replace ==
    /\ At("replace")
    /\ db' = dbTmp
    /\ dbTmp' = None
    /\ dbAge' = 0
    /\ GoTo("open")
    /\ UNCHANGED <<settings, service, configFiles, memory, world>>

\* BUG: what was downloaded is put in place whatever its status.
AfterFailureReplace == IF At("get") THEN "replace" ELSE "open"

\* BUG: no database is opened after a failure.
AfterFailureStart == "start"

\* EnsureDB returns an error, the temporary file stays if there is one, and
\* NewManager opens the database there is.
AfterFailure == "open"

\* os.Stat fails, and not because there is no file.
StatFails ==
    /\ At("ensure")
    /\ cfg.geoPath /\ cfg.geoURL
    /\ Fault
    /\ GoTo(AfterFailure)
    /\ UNCHANGED <<settings, service, configFiles, memory, dbFiles, upstream, edits>>

DownloadFails ==
    /\ place \in {"create", "get", "copy", "replace"}
    /\ Fault
    /\ GoTo(AfterFailure)
    /\ UNCHANGED <<settings, service, configFiles, memory, dbFiles, upstream, edits>>

OpenDB ==
    /\ At("open")
    /\ db # 0
    /\ geoDB' = db
    /\ opened' = "ok"
    /\ GoTo("start")
    /\ UNCHANGED <<settings, service, configFiles, text, cfg, editsBefore, dbFiles, world>>

\* The file is there, but cannot be read or is no database: what the URL gave
\* with a status of 200 is put in place unseen.  The start goes on without.
OpenFails ==
    /\ At("open")
    /\ db # None
    /\ opened' = "error"
    /\ GoTo("start")
    /\ UNCHANGED <<settings, service, configFiles, text, cfg, geoDB, editsBefore,
                   dbFiles, world>>

(* The workers, the registry and the listener.                             *)

StartWorkers ==
    /\ At("start")
    /\ IF RegisterPanics(cfg) THEN Die
       ELSE GoTo("listen") /\ UNCHANGED <<service, memory>>
    /\ UNCHANGED <<settings, configFiles, dbFiles, world>>

\* The goroutine of a worker or of the collector panics at its first step.
WorkerPanics ==
    /\ place \in {"listen", "serving"}
    /\ TickersPanic(cfg)
    /\ Die
    /\ UNCHANGED <<settings, configFiles, dbFiles, world>>

Listen ==
    /\ At("listen")
    /\ GoTo("serving")
    /\ UNCHANGED <<settings, service, configFiles, memory, dbFiles, world>>

\* log.Fatal ends the process, a service too.
ListenFails ==
    /\ place \in {"listen", "serving"}
    /\ Fault
    /\ Die
    /\ UNCHANGED <<settings, configFiles, dbFiles, upstream, edits>>

\* Requests, scrapes and polls: the other modules.
Serve == At("serving") /\ UNCHANGED startupVars

(* The world.                                                              *)

Edit(t) ==
    /\ edits < MaxEdits
    /\ edits' = edits + 1
    /\ configFile' = t
    /\ UNCHANGED <<settings, place, service, configTmp, memory, dbFiles, upstream, faults>>

PublishDB ==
    /\ upstream < MaxVersions
    /\ upstream' = upstream + 1
    /\ UNCHANGED <<settings, place, service, configFiles, memory, dbFiles, faults, edits>>

\* Time, as far as it makes the database older.
GrowOld ==
    /\ db # None
    /\ dbAge < AgeCap
    /\ dbAge' = dbAge + 1
    /\ UNCHANGED <<settings, place, service, configFiles, memory, db, dbTmp, world>>

-----------------------------------------------------------------------------
\* What the process does when nothing fails.
Step ==
    \/ ParseFlags \/ WriteTmp \/ TmpWritten \/ RemoveOld \/ RenameTmp
    \/ Load \/ LoadRefused
    \/ EnsureDB \/ CreateTmp \/ Get \/ Copy \/ Replace \/ OpenDB
    \/ StartWorkers \/ Listen

StartupNext ==
    \/ Start \/ ReportRunning \/ ServiceStop \/ Crash
    \/ Step \/ Serve
    \/ InitFails \/ LogFails \/ StatFails \/ DownloadFails \/ OpenFails
    \/ WorkerPanics \/ ListenFails
    \/ \E t \in Texts : Edit(t)
    \/ PublishDB \/ GrowOld

StartupSpec == StartupInit /\ [][StartupNext]_startupVars

\* systemd restarts what failed; a step ends, an answer to the download
\* included; a goroutine that panics gets to do so.
StartupFairSpec ==
    /\ StartupSpec
    /\ WF_startupVars(Start)
    /\ WF_startupVars(Step)
    /\ WF_startupVars(WorkerPanics)

-----------------------------------------------------------------------------
\* The types, and when there is a configuration and a process: every step
\* after LoadConfig has a configuration, and only a live process a service.
StartupTypeOK ==
    /\ supervisor \in {"systemd", "scm"}
    /\ initConfig \in BOOLEAN
    /\ place \in Places
    /\ service \in {"stopped", "start_pending", "running"}
    /\ configFile \in Contents /\ configTmp \in Contents /\ text \in Contents
    /\ cfg \in Config \cup {None}
    /\ db \in Versions \cup {0, None}
    /\ dbTmp \in Versions \cup {0, None}
    /\ geoDB \in Versions \cup {None}
    /\ opened \in {"no", "ok", "error"}
    /\ editsBefore \in 0 .. MaxEdits
    /\ dbAge \in 0 .. AgeCap
    /\ upstream \in Versions
    /\ faults \in 0 .. MaxFaults
    /\ edits \in 0 .. MaxEdits
    /\ cfg # None <=> place \in GeoIPPlaces \cup {"start", "listen", "serving"}
    /\ service # "stopped" <=> supervisor = "scm" /\ place # "off"

\* Whenever the process dies while it writes the example, what is at the path
\* of the configuration, and what a later start reads, is never a part of it.
ConfigFileWhole == configFile # Cut /\ text # Cut

\* The program replaces a configuration that somebody wrote only if it was
\* written after this very process had looked at the file, which it does once,
\* before it writes the example: what was there by then stays, whatever
\* earlier starts left behind.
OperatorTextKept ==
    [][(configFile \in Texts /\ configFile' \notin Texts) => edits > editsBefore]_startupVars

\* --init-config leaves no process running on the defaults of a missing or
\* blank file, though the file is missing for a moment at each try.
InitGivesConfig == initConfig /\ cfg # None => text \notin {None, Blank}

\* The database in place is never taken away, never replaced by a part of what
\* the URL gives or by an older one, whatever a crash or a failed download left.
DatabaseOnlyImproves ==
    [][db' # db => /\ db' \in Versions
                   /\ db # None => db' >= db]_startupVars

\* A process that listens uses the database that is in place, also when the
\* look at it or the download of a newer one has failed: it goes without only
\* if geoip2.Open refused that very file.
DatabaseServed ==
    place \in {"listen", "serving"} => geoDB = IF opened = "error" THEN None ELSE db

\* What a start needs of the configuration.
Servable(t) ==
    /\ Accepted(t)
    /\ ~RegisterPanics(Loaded(t))
    /\ ~TickersPanic(Loaded(t))

\* Whatever was interrupted before, once faults end and the configuration is
\* a good one, systemd gets the exporter to serve.
ServesAtLast ==
    supervisor = "systemd" /\ <>[]Servable(configFile) => <>[](place = "serving")

\* What the README says of geo_ip.max_age: "0 => disable updates".
UpdatesCanBeDisabled ==
    [][db # None /\ db' # db /\ text # None => ~text.updatesOff]_startupVars
=============================================================================
