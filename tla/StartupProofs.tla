--------------------------- MODULE StartupProofs ----------------------------
(***************************************************************************)
(* Proofs about Startup, for every value of its constants: what the two    *)
(* files the program replaces hold at every moment, whenever it dies.      *)
(***************************************************************************)
EXTENDS Startup, SequenceTheorems, TLAPS

-----------------------------------------------------------------------------
(* What LoadConfig returns.                                                *)

LEMMA ServerDefaultsType ==
    ASSUME NEW srv \in ServerDefinition
    PROVE  ServerWithDefaults(srv) \in ServerDefinition
<1>1. PollerWithDefaults(srv.a2s) \in A2SConfig \cup {None}
  BY ConfigurationAssumption
     DEF ServerDefinition, A2SConfig, PollerWithDefaults, OrDefault
<1>2. PollerWithDefaults(srv.rcon) \in RConConfig \cup {None}
  BY ConfigurationAssumption
     DEF ServerDefinition, RConConfig, PollerWithDefaults, OrDefault
<1>3. QED
  BY <1>1, <1>2 DEF ServerWithDefaults, ServerDefinition

LEMMA DefaultsType ==
    ASSUME NEW c \in Config
    PROVE  WithDefaults(c) \in Config /\ WithDefaults(c).geoPath
<1> DEFINE servers == [n \in DOMAIN c.servers |-> ServerWithDefaults(c.servers[n])]
<1>1. c.servers \in Seq(ServerDefinition)
  BY DEF Config
<1>2. servers \in Seq(ServerDefinition)
  <2>1. /\ DOMAIN c.servers = 1 .. Len(c.servers)
        /\ Len(c.servers) \in Nat
        /\ \A n \in DOMAIN c.servers : c.servers[n] \in ServerDefinition
    BY <1>1
  <2>2. servers \in [1 .. Len(c.servers) -> ServerDefinition]
    BY <2>1, ServerDefaultsType
  <2>3. QED
    BY <2>1, <2>2, SeqDef
<1>3. /\ OrDefault(c.gc, DefaultGC) \in Int
      /\ OrDefault(c.maxAge, DefaultMaxAge) \in Int
  BY ConfigurationAssumption DEF Config, OrDefault
<1>4. WithDefaults(c) = [c EXCEPT !.servers = servers,
                                  !.gc      = OrDefault(c.gc, DefaultGC),
                                  !.geoPath = TRUE,
                                  !.geoURL  = TRUE,
                                  !.maxAge  = OrDefault(c.maxAge, DefaultMaxAge)]
  BY DEF WithDefaults, Config
<1> HIDE DEF servers
<1>5. QED
  BY <1>2, <1>3, <1>4 DEF Config

LEMMA LoadedType ==
    ASSUME NEW t \in Contents
    PROVE  Loaded(t) \in Config /\ Loaded(t).geoPath /\ Loaded(t) # None
<1>1. NewConfig \in Config
  BY EmptySeq DEF NewConfig, Config
<1>2. (IF t = None THEN NewConfig ELSE t.cfg) \in Config
  BY <1>1, StartupAssumption DEF Contents, Text
<1>3. QED
  BY <1>2, DefaultsType, StartupAssumption DEF Loaded

-----------------------------------------------------------------------------
(* The types.                                                              *)

LEMMA StartupInitType == ASSUME StartupInit PROVE StartupTypeOK
BY StartupAssumption
   DEF StartupInit, StartupTypeOK, Contents, Versions, Places, InitPlaces, GeoIPPlaces

LEMMA StartupNextType ==
    ASSUME StartupTypeOK, [StartupNext]_startupVars
    PROVE  StartupTypeOK'
<1> USE DEF At, GoTo, StartupTypeOK, Contents, Versions, Places, InitPlaces, GeoIPPlaces,
           settings, configFiles, memory, history, dbFiles, world
<1>1. CASE Start
  BY <1>1 DEF Start
<1>2. CASE ReportRunning
  BY <1>2 DEF ReportRunning
<1>3. CASE ServiceStop
  BY <1>3, StartupAssumption DEF ServiceStop, Die
<1>4. CASE Crash
  BY <1>4, StartupAssumption DEF Crash, Die, Fault
<1>5. CASE ParseFlags
  BY <1>5 DEF ParseFlags
<1>6. CASE WriteTmp
  BY <1>6 DEF WriteTmp
<1>7. CASE TmpWritten
  BY <1>7 DEF TmpWritten
<1>8. CASE RemoveOld
  BY <1>8 DEF RemoveOld
<1>9. CASE RenameTmp
  BY <1>9 DEF RenameTmp
<1>10. CASE Load
  BY <1>10, LoadedType DEF Load
<1>11. CASE LoadRefused
  BY <1>11, StartupAssumption DEF LoadRefused, Die
<1>12. CASE EnsureDB
  BY <1>12 DEF EnsureDB
<1>13. CASE CreateTmp
  BY <1>13 DEF CreateTmp
<1>14. CASE Get
  BY <1>14 DEF Get
<1>15. CASE Copy
  BY <1>15 DEF Copy
<1>16. CASE Replace
  BY <1>16, StartupAssumption DEF Replace
<1>17. CASE OpenDB
  BY <1>17 DEF OpenDB
<1>18. CASE StartWorkers
  BY <1>18, StartupAssumption DEF StartWorkers, Die
<1>19. CASE Listen
  BY <1>19 DEF Listen
<1>20. CASE Serve
  BY <1>20 DEF Serve, startupVars
<1>21. CASE InitFails
  BY <1>21, StartupAssumption DEF InitFails, Die, Fault
<1>22. CASE LogFails
  BY <1>22, StartupAssumption DEF LogFails, Die, Fault
<1>23. CASE DownloadFails
  BY <1>23, StartupAssumption DEF DownloadFails, Fault, AfterFailure
<1>24. CASE WorkerPanics
  BY <1>24, StartupAssumption DEF WorkerPanics, Die
<1>25. CASE ListenFails
  BY <1>25, StartupAssumption DEF ListenFails, Die, Fault
<1>26. CASE \E t \in Texts : Edit(t)
  BY <1>26, StartupAssumption DEF Edit
<1>27. CASE PublishDB
  BY <1>27, StartupAssumption DEF PublishDB
<1>28. CASE GrowOld
  BY <1>28, StartupAssumption DEF GrowOld
<1>29. CASE UNCHANGED startupVars
  BY <1>29 DEF startupVars, settings, configFiles, memory, history, dbFiles, world
<1>30. CASE StatFails
  BY <1>30, StartupAssumption DEF StatFails, Fault, AfterFailure
<1>31. CASE OpenFails
  BY <1>31 DEF OpenFails
<1> HIDE DEF At, GoTo, StartupTypeOK, Contents, Versions, Places, InitPlaces, GeoIPPlaces,
           settings, configFiles, memory, history, dbFiles, world
<1>32. QED
  BY <1>1, <1>2, <1>3, <1>4, <1>5, <1>6, <1>7, <1>8, <1>9, <1>10, <1>11, <1>12, <1>13,
     <1>14, <1>15, <1>16, <1>17, <1>18, <1>19, <1>20, <1>21, <1>22, <1>23, <1>24, <1>25,
     <1>26, <1>27, <1>28, <1>29, <1>30, <1>31
     DEF StartupNext, Step

\* Every variable keeps its type; there is a configuration from LoadConfig to
\* the end of the process, and a service as long as there is a process.
THEOREM StartupTypeCorrect == StartupSpec => []StartupTypeOK
BY StartupInitType, StartupNextType, PTL DEF StartupSpec

-----------------------------------------------------------------------------
(* The configuration file.                                                 *)

\* What is at the path and in the temporary file at each step of
\* EnsureConfigFile, unless the operator wrote in between, and what the
\* process has read.
ConfigInv ==
    /\ configFile # Cut
    /\ text # Cut
    /\ editsBefore <= edits
    /\ place \in {"write", "writing", "remove"}
          => configFile \in {None, Blank} \/ edits > editsBefore
    /\ place \in {"remove", "rename"} => configTmp = Example
    /\ place = "rename" => configFile = None \/ edits > editsBefore
    /\ initConfig /\ place = "load" => configFile \notin {None, Blank}
    /\ initConfig /\ cfg # None => text \notin {None, Blank}

LEMMA ContentsDiffer ==
    /\ None \notin Texts \cup {Example, Blank, Cut}
    /\ Blank \notin Texts \cup {Example, Cut}
    /\ Cut \notin Texts \cup {Example, Blank}
BY StartupAssumption

LEMMA ConfigInvInit == ASSUME StartupInit PROVE ConfigInv
BY ContentsDiffer DEF StartupInit, ConfigInv

LEMMA ConfigInvNext ==
    ASSUME StartupTypeOK, ConfigInv, [StartupNext]_startupVars
    PROVE  ConfigInv'
<1> USE DEF At, GoTo, ConfigInv, InitPlaces, GeoIPPlaces,
          settings, configFiles, memory, history, dbFiles, world
<1>0. edits \in Nat /\ editsBefore \in Nat /\ edits <= edits
  BY StartupAssumption DEF StartupTypeOK
<1>1. CASE Start
  BY <1>1 DEF Start
<1>2. CASE ReportRunning
  BY <1>2 DEF ReportRunning
<1>3. CASE ServiceStop
  BY <1>0, <1>3, ContentsDiffer DEF ServiceStop, Die
<1>4. CASE Crash
  BY <1>0, <1>4, ContentsDiffer DEF Crash, Die, Fault
<1>5. CASE ParseFlags
  BY <1>0, <1>5, ContentsDiffer DEF ParseFlags, isNonEmptyFile
<1>6. CASE WriteTmp
  BY <1>6 DEF WriteTmp
<1>7. CASE TmpWritten
  BY <1>7 DEF TmpWritten
<1>8. CASE RemoveOld
  BY <1>8, ContentsDiffer DEF RemoveOld
<1>9. CASE RenameTmp
  BY <1>9, ContentsDiffer DEF RenameTmp
<1>10. CASE Load
  BY <1>10 DEF Load
<1>11. CASE LoadRefused
  BY <1>0, <1>11, ContentsDiffer DEF LoadRefused, Die
<1>12. CASE EnsureDB
  BY <1>12 DEF EnsureDB
<1>13. CASE CreateTmp
  BY <1>13 DEF CreateTmp
<1>14. CASE Get
  BY <1>14 DEF Get
<1>15. CASE Copy
  BY <1>15 DEF Copy
<1>16. CASE Replace
  BY <1>16 DEF Replace
<1>17. CASE OpenDB
  BY <1>17 DEF OpenDB
<1>18. CASE StartWorkers
  BY <1>0, <1>18, ContentsDiffer DEF StartWorkers, Die
<1>19. CASE Listen
  BY <1>19 DEF Listen
<1>20. CASE Serve
  BY <1>20 DEF Serve, startupVars
<1>21. CASE InitFails
  BY <1>0, <1>21, ContentsDiffer DEF InitFails, Die, Fault
<1>22. CASE LogFails
  BY <1>0, <1>22, ContentsDiffer DEF LogFails, Die, Fault
<1>23. CASE DownloadFails
  BY <1>23 DEF DownloadFails, Fault, AfterFailure
<1>24. CASE WorkerPanics
  BY <1>0, <1>24, ContentsDiffer DEF WorkerPanics, Die
<1>25. CASE ListenFails
  BY <1>0, <1>25, ContentsDiffer DEF ListenFails, Die, Fault
<1>26. CASE \E t \in Texts : Edit(t)
  BY <1>0, <1>26, ContentsDiffer DEF Edit
<1>27. CASE PublishDB
  BY <1>27 DEF PublishDB
<1>28. CASE GrowOld
  BY <1>28 DEF GrowOld
<1>29. CASE UNCHANGED startupVars
  BY <1>29 DEF startupVars, settings, configFiles, memory, history, dbFiles, world
<1>30. CASE StatFails
  BY <1>30 DEF StatFails, Fault, AfterFailure
<1>31. CASE OpenFails
  BY <1>31 DEF OpenFails
<1> HIDE DEF At, GoTo, ConfigInv, InitPlaces, GeoIPPlaces,
          settings, configFiles, memory, history, dbFiles, world
<1>32. QED
  BY <1>1, <1>2, <1>3, <1>4, <1>5, <1>6, <1>7, <1>8, <1>9, <1>10, <1>11, <1>12, <1>13,
     <1>14, <1>15, <1>16, <1>17, <1>18, <1>19, <1>20, <1>21, <1>22, <1>23, <1>24, <1>25,
     <1>26, <1>27, <1>28, <1>29, <1>30, <1>31
     DEF StartupNext, Step

LEMMA ConfigInvCorrect == StartupSpec => [](StartupTypeOK /\ ConfigInv)
<1>1. StartupTypeOK /\ ConfigInv /\ [StartupNext]_startupVars => ConfigInv'
  BY ConfigInvNext
<1>2. StartupInit => ConfigInv
  BY ConfigInvInit
<1>3. QED
  BY <1>1, <1>2, StartupTypeCorrect, PTL DEF StartupSpec

\* EnsureConfigFile: a part of the example is never at the path of the
\* configuration, nor read from it, wherever a crash interrupts it.
THEOREM ConfigFileWholeCorrect == StartupSpec => []ConfigFileWhole
<1>1. ConfigInv => ConfigFileWhole
  BY DEF ConfigInv, ConfigFileWhole
<1>2. QED
  BY <1>1, ConfigInvCorrect, PTL

\* --init-config: no process runs on the defaults of a missing or blank file.
THEOREM InitGivesConfigCorrect == StartupSpec => []InitGivesConfig
<1>1. ConfigInv => InitGivesConfig
  BY DEF ConfigInv, InitGivesConfig
<1>2. QED
  BY <1>1, ConfigInvCorrect, PTL

KeepsOperatorText == configFile \in Texts /\ configFile' \notin Texts => edits > editsBefore

LEMMA OperatorTextStep ==
    ASSUME StartupTypeOK, ConfigInv, [StartupNext]_startupVars
    PROVE  KeepsOperatorText
<1> USE DEF At, GoTo, KeepsOperatorText, settings, configFiles, memory, history, dbFiles, world
<1>1. CASE Start
  BY <1>1 DEF Start
<1>2. CASE ReportRunning
  BY <1>2 DEF ReportRunning
<1>3. CASE ServiceStop
  BY <1>3 DEF ServiceStop, Die
<1>4. CASE Crash
  BY <1>4 DEF Crash, Die, Fault
<1>5. CASE ParseFlags
  BY <1>5 DEF ParseFlags
<1>6. CASE WriteTmp
  BY <1>6 DEF WriteTmp
<1>7. CASE TmpWritten
  BY <1>7 DEF TmpWritten
<1>8. CASE RemoveOld
  BY <1>8, ContentsDiffer DEF RemoveOld, ConfigInv
<1>9. CASE RenameTmp
  BY <1>9, ContentsDiffer DEF RenameTmp, ConfigInv
<1>10. CASE Load
  BY <1>10 DEF Load
<1>11. CASE LoadRefused
  BY <1>11 DEF LoadRefused, Die
<1>12. CASE EnsureDB
  BY <1>12 DEF EnsureDB
<1>13. CASE CreateTmp
  BY <1>13 DEF CreateTmp
<1>14. CASE Get
  BY <1>14 DEF Get
<1>15. CASE Copy
  BY <1>15 DEF Copy
<1>16. CASE Replace
  BY <1>16 DEF Replace
<1>17. CASE OpenDB
  BY <1>17 DEF OpenDB
<1>18. CASE StartWorkers
  BY <1>18 DEF StartWorkers, Die
<1>19. CASE Listen
  BY <1>19 DEF Listen
<1>20. CASE Serve
  BY <1>20 DEF Serve, startupVars
<1>21. CASE InitFails
  BY <1>21 DEF InitFails, Die, Fault
<1>22. CASE LogFails
  BY <1>22 DEF LogFails, Die, Fault
<1>23. CASE DownloadFails
  BY <1>23 DEF DownloadFails, Fault, AfterFailure
<1>24. CASE WorkerPanics
  BY <1>24 DEF WorkerPanics, Die
<1>25. CASE ListenFails
  BY <1>25 DEF ListenFails, Die, Fault
<1>26. CASE \E t \in Texts : Edit(t)
  BY <1>26 DEF Edit
<1>27. CASE PublishDB
  BY <1>27 DEF PublishDB
<1>28. CASE GrowOld
  BY <1>28 DEF GrowOld
<1>29. CASE UNCHANGED startupVars
  BY <1>29 DEF startupVars, settings, configFiles, memory, history, dbFiles, world
<1>30. CASE StatFails
  BY <1>30 DEF StatFails, Fault, AfterFailure
<1>31. CASE OpenFails
  BY <1>31 DEF OpenFails
<1> HIDE DEF At, GoTo, KeepsOperatorText, settings, configFiles, memory, history, dbFiles, world
<1>32. QED
  BY <1>1, <1>2, <1>3, <1>4, <1>5, <1>6, <1>7, <1>8, <1>9, <1>10, <1>11, <1>12, <1>13,
     <1>14, <1>15, <1>16, <1>17, <1>18, <1>19, <1>20, <1>21, <1>22, <1>23, <1>24, <1>25,
     <1>26, <1>27, <1>28, <1>29, <1>30, <1>31
     DEF StartupNext, Step

\* EnsureConfigFile: the program replaces no configuration that was there when
\* it looked; what was written since may be lost.
THEOREM OperatorTextKeptCorrect == StartupSpec => OperatorTextKept
<1>1. StartupTypeOK /\ ConfigInv /\ [StartupNext]_startupVars
        => [KeepsOperatorText]_startupVars
  BY OperatorTextStep
<1>2. QED
  BY <1>1, ConfigInvCorrect, PTL
     DEF StartupSpec, OperatorTextKept, KeepsOperatorText

-----------------------------------------------------------------------------
(* The GeoIP database.                                                     *)

\* What downloadFile has in its temporary file when it renames it, and what
\* the process has opened.
DatabaseInv ==
    /\ db # 0
    /\ db # None => db <= upstream
    /\ place = "replace" => /\ dbTmp \in Versions
                            /\ dbTmp <= upstream
                            /\ db # None => db <= dbTmp
    /\ cfg # None => cfg.geoPath
    /\ place \notin {"start", "listen", "serving"} => opened = "no" /\ geoDB = None
    /\ place \in {"start", "listen", "serving"} => geoDB = IF opened = "error" THEN None ELSE db

LEMMA DatabaseInvInit == ASSUME StartupInit PROVE DatabaseInv
BY StartupAssumption DEF StartupInit, DatabaseInv

LEMMA DatabaseInvNext ==
    ASSUME StartupTypeOK, DatabaseInv, [StartupNext]_startupVars
    PROVE  DatabaseInv'
<1> USE DEF At, GoTo, DatabaseInv, InitPlaces, GeoIPPlaces,
          settings, configFiles, memory, history, dbFiles, world
<1>1. CASE Start
  BY <1>1 DEF Start
<1>2. CASE ReportRunning
  BY <1>2 DEF ReportRunning
<1>3. CASE ServiceStop
  BY <1>3 DEF ServiceStop, Die
<1>4. CASE Crash
  BY <1>4 DEF Crash, Die, Fault
<1>5. CASE ParseFlags
  BY <1>5 DEF ParseFlags
<1>6. CASE WriteTmp
  BY <1>6 DEF WriteTmp
<1>7. CASE TmpWritten
  BY <1>7 DEF TmpWritten
<1>8. CASE RemoveOld
  BY <1>8 DEF RemoveOld
<1>9. CASE RenameTmp
  BY <1>9 DEF RenameTmp
<1>10. CASE Load
  BY <1>10, LoadedType DEF Load, StartupTypeOK
<1>11. CASE LoadRefused
  BY <1>11 DEF LoadRefused, Die
<1>12. CASE EnsureDB
  BY <1>12 DEF EnsureDB, StartupTypeOK
<1>13. CASE CreateTmp
  BY <1>13 DEF CreateTmp
<1>14. CASE Get
  BY <1>14 DEF Get
<1>15. CASE Copy
  BY <1>15, StartupAssumption DEF Copy, StartupTypeOK, Versions
<1>16. CASE Replace
  BY <1>16, StartupAssumption DEF Replace, StartupTypeOK, Versions
<1>17. CASE OpenDB
  BY <1>17, StartupAssumption DEF OpenDB, StartupTypeOK, Versions
<1>18. CASE StartWorkers
  BY <1>18 DEF StartWorkers, Die
<1>19. CASE Listen
  BY <1>19 DEF Listen
<1>20. CASE Serve
  BY <1>20 DEF Serve, startupVars
<1>21. CASE InitFails
  BY <1>21 DEF InitFails, Die, Fault
<1>22. CASE LogFails
  BY <1>22 DEF LogFails, Die, Fault
<1>23. CASE DownloadFails
  BY <1>23 DEF DownloadFails, Fault, AfterFailure, StartupTypeOK
<1>24. CASE WorkerPanics
  BY <1>24 DEF WorkerPanics, Die
<1>25. CASE ListenFails
  BY <1>25 DEF ListenFails, Die, Fault
<1>26. CASE \E t \in Texts : Edit(t)
  BY <1>26 DEF Edit
<1>27. CASE PublishDB
  BY <1>27, StartupAssumption DEF PublishDB, StartupTypeOK, Versions
<1>28. CASE GrowOld
  BY <1>28 DEF GrowOld
<1>29. CASE UNCHANGED startupVars
  BY <1>29 DEF startupVars, settings, configFiles, memory, history, dbFiles, world
<1>30. CASE StatFails
  BY <1>30 DEF StatFails, Fault, AfterFailure, StartupTypeOK
<1>31. CASE OpenFails
  BY <1>31, StartupAssumption DEF OpenFails, StartupTypeOK
<1> HIDE DEF At, GoTo, DatabaseInv, InitPlaces, GeoIPPlaces,
          settings, configFiles, memory, history, dbFiles, world
<1>32. QED
  BY <1>1, <1>2, <1>3, <1>4, <1>5, <1>6, <1>7, <1>8, <1>9, <1>10, <1>11, <1>12, <1>13,
     <1>14, <1>15, <1>16, <1>17, <1>18, <1>19, <1>20, <1>21, <1>22, <1>23, <1>24, <1>25,
     <1>26, <1>27, <1>28, <1>29, <1>30, <1>31
     DEF StartupNext, Step

ImprovesDatabase ==
    db' # db => db' \in Versions /\ (db # None => db' >= db)

LEMMA DatabaseStep ==
    ASSUME StartupTypeOK, DatabaseInv, [StartupNext]_startupVars
    PROVE  ImprovesDatabase
<1> USE DEF At, GoTo, ImprovesDatabase, settings, configFiles, memory, history, dbFiles, world
<1>1. CASE Start
  BY <1>1 DEF Start
<1>2. CASE ReportRunning
  BY <1>2 DEF ReportRunning
<1>3. CASE ServiceStop
  BY <1>3 DEF ServiceStop, Die
<1>4. CASE Crash
  BY <1>4 DEF Crash, Die, Fault
<1>5. CASE ParseFlags
  BY <1>5 DEF ParseFlags
<1>6. CASE WriteTmp
  BY <1>6 DEF WriteTmp
<1>7. CASE TmpWritten
  BY <1>7 DEF TmpWritten
<1>8. CASE RemoveOld
  BY <1>8 DEF RemoveOld
<1>9. CASE RenameTmp
  BY <1>9 DEF RenameTmp
<1>10. CASE Load
  BY <1>10 DEF Load
<1>11. CASE LoadRefused
  BY <1>11 DEF LoadRefused, Die
<1>12. CASE EnsureDB
  BY <1>12 DEF EnsureDB
<1>13. CASE CreateTmp
  BY <1>13 DEF CreateTmp
<1>14. CASE Get
  BY <1>14 DEF Get
<1>15. CASE Copy
  BY <1>15 DEF Copy
<1>16. CASE Replace
  BY <1>16, StartupAssumption DEF Replace, StartupTypeOK, DatabaseInv, Versions
<1>17. CASE OpenDB
  BY <1>17 DEF OpenDB
<1>18. CASE StartWorkers
  BY <1>18 DEF StartWorkers, Die
<1>19. CASE Listen
  BY <1>19 DEF Listen
<1>20. CASE Serve
  BY <1>20 DEF Serve, startupVars
<1>21. CASE InitFails
  BY <1>21 DEF InitFails, Die, Fault
<1>22. CASE LogFails
  BY <1>22 DEF LogFails, Die, Fault
<1>23. CASE DownloadFails
  BY <1>23 DEF DownloadFails, Fault, AfterFailure
<1>24. CASE WorkerPanics
  BY <1>24 DEF WorkerPanics, Die
<1>25. CASE ListenFails
  BY <1>25 DEF ListenFails, Die, Fault
<1>26. CASE \E t \in Texts : Edit(t)
  BY <1>26 DEF Edit
<1>27. CASE PublishDB
  BY <1>27 DEF PublishDB
<1>28. CASE GrowOld
  BY <1>28 DEF GrowOld
<1>29. CASE UNCHANGED startupVars
  BY <1>29 DEF startupVars, settings, configFiles, memory, history, dbFiles, world
<1>30. CASE StatFails
  BY <1>30 DEF StatFails, Fault, AfterFailure
<1>31. CASE OpenFails
  BY <1>31 DEF OpenFails
<1> HIDE DEF At, GoTo, ImprovesDatabase, settings, configFiles, memory, history, dbFiles, world
<1>32. QED
  BY <1>1, <1>2, <1>3, <1>4, <1>5, <1>6, <1>7, <1>8, <1>9, <1>10, <1>11, <1>12, <1>13,
     <1>14, <1>15, <1>16, <1>17, <1>18, <1>19, <1>20, <1>21, <1>22, <1>23, <1>24, <1>25,
     <1>26, <1>27, <1>28, <1>29, <1>30, <1>31
     DEF StartupNext, Step

LEMMA DatabaseInvCorrect == StartupSpec => [](StartupTypeOK /\ DatabaseInv)
<1>1. StartupTypeOK /\ DatabaseInv /\ [StartupNext]_startupVars => DatabaseInv'
  BY DatabaseInvNext
<1>2. StartupInit => DatabaseInv
  BY DatabaseInvInit
<1>3. QED
  BY <1>1, <1>2, StartupTypeCorrect, PTL DEF StartupSpec

\* downloadFile and the crash it may not survive: the database in place is
\* only ever replaced by a whole one that is no older.
THEOREM DatabaseOnlyImprovesCorrect == StartupSpec => DatabaseOnlyImproves
<1>1. StartupTypeOK /\ DatabaseInv /\ [StartupNext]_startupVars
        => [ImprovesDatabase]_startupVars
  BY DatabaseStep
<1>2. QED
  BY <1>1, DatabaseInvCorrect, PTL
     DEF StartupSpec, DatabaseOnlyImproves, ImprovesDatabase

\* NewManager: a process that listens has opened the database in place, unless
\* geoip2.Open refused it.
THEOREM DatabaseServedCorrect == StartupSpec => []DatabaseServed
<1>1. DatabaseInv => DatabaseServed
  BY DEF DatabaseInv, DatabaseServed
<1>2. QED
  BY <1>1, DatabaseInvCorrect, PTL
=============================================================================
