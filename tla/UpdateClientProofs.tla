-------------------------- MODULE UpdateClientProofs --------------------------
(***************************************************************************)
(* Proofs about UpdateClient: that the persistent context follows the         *)
(* update, that DU TII's list follows push_cb, and what an abort leaves,      *)
(* for any packages and any number of monitors.                               *)
(***************************************************************************)
EXTENDS UpdateClient, TLAPS

-----------------------------------------------------------------------------
(* The inductive invariant *)

\* deployPackage runs; up to its last step, where the monitor is created.
DeployPlaces == {"export", "register", "registered", "status", "trigger", "context", "monitor"}
NoneRuns == \A m \in Monitors : ~Running(m)

\* Who is inside abortDeploy: the main thread from the prompt or from its handler, a
\* monitor from its handler; and it blocks signals.
AbortsPlaced ==
  /\ \A t \in Threads : ab[t] # "none" => t \in blocked
  /\ \A m \in Monitors : /\ ab[m] # "none" <=> mon[m] = "handler"
                         /\ m \in dying <=> mon[m] = "handler"
  /\ ab[Main] # "none" => main \in {"prompt", "handler"}
  /\ Main \in dying <=> main = "handler"
  /\ main = "handler" => ab[Main] # "none"
  /\ main = "gone" => NoneRuns

\* push_cb: the flag is down until DU TII has the callback, and after an abort.
CallbackFollowed ==
  /\ main \in {"export", "register", "registered", "handler", "gone"} => ~gbRmCbPath
  /\ main \in {"register", "registered"} => exported
  /\ main = "registered" => tii
  /\ CallbackTracked

\* One monitor at most, and monitorThread is it, unless a deploy began too early.
OneMonitor ==
  ~ctxTrouble =>
    /\ main \in DeployPlaces => NoneRuns
    /\ \A m \in Monitors : Running(m) => m = monitorThread
    /\ ab[Main] = "runlevel" => NoneRuns

\* Whoever is about to clear the context, or has cleared it, has seen the update end.
ContextFollows ==
  /\ ContextNamesUpdate
  /\ ~ctxTrouble =>
       /\ main = "context" /\ Updating => pkg = dmPkg
       /\ Updating => \A m \in Monitors : mon[m] # "clear"
       /\ Updating => \A t \in Threads : ab[t] \notin {"context", "join", "runlevel"}
       /\ (\E t \in Threads : ab[t] \in {"join", "runlevel"}) => ctx = NoPkg

\* Only an update that runs waits for a run level.
PendingRuns == pa => dm = "UPDATE_IN_PROGRESS"

\* Whoever is in an abort has taken the flag down, and nobody puts it up again.
FlagDown == ~ctxTrouble /\ gbRmCbPath => \A t \in Threads : ab[t] = "none"

\* What an abort has done stays done until the next command.
AbortLasts ==
  /\ aborted => NoneRuns /\ main \notin DeployPlaces
  /\ AbortLeavesNothing

ClientInv ==
  /\ ClientTypeOK
  /\ AbortsPlaced
  /\ CallbackFollowed
  /\ OneMonitor
  /\ ContextFollows
  /\ PendingRuns
  /\ FlagDown
  /\ AbortLasts

-----------------------------------------------------------------------------
(* Facts about the operators *)

\* The main thread is not a monitor, and no thread is the zero monitorThread.
LEMMA ThreadFacts ==
  /\ NoPkg \notin Packages
  /\ Main \in Threads /\ Main \notin Monitors /\ NoThread \notin Threads
  /\ \A m \in Monitors : m \in Threads /\ m # Main
BY ClientAssumption DEF Threads

\* A process that is gone has no thread and no flag.
LEMMA GoneTyped ==
  ASSUME Gone
  PROVE  /\ main' = "gone" /\ pkg' = NoPkg /\ quit' = FALSE /\ monitorThread' = NoThread
         /\ gbRmCbPath' = FALSE /\ exported' = FALSE /\ blocked' = {} /\ dying' = {}
         /\ mon' \in [Monitors -> {"free"}] /\ ab' \in [Threads -> {"none"}]
         /\ \A m \in Monitors : mon'[m] = "free"
         /\ \A t \in Threads : ab'[t] = "none"
BY DEF Gone

\* A new monitor polls; it is the one monitorThread names.
LEMMA NewMonitorTyped ==
  ASSUME ClientTypeOK, NEW m \in Monitors, NewMonitor(m)
  PROVE  /\ mon' \in [Monitors -> {"free", "poll", "runlevel", "clear", "handler", "ended"}]
         /\ mon'[m] = "poll" /\ monitorThread' = m
         /\ \A k \in Monitors \ {m} : mon'[k] = mon[k]
         /\ blocked' \subseteq Threads /\ blocked \ {m} \subseteq blocked'
BY ThreadFacts DEF NewMonitor, ClientTypeOK

\* abortDeploy moves on in one thread only.
LEMMA AbortGotoTyped ==
  ASSUME ClientTypeOK, NEW t \in Threads,
         NEW place \in {"none", "status", "wait", "context", "join", "runlevel"},
         AbortGoto(t, place)
  PROVE  /\ ab' \in [Threads -> {"none", "status", "wait", "context", "join", "runlevel"}]
         /\ ab'[t] = place
         /\ \A k \in Threads \ {t} : ab'[k] = ab[k]
BY DEF AbortGoto, ClientTypeOK
-----------------------------------------------------------------------------
(* The types, in parts *)

Places == {"gone", "prompt", "export", "register", "registered", "status", "trigger",
           "context", "monitor", "handler", "join"}
MonPlaces == {"free", "poll", "runlevel", "clear", "handler", "ended"}
AbPlaces == {"none", "status", "wait", "context", "join", "runlevel"}

DeployTyped == main \in Places /\ pkg \in Packages \union {NoPkg} /\ quit \in BOOLEAN
MonitorTyped == monitorThread \in Monitors \union {NoThread} /\ mon \in [Monitors -> MonPlaces]
AbortTyped == blocked \subseteq Threads /\ dying \subseteq Threads /\ ab \in [Threads -> AbPlaces]
CallbackTyped == gbRmCbPath \in BOOLEAN /\ exported \in BOOLEAN /\ tii \in BOOLEAN
ContextTyped == ctx \in Packages \union {NoPkg}
MasterTyped ==
  /\ dm \in States /\ dmPkg \in Packages \union {NoPkg}
  /\ pa \in BOOLEAN /\ aborting \in BOOLEAN /\ raised \in BOOLEAN
HistoryTyped == ctxTrouble \in BOOLEAN /\ cbTrouble \in BOOLEAN /\ aborted \in BOOLEAN

Typed ==
  /\ DeployTyped /\ MonitorTyped /\ AbortTyped /\ CallbackTyped /\ ContextTyped
  /\ MasterTyped /\ HistoryTyped

\* The parts make up the type invariant.
LEMMA TypeParts == Typed <=> ClientTypeOK
BY DEF Typed, ClientTypeOK, DeployTyped, MonitorTyped, AbortTyped, CallbackTyped,
   ContextTyped, MasterTyped, HistoryTyped, Places, MonPlaces, AbPlaces

\* A part of the types whose variables stay stays.
LEMMA TypesStay ==
  ASSUME Typed
  PROVE  /\ UNCHANGED <<main, pkg, quit>> => DeployTyped'
         /\ UNCHANGED <<monitorThread, mon>> => MonitorTyped'
         /\ UNCHANGED <<blocked, dying, ab>> => AbortTyped'
         /\ UNCHANGED <<gbRmCbPath, exported, tii>> => CallbackTyped'
         /\ UNCHANGED ctx => ContextTyped'
         /\ UNCHANGED <<dm, dmPkg, pa, aborting, raised>> => MasterTyped'
         /\ UNCHANGED <<ctxTrouble, cbTrouble, aborted>> => HistoryTyped'
<1> USE DEF Typed
<1>1. UNCHANGED <<main, pkg, quit>> => DeployTyped'
  BY DEF DeployTyped
<1>2. UNCHANGED <<monitorThread, mon>> => MonitorTyped'
  BY DEF MonitorTyped
<1>3. UNCHANGED <<blocked, dying, ab>> => AbortTyped'
  BY DEF AbortTyped
<1>4. UNCHANGED <<gbRmCbPath, exported, tii>> => CallbackTyped'
  BY DEF CallbackTyped
<1>5. UNCHANGED ctx => ContextTyped'
  BY DEF ContextTyped
<1>6. UNCHANGED <<dm, dmPkg, pa, aborting, raised>> => MasterTyped'
  BY DEF MasterTyped
<1>7. UNCHANGED <<ctxTrouble, cbTrouble, aborted>> => HistoryTyped'
  BY DEF HistoryTyped
<1> QED BY <1>1, <1>2, <1>3, <1>4, <1>5, <1>6, <1>7

\* A process that is gone has the types.
LEMMA GoneParts ==
  ASSUME Gone, tii' \in BOOLEAN
  PROVE  DeployTyped' /\ MonitorTyped' /\ AbortTyped' /\ CallbackTyped'
<1>1. DeployTyped' /\ CallbackTyped'
  BY GoneTyped DEF DeployTyped, CallbackTyped, Places
<1>2. MonitorTyped'
  BY GoneTyped DEF MonitorTyped, MonPlaces
<1>3. AbortTyped'
  BY GoneTyped DEF AbortTyped, AbPlaces
<1> QED BY <1>1, <1>2, <1>3
-----------------------------------------------------------------------------
(* Every step keeps the types *)

\* A start of the client keeps the types.
LEMMA StartTyped ==
  ASSUME Typed, NEW oneShot \in BOOLEAN, Start(oneShot)
  PROVE  Typed'
<1>1. DeployTyped'
  BY DEF Start, Typed, DeployTyped, Places
<1>2. MonitorTyped' /\ AbortTyped'
  <2>1. CASE ctx # NoPkg /\ ~oneShot
    <3>1. PICK m \in Monitors : NewMonitor(m)
      BY <2>1 DEF Start
    <3>2. UNCHANGED <<ab, dying>>
      BY DEF Start
    <3> QED BY <3>1, <3>2, NewMonitorTyped, TypeParts
      DEF Typed, MonitorTyped, AbortTyped, MonPlaces
  <2>2. CASE ~(ctx # NoPkg /\ ~oneShot)
    BY <2>2, TypesStay DEF Start
  <2> QED BY <2>1, <2>2
<1>3. CallbackTyped' /\ ContextTyped' /\ MasterTyped'
  BY TypesStay DEF Start, outside, master
<1>4. HistoryTyped'
  BY Zenon DEF Start, Typed, HistoryTyped, CallbackTyped
<1> QED BY <1>1, <1>2, <1>3, <1>4 DEF Typed

\* Taking push_cb off DU TII's list keeps the types.
LEMMA DeregisterTyped ==
  ASSUME Typed, Deregister
  PROVE  CallbackTyped' /\ cbTrouble' \in BOOLEAN
<1>1. tii' \in BOOLEAN /\ cbTrouble' \in BOOLEAN
  BY DEF Deregister, Deregistered, Typed, CallbackTyped, HistoryTyped
<1>2. exported' \in BOOLEAN /\ gbRmCbPath' \in BOOLEAN
  BY DEF Deregister, Typed, CallbackTyped
<1> QED BY <1>1, <1>2 DEF CallbackTyped

\* So does the beginning of an abort.
LEMMA AbortBeginTyped ==
  ASSUME Typed, NEW t \in Threads, AbortBegin(t)
  PROVE  /\ ab' \in [Threads -> AbPlaces] /\ blocked' \subseteq Threads
         /\ CallbackTyped' /\ cbTrouble' \in BOOLEAN
<1>1. ab' \in [Threads -> AbPlaces]
  BY AbortGotoTyped, TypeParts DEF AbortBegin, AbPlaces
<1>2. blocked' \subseteq Threads
  BY DEF AbortBegin, Typed, AbortTyped
<1> QED BY <1>1, <1>2, DeregisterTyped DEF AbortBegin

\* A request for a run level that succeeds or fails.
LEMMA RequestRunLevelTyped ==
  ASSUME Typed, NEW up \in BOOLEAN,
         RequestRunLevel(up) \/ UNCHANGED <<raised, pa>>
  PROVE  raised' \in BOOLEAN /\ pa' \in BOOLEAN
BY DEF RequestRunLevel, Typed, MasterTyped

\* A write of the context that succeeds or fails.
LEMMA UpdateContextTyped ==
  ASSUME Typed, NEW p \in Packages \union {NoPkg}, UpdateContext(p)
  PROVE  ContextTyped' /\ ctxTrouble' \in BOOLEAN
BY DEF UpdateContext, Typed, ContextTyped, HistoryTyped

\* Back at the prompt.
LEMMA BackTyped ==
  ASSUME Typed, Back, UNCHANGED quit
  PROVE  DeployTyped'
BY DEF Back, Typed, DeployTyped, Places

\* The commands.
LEMMA CommandTyped ==
  ASSUME Typed, Command
  PROVE  Typed'
<1>1. CASE \E p \in Packages, u \in BOOLEAN : Deploy(p, u)
  <2> PICK p \in Packages, u \in BOOLEAN : Deploy(p, u)
    BY <1>1
  <2>1. DeployTyped'
    BY DEF Deploy, Typed, DeployTyped, Places
  <2>2. MonitorTyped' /\ AbortTyped' /\ CallbackTyped' /\ ContextTyped' /\ MasterTyped'
    BY TypesStay DEF Deploy, outside, master
  <2>3. ctxTrouble' \in BOOLEAN
    BY DEF Deploy
  <2>4. HistoryTyped'
    BY <2>3 DEF Deploy, Typed, HistoryTyped
  <2> QED BY <2>1, <2>2, <2>4 DEF Typed
<1>2. CASE AbortCommand
  <2>1. DeployTyped' /\ MonitorTyped' /\ ContextTyped' /\ MasterTyped'
    BY <1>2, TypesStay DEF AbortCommand, deploy, master
  <2>2. AbortBegin(Main) /\ UNCHANGED <<dying, ctxTrouble>> /\ aborted' = FALSE
    BY <1>2 DEF AbortCommand
  <2>3. AbortTyped' /\ CallbackTyped' /\ HistoryTyped'
    BY <2>2, AbortBeginTyped, ThreadFacts DEF Typed, AbortTyped, HistoryTyped
  <2> QED BY <2>1, <2>3 DEF Typed
<1>3. CASE SetRunLevel
  <2>1. raised' \in BOOLEAN /\ pa' \in BOOLEAN
    BY <1>3, RequestRunLevelTyped DEF SetRunLevel
  <2>2. DeployTyped'
    BY <1>3, BackTyped DEF SetRunLevel
  <2>3. MonitorTyped' /\ AbortTyped' /\ CallbackTyped' /\ ContextTyped'
    BY <1>3, TypesStay DEF SetRunLevel
  <2>4. MasterTyped' /\ HistoryTyped'
    BY <1>3, <2>1 DEF SetRunLevel, Typed, MasterTyped, HistoryTyped
  <2> QED BY <2>2, <2>3, <2>4 DEF Typed
<1>4. CASE Leave
  <2>1. DeployTyped'
    BY <1>4 DEF Leave, Typed, DeployTyped, Places
  <2>2. mon' \in [Monitors -> MonPlaces] /\ monitorThread' = monitorThread
    BY <1>4 DEF Leave, Typed, MonitorTyped, MonPlaces
  <2>3. ab' \in [Threads -> AbPlaces]
    BY <1>4, AbortGotoTyped, TypeParts, ThreadFacts DEF Leave, Typed, AbortTyped, AbPlaces
  <2>4. dying' \subseteq Threads /\ blocked' = blocked
    BY <1>4 DEF Leave, Typed, AbortTyped
  <2>5. CallbackTyped' /\ ContextTyped' /\ MasterTyped' /\ HistoryTyped'
    BY <1>4, TypesStay DEF Leave, outside, master, history
  <2> QED BY <2>1, <2>2, <2>3, <2>4, <2>5 DEF Typed, MonitorTyped, AbortTyped
<1> QED BY <1>1, <1>2, <1>3, <1>4 DEF Command

\* The steps of deployPackage.
LEMMA DeployStepTyped ==
  ASSUME Typed, DeployStep
  PROVE  Typed'
<1>1. CASE DeployExport \/ DeployRegister \/ DeployRegistered
  <2>1. DeployTyped'
    BY <1>1 DEF DeployExport, DeployRegister, DeployRegistered, Back, Typed, DeployTyped, Places
  <2>2. CallbackTyped'
    BY <1>1 DEF DeployExport, DeployRegister, DeployRegistered, Typed, CallbackTyped, outside
  <2>3. MonitorTyped' /\ AbortTyped' /\ ContextTyped' /\ MasterTyped' /\ HistoryTyped'
    BY <1>1, TypesStay
    DEF DeployExport, DeployRegister, DeployRegistered, outside, master, history
  <2> QED BY <2>1, <2>2, <2>3 DEF Typed
<1>2. CASE DeployStatus
  <2>1. DeployTyped'
    BY <1>2 DEF DeployStatus, Back, Typed, DeployTyped, Places
  <2>2. AbortTyped'
    BY <1>2, ThreadFacts DEF DeployStatus, Typed, AbortTyped
  <2>3. MonitorTyped' /\ CallbackTyped' /\ ContextTyped' /\ MasterTyped'
    BY <1>2, TypesStay DEF DeployStatus, outside, master
  <2>4. HistoryTyped'
    BY <1>2 DEF DeployStatus, Typed, HistoryTyped
  <2> QED BY <2>1, <2>2, <2>3, <2>4 DEF Typed
<1>3. CASE DeployTrigger
  <2>1. DeployTyped'
    BY <1>3 DEF DeployTrigger, Back, Typed, DeployTyped, Places
  <2>2. AbortTyped'
    BY <1>3, ThreadFacts DEF DeployTrigger, Typed, AbortTyped
  <2>3. MonitorTyped' /\ CallbackTyped' /\ ContextTyped' /\ HistoryTyped'
    BY <1>3, TypesStay DEF DeployTrigger, history
  <2>4. dm' \in States /\ dmPkg' \in Packages \union {NoPkg}
    BY <1>3 DEF DeployTrigger, Typed, MasterTyped, DeployTyped, States
  <2>5. MasterTyped'
    BY <1>3, <2>4 DEF DeployTrigger, Typed, MasterTyped
  <2> QED BY <2>1, <2>2, <2>3, <2>5 DEF Typed
<1>4. CASE DeployContext
  <2>1. DeployTyped'
    BY <1>4 DEF DeployContext, Typed, DeployTyped, Places
  <2>2. ContextTyped' /\ ctxTrouble' \in BOOLEAN
    BY <1>4, UpdateContextTyped DEF DeployContext, Typed, DeployTyped
  <2>3. MonitorTyped' /\ AbortTyped' /\ CallbackTyped' /\ MasterTyped'
    BY <1>4, TypesStay DEF DeployContext, master
  <2>4. HistoryTyped'
    BY <1>4, <2>2 DEF DeployContext, Typed, HistoryTyped
  <2> QED BY <2>1, <2>2, <2>3, <2>4 DEF Typed
<1>5. CASE DeployMonitor
  <2>1. DeployTyped'
    BY <1>5, BackTyped DEF DeployMonitor
  <2>2. MonitorTyped' /\ AbortTyped'
    <3>1. CASE \E m \in Monitors : NewMonitor(m)
      BY <1>5, <3>1, NewMonitorTyped, TypeParts
      DEF DeployMonitor, Typed, MonitorTyped, AbortTyped, MonPlaces
    <3>2. CASE UNCHANGED <<mon, monitorThread, blocked>>
      BY <1>5, <3>2, TypesStay DEF DeployMonitor
    <3> QED BY <1>5, <3>1, <3>2 DEF DeployMonitor
  <2>3. CallbackTyped' /\ ContextTyped' /\ MasterTyped' /\ HistoryTyped'
    BY <1>5, TypesStay DEF DeployMonitor, outside, master, history
  <2> QED BY <2>1, <2>2, <2>3 DEF Typed
<1> QED BY <1>1, <1>2, <1>3, <1>4, <1>5 DEF DeployStep
\* The process ends.
LEMMA EndTyped ==
  ASSUME Typed, End \/ Crash \/ Interrupt
  PROVE  Typed'
<1>1. Gone
  BY DEF End, Crash, Interrupt
<1>2. tii' \in BOOLEAN /\ cbTrouble' \in BOOLEAN
  BY DEF End, Crash, Interrupt, Deregistered, Typed, CallbackTyped, HistoryTyped
<1>3. ctxTrouble' \in BOOLEAN
  BY DEF End, Crash, Interrupt, Typed, HistoryTyped
<1>4. DeployTyped' /\ MonitorTyped' /\ AbortTyped' /\ CallbackTyped'
  BY <1>1, <1>2, GoneParts
<1>5. ContextTyped' /\ MasterTyped'
  BY TypesStay DEF End, Crash, Interrupt, master
<1>6. HistoryTyped'
  BY <1>2, <1>3 DEF End, Crash, Interrupt, Typed, HistoryTyped
<1> QED BY <1>4, <1>5, <1>6 DEF Typed

\* A monitor's steps.
LEMMA MonitorStepTyped ==
  ASSUME Typed, NEW m \in Monitors, MonitorStep(m) \/ MonitorFails(m)
  PROVE  Typed'
<1> USE DEF MonitorStep, MonitorFails, MonitorSeesEnd, MonitorSeesPending,
            MonitorRequestsRunLevel, MonitorClearsContext
<1>1. DeployTyped' /\ AbortTyped' /\ CallbackTyped'
  BY TypesStay DEF deploy, outside
<1>2. MonitorTyped'
  BY DEF Typed, MonitorTyped, MonPlaces
<1>3. MasterTyped'
  <2>1. CASE MonitorRequestsRunLevel(m)
    <3>1. raised' \in BOOLEAN /\ pa' \in BOOLEAN
      BY <2>1, RequestRunLevelTyped
    <3> QED BY <2>1, <3>1 DEF Typed, MasterTyped
  <2>2. CASE ~MonitorRequestsRunLevel(m)
    BY <2>2, TypesStay DEF outside, master
  <2> QED BY <2>1, <2>2
<1>4. ContextTyped' /\ HistoryTyped'
  <2>1. CASE MonitorClearsContext(m)
    <3>1. ContextTyped' /\ ctxTrouble' \in BOOLEAN
      BY <2>1, UpdateContextTyped
    <3> QED BY <2>1, <3>1 DEF Typed, HistoryTyped
  <2>2. CASE ~MonitorClearsContext(m)
    BY <2>2, TypesStay DEF outside, history
  <2> QED BY <2>1, <2>2
<1> QED BY <1>1, <1>2, <1>3, <1>4 DEF Typed

\* abortDeploy's steps.
LEMMA AbortStepTyped ==
  ASSUME Typed, NEW t \in Threads, AbortStep(t) \/ AbortWaitFails(t)
  PROVE  Typed'
<1>1. CASE AbortStatus(t) \/ AbortWait(t) \/ AbortWaitFails(t)
  <2>1. ab' \in [Threads -> AbPlaces] /\ UNCHANGED <<blocked, dying>>
    BY <1>1, AbortGotoTyped, TypeParts DEF AbortStatus, AbortWait, AbortWaitFails, AbPlaces
  <2>2. AbortTyped'
    BY <2>1 DEF Typed, AbortTyped
  <2>3. DeployTyped' /\ MonitorTyped' /\ CallbackTyped' /\ ContextTyped'
    BY <1>1, TypesStay DEF AbortStatus, AbortWait, AbortWaitFails, deploy, outside
  <2>4. aborting' \in BOOLEAN /\ UNCHANGED <<dm, dmPkg, pa, raised>>
    BY <1>1 DEF AbortStatus, AbortWait, AbortWaitFails, outside, master, Typed, MasterTyped
  <2>5. MasterTyped'
    BY <2>4 DEF Typed, MasterTyped
  <2>6. HistoryTyped'
    BY <1>1 DEF AbortStatus, AbortWait, AbortWaitFails, history, Typed, HistoryTyped
  <2> QED BY <2>2, <2>3, <2>5, <2>6 DEF Typed
<1>2. CASE AbortContext(t)
  <2>1. ab' \in [Threads -> AbPlaces]
    BY <1>2, AbortGotoTyped, TypeParts DEF AbortContext, AbPlaces
  <2>2. AbortTyped'
    BY <1>2, <2>1 DEF AbortContext, Typed, AbortTyped
  <2>3. ContextTyped' /\ ctxTrouble' \in BOOLEAN
    BY <1>2, UpdateContextTyped DEF AbortContext
  <2>4. DeployTyped' /\ MonitorTyped' /\ CallbackTyped' /\ MasterTyped'
    BY <1>2, TypesStay DEF AbortContext, deploy, master
  <2>5. HistoryTyped'
    BY <1>2, <2>3 DEF AbortContext, Typed, HistoryTyped
  <2> QED BY <2>2, <2>3, <2>4, <2>5 DEF Typed
<1>3. CASE AbortJoin(t)
  <2>1. ab' \in [Threads -> AbPlaces]
    BY <1>3, AbortGotoTyped, TypeParts DEF AbortJoin, AbPlaces
  <2>2. AbortTyped'
    BY <1>3, <2>1 DEF AbortJoin, Typed, AbortTyped
  <2>3. MonitorTyped'
    BY <1>3 DEF AbortJoin, Join, Typed, MonitorTyped, MonPlaces
  <2>4. DeployTyped' /\ CallbackTyped' /\ ContextTyped' /\ MasterTyped' /\ HistoryTyped'
    BY <1>3, TypesStay DEF AbortJoin, deploy, outside, master, history
  <2> QED BY <2>2, <2>3, <2>4 DEF Typed
<1>4. CASE AbortRunLevel(t)
  <2>1. raised' \in BOOLEAN /\ pa' \in BOOLEAN
    BY <1>4, RequestRunLevelTyped DEF AbortRunLevel
  <2>2. MasterTyped'
    BY <1>4, <2>1 DEF AbortRunLevel, Typed, MasterTyped
  <2>3. ContextTyped'
    BY <1>4, TypesStay DEF AbortRunLevel
  <2>4. HistoryTyped'
    <3>1. aborted' \in BOOLEAN
      BY <1>4 DEF AbortRunLevel
    <3>2. cbTrouble' \in BOOLEAN
      BY <1>4 DEF AbortRunLevel, Typed, HistoryTyped
    <3> QED BY <1>4, <3>1, <3>2 DEF AbortRunLevel, Typed, HistoryTyped
  <2>5. DeployTyped' /\ MonitorTyped' /\ AbortTyped' /\ CallbackTyped'
    <3>1. CASE t \in dying
      BY <1>4, <3>1, GoneParts DEF AbortRunLevel, Typed, CallbackTyped
    <3>2. CASE t \notin dying
      <4>1. DeployTyped' /\ MonitorTyped' /\ CallbackTyped'
        BY <1>4, <3>2, TypesStay, BackTyped DEF AbortRunLevel
      <4>2. ab' \in [Threads -> AbPlaces]
        BY <1>4, <3>2, AbortGotoTyped, TypeParts DEF AbortRunLevel, AbPlaces
      <4>3. AbortTyped'
        BY <1>4, <3>2, <4>2 DEF AbortRunLevel, Typed, AbortTyped
      <4> QED BY <4>1, <4>3
    <3> QED BY <3>1, <3>2
  <2> QED BY <2>2, <2>3, <2>4, <2>5 DEF Typed
<1> QED BY <1>1, <1>2, <1>3, <1>4 DEF AbortStep

\* SIGQUIT.
LEMMA AbortSignalTyped ==
  ASSUME Typed, NEW t \in Threads, AbortSignal(t)
  PROVE  Typed'
<1>1. /\ ab' \in [Threads -> AbPlaces] /\ blocked' \subseteq Threads
      /\ CallbackTyped' /\ cbTrouble' \in BOOLEAN
  BY AbortBeginTyped DEF AbortSignal
<1>2. AbortTyped'
  BY <1>1 DEF AbortSignal, Typed, AbortTyped
<1>3. DeployTyped'
  BY DEF AbortSignal, Typed, DeployTyped, Places
<1>4. MonitorTyped'
  BY DEF AbortSignal, Typed, MonitorTyped, MonPlaces
<1>5. ContextTyped' /\ MasterTyped'
  BY TypesStay DEF AbortSignal, master
<1>6. ctxTrouble' \in BOOLEAN
  BY DEF AbortSignal
<1>7. HistoryTyped'
  BY <1>1, <1>6 DEF AbortSignal, Typed, HistoryTyped
<1> QED BY <1>1, <1>2, <1>3, <1>4, <1>5, <1>7 DEF Typed

\* DU Master's steps.
LEMMA MasterTypedNext ==
  ASSUME Typed, MasterStep \/ MasterRestarts
  PROVE  Typed'
<1>1. UNCHANGED <<process, exported, tii, ctx, history>>
  BY DEF MasterStep, MasterRestarts, MasterStarts, MasterNeedsRunLevel, MasterEnds, MasterAborts
<1>2. UNCHANGED <<main, pkg, quit, monitorThread, gbRmCbPath, mon, blocked, ab, dying, exported,
                  tii, ctx, ctxTrouble, cbTrouble, aborted>>
  BY <1>1 DEF process, deploy, history
<1>3. /\ DeployTyped' /\ MonitorTyped' /\ AbortTyped' /\ CallbackTyped'
      /\ ContextTyped' /\ HistoryTyped'
  BY <1>2, TypesStay
<1>4. MasterTyped'
  <2>1. CASE MasterStarts
    BY <2>1 DEF MasterStarts, Typed, MasterTyped, States
  <2>2. CASE MasterNeedsRunLevel
    BY <2>2 DEF MasterNeedsRunLevel, Typed, MasterTyped
  <2>3. CASE MasterEnds
    BY <2>3 DEF MasterEnds, MasterGoes, Typed, MasterTyped, States
  <2>4. CASE MasterAborts
    BY <2>4 DEF MasterAborts, MasterGoes, Typed, MasterTyped, States
  <2>5. CASE MasterRestarts
    BY <2>5 DEF MasterRestarts, MasterGoes, Typed, MasterTyped, States
  <2> QED BY <2>1, <2>2, <2>3, <2>4, <2>5 DEF MasterStep
<1> QED BY <1>3, <1>4 DEF Typed

\* The client's types hold initially and every step keeps them.
LEMMA TypeNext ==
  ASSUME ClientTypeOK, [Next]_vars
  PROVE  ClientTypeOK'
<1>1. Typed
  BY TypeParts
<1>2. Typed'
  <2>1. CASE UNCHANGED vars
    BY <1>1, <2>1, TypesStay DEF Typed, vars, process, deploy, outside, master, history
  <2>2. CASE Next
    BY <1>1, <2>2, StartTyped, CommandTyped, DeployStepTyped, EndTyped, MonitorStepTyped,
       AbortStepTyped, AbortSignalTyped, MasterTypedNext DEF Next
  <2> QED BY <2>1, <2>2
<1>3. (Typed <=> ClientTypeOK)'
  BY TypeParts, PTL
<1> QED BY <1>2, <1>3
-----------------------------------------------------------------------------
(* Every step keeps the aborts in their places *)

\* What the invariant says of a process whose main thread is not in an abort.
LEMMA MainFacts ==
  ASSUME AbortsPlaced
  PROVE  /\ main \notin {"prompt", "handler"} => ab[Main] = "none"
         /\ Main \in dying <=> main = "handler"
BY DEF AbortsPlaced

\* A process that is gone has no aborts.
LEMMA GonePlaced ==
  ASSUME Gone
  PROVE  AbortsPlaced'
BY GoneTyped, ThreadFacts DEF AbortsPlaced, NoneRuns, Running

\* Moving main between the prompt and a deployment, with the main thread not in an abort.
LEMMA MainMovesPlaced ==
  ASSUME AbortsPlaced, ab[Main] = "none", main # "handler",
         main' \notin {"handler", "gone"},
         UNCHANGED <<mon, ab, dying>>, blocked \ {Main} \subseteq blocked'
  PROVE  AbortsPlaced'
BY DEF AbortsPlaced

\* A new monitor is not in an abort.
LEMMA NewMonitorPlaced ==
  ASSUME Typed, AbortsPlaced, ab[Main] = "none", main # "handler",
         main' \notin {"handler", "gone"}, UNCHANGED <<ab, dying>>,
         NEW m \in Monitors, ~Running(m), NewMonitor(m)
  PROVE  AbortsPlaced'
<1>1. /\ mon'[m] = "poll" /\ \A k \in Monitors \ {m} : mon'[k] = mon[k]
      /\ blocked \ {m} \subseteq blocked'
  BY NewMonitorTyped, TypeParts
<1>2. mon[m] # "handler"
  BY DEF Running
<1>3. ab[m] = "none" /\ m \notin dying
  BY <1>2 DEF AbortsPlaced
<1>4. \A t \in Threads : ab'[t] # "none" => t \in blocked'
  BY <1>1, <1>3 DEF AbortsPlaced
<1>5. \A k \in Monitors : /\ ab'[k] # "none" <=> mon'[k] = "handler"
                          /\ k \in dying' <=> mon'[k] = "handler"
  BY <1>1, <1>3 DEF AbortsPlaced
<1> QED BY <1>4, <1>5 DEF AbortsPlaced

\* A client that starts is in no abort.
LEMMA StartPlaced ==
  ASSUME Typed, AbortsPlaced, NEW oneShot \in BOOLEAN, Start(oneShot)
  PROVE  AbortsPlaced'
<1>1. main = "gone" /\ ab[Main] = "none" /\ NoneRuns
  BY DEF Start, Alive, AbortsPlaced
<1>2. main' = "prompt" /\ UNCHANGED <<ab, dying>>
  BY DEF Start
<1>3. CASE UNCHANGED <<mon, monitorThread, blocked>>
  BY <1>1, <1>2, <1>3, MainMovesPlaced
<1>4. CASE \E m \in Monitors : NewMonitor(m)
  BY <1>1, <1>2, <1>4, NewMonitorPlaced DEF NoneRuns
<1> QED BY <1>3, <1>4 DEF Start

\* A command begins an abort, or cancels a monitor with the abort it is in.
LEMMA CommandPlaced ==
  ASSUME Typed, AbortsPlaced, Command
  PROVE  AbortsPlaced'
<1>1. Prompt
  BY DEF Command, Deploy, AbortCommand, SetRunLevel, Leave
<1>2. main = "prompt" /\ ab[Main] = "none" /\ Main \notin dying
  BY <1>1, MainFacts DEF Prompt
<1>3. CASE \E p \in Packages, u \in BOOLEAN : Deploy(p, u)
  BY <1>2, <1>3, MainMovesPlaced DEF Deploy
<1>4. CASE AbortCommand
  <2>1. /\ ab'[Main] = "status" /\ \A k \in Threads \ {Main} : ab'[k] = ab[k]
    BY <1>4, AbortGotoTyped, TypeParts, ThreadFacts DEF AbortCommand, AbortBegin
  <2>2. blocked' = blocked \union {Main} /\ UNCHANGED <<main, mon, dying>>
    BY <1>4 DEF AbortCommand, AbortBegin, deploy
  <2> QED BY <1>2, <2>1, <2>2, ThreadFacts DEF AbortsPlaced
<1>5. CASE SetRunLevel
  BY <1>2, <1>5, MainMovesPlaced DEF SetRunLevel, Back
<1>6. CASE Leave
  <2>1. CASE monitorThread \in Monitors /\ Running(monitorThread)
    <3>1. /\ ab'[monitorThread] = "none"
          /\ \A k \in Threads \ {monitorThread} : ab'[k] = ab[k]
      BY <1>6, <2>1, AbortGotoTyped, TypeParts, ThreadFacts DEF Leave
    <3>2. /\ mon'[monitorThread] = "ended" /\ dying' = dying \ {monitorThread}
          /\ \A k \in Monitors \ {monitorThread} : mon'[k] = mon[k]
          /\ main' = "join" /\ blocked' = blocked
      BY <1>6, <2>1 DEF Leave, Typed, MonitorTyped
    <3>3. ab'[Main] = "none" /\ Main \notin dying'
      BY <1>2, <2>1, <3>1, <3>2, ThreadFacts
    <3>4. \A t \in Threads : ab'[t] # "none" => t \in blocked'
      BY <3>1, <3>2 DEF AbortsPlaced
    <3>5. \A k \in Monitors : /\ ab'[k] # "none" <=> mon'[k] = "handler"
                              /\ k \in dying' <=> mon'[k] = "handler"
      BY <3>1, <3>2, ThreadFacts DEF AbortsPlaced
    <3> QED BY <3>2, <3>3, <3>4, <3>5 DEF AbortsPlaced
  <2>2. CASE ~(monitorThread \in Monitors /\ Running(monitorThread))
    BY <1>2, <1>6, <2>2, MainMovesPlaced DEF Leave
  <2> QED BY <2>1, <2>2
<1> QED BY <1>3, <1>4, <1>5, <1>6 DEF Command

\* deployPackage runs outside of aborts of the main thread.
LEMMA DeployStepPlaced ==
  ASSUME Typed, AbortsPlaced, DeployStep
  PROVE  AbortsPlaced'
<1>1. main \in DeployPlaces
  BY DEF DeployStep, DeployExport, DeployRegister, DeployRegistered, DeployStatus,
     DeployTrigger, DeployContext, DeployMonitor, DeployPlaces
<1>2. ab[Main] = "none" /\ main # "handler"
  BY <1>1, MainFacts DEF DeployPlaces
<1>3. main' \notin {"handler", "gone"} /\ UNCHANGED <<ab, dying>>
  BY DEF DeployStep, DeployExport, DeployRegister, DeployRegistered, DeployStatus,
     DeployTrigger, DeployContext, DeployMonitor, Back
<1>4. CASE ~DeployMonitor
  <2>1. UNCHANGED mon /\ blocked \ {Main} \subseteq blocked'
    BY <1>4 DEF DeployStep, DeployExport, DeployRegister, DeployRegistered, DeployStatus,
       DeployTrigger, DeployContext
  <2> QED BY <1>2, <1>3, <2>1, MainMovesPlaced
<1>5. CASE DeployMonitor
  <2>1. CASE \E m \in Monitors : ~Running(m) /\ NewMonitor(m)
    BY <1>2, <1>3, <2>1, NewMonitorPlaced
  <2>2. CASE UNCHANGED <<mon, monitorThread, blocked>>
    BY <1>2, <1>3, <2>2, MainMovesPlaced
  <2> QED BY <1>5, <2>1, <2>2 DEF DeployMonitor
<1> QED BY <1>4, <1>5

\* What a monitor's step changes of the threads.
LEMMA MonitorMoves ==
  ASSUME Typed, NEW m \in Monitors, MonitorStep(m) \/ MonitorFails(m)
  PROVE  /\ mon[m] \in {"poll", "runlevel", "clear"}
         /\ mon'[m] \in {"poll", "runlevel", "clear", "ended"}
         /\ \A k \in Monitors \ {m} : mon'[k] = mon[k]
         /\ UNCHANGED <<main, pkg, quit, monitorThread, gbRmCbPath, blocked, ab, dying,
                        exported, tii, dm, dmPkg, aborting, cbTrouble, aborted>>
<1> USE DEF MonitorStep, MonitorFails, MonitorSeesEnd, MonitorSeesPending,
            MonitorRequestsRunLevel, MonitorClearsContext
<1>1. /\ mon[m] \in {"poll", "runlevel", "clear"}
      /\ \E x \in {"poll", "runlevel", "clear", "ended"} : mon' = [mon EXCEPT ![m] = x]
  OBVIOUS
<1>2. /\ mon'[m] \in {"poll", "runlevel", "clear", "ended"}
      /\ \A k \in Monitors \ {m} : mon'[k] = mon[k]
  BY <1>1 DEF Typed, MonitorTyped
<1>3. UNCHANGED <<main, pkg, quit, monitorThread, gbRmCbPath, blocked, ab, dying,
                  exported, tii, dm, dmPkg, aborting, cbTrouble, aborted>>
  BY DEF deploy, outside, master, history
<1> QED BY <1>1, <1>2, <1>3

\* A monitor that steps is not in an abort.
LEMMA MonitorStepPlaced ==
  ASSUME Typed, AbortsPlaced, NEW m \in Monitors, MonitorStep(m) \/ MonitorFails(m)
  PROVE  AbortsPlaced'
BY MonitorMoves DEF AbortsPlaced, NoneRuns, Running

\* What a step of abortDeploy before its last one changes.
LEMMA AbortMoves ==
  ASSUME Typed, NEW t \in Threads,
         AbortStep(t) \/ AbortWaitFails(t), ~AbortRunLevel(t)
  PROVE  /\ ab[t] \in {"status", "wait", "context", "join"}
         /\ ab'[t] \in {"wait", "context", "join", "runlevel"}
         /\ \A k \in Threads \ {t} : ab'[k] = ab[k]
         /\ UNCHANGED <<main, pkg, quit, monitorThread, gbRmCbPath, blocked, dying,
                        exported, tii, dm, dmPkg, pa, raised, cbTrouble, aborted>>
         /\ \/ UNCHANGED mon
            \/ /\ monitorThread \in Monitors /\ mon[monitorThread] = "ended"
               /\ mon' = [mon EXCEPT ![monitorThread] = "free"]
<1> USE DEF AbortStep, AbortWaitFails, AbortStatus, AbortWait, AbortContext, AbortJoin
<1>1. /\ ab[t] \in {"status", "wait", "context", "join"}
      /\ \E place \in {"wait", "context", "join", "runlevel"} : AbortGoto(t, place)
  OBVIOUS
<1>2. /\ ab'[t] \in {"wait", "context", "join", "runlevel"}
      /\ \A k \in Threads \ {t} : ab'[k] = ab[k]
  BY <1>1, AbortGotoTyped, TypeParts
<1>3. UNCHANGED <<main, pkg, quit, monitorThread, gbRmCbPath, blocked, dying,
                  exported, tii, dm, dmPkg, pa, raised, cbTrouble, aborted>>
  BY DEF deploy, outside, master, history
<1>4. \/ UNCHANGED mon
      \/ /\ monitorThread \in Monitors /\ mon[monitorThread] = "ended"
         /\ mon' = [mon EXCEPT ![monitorThread] = "free"]
  BY DEF Join
<1> QED BY <1>1, <1>2, <1>3, <1>4

\* The main thread comes back from an abort it was not sent into by a signal.
LEMMA AbortReturns ==
  ASSUME Typed, AbortsPlaced, NEW t \in Threads, AbortRunLevel(t), t \notin dying
  PROVE  /\ t = Main /\ main = "prompt" /\ ab[Main] = "runlevel"
         /\ ab'[Main] = "none" /\ \A m \in Monitors : ab'[m] = ab[m]
         /\ main' \in {"prompt", "join"} /\ pkg' = NoPkg
         /\ blocked' = blocked \ {Main}
         /\ UNCHANGED <<quit, monitorThread, gbRmCbPath, mon, dying, exported, cbTrouble>>
<1>1. ab[t] = "runlevel"
  BY DEF AbortRunLevel
<1>2. t \notin Monitors
  BY <1>1 DEF AbortsPlaced
<1>3. t = Main
  BY <1>2 DEF Threads
<1>4. main = "prompt"
  BY <1>1, <1>3 DEF AbortsPlaced
<1>5. ab'[t] = "none" /\ \A k \in Threads \ {t} : ab'[k] = ab[k]
  BY AbortGotoTyped, TypeParts DEF AbortRunLevel
<1>6. /\ main' \in {"prompt", "join"} /\ pkg' = NoPkg
      /\ blocked' = blocked \ {t}
      /\ UNCHANGED <<quit, monitorThread, gbRmCbPath, mon, dying, exported, cbTrouble>>
  BY DEF AbortRunLevel, Back
<1> QED BY <1>1, <1>3, <1>4, <1>5, <1>6, ThreadFacts

\* An abort goes on where it is, or ends.
LEMMA AbortStepPlaced ==
  ASSUME Typed, AbortsPlaced, NEW t \in Threads, AbortStep(t) \/ AbortWaitFails(t)
  PROVE  AbortsPlaced'
<1>1. CASE ~AbortRunLevel(t)
  <2>1. \A k \in Threads : ab'[k] # "none" <=> ab[k] # "none"
    BY <1>1, AbortMoves
  <2>2. \A m \in Monitors : /\ mon'[m] = "handler" <=> mon[m] = "handler"
                            /\ Running(m) <=> mon'[m] \notin {"free", "ended"}
    BY <1>1, AbortMoves DEF Typed, MonitorTyped, Running
  <2>3. UNCHANGED <<main, blocked, dying>>
    BY <1>1, AbortMoves
  <2> QED BY <2>1, <2>2, <2>3, ThreadFacts DEF AbortsPlaced, NoneRuns, Running
<1>2. CASE AbortRunLevel(t) /\ t \in dying
  BY <1>2, GonePlaced DEF AbortRunLevel
<1>3. CASE AbortRunLevel(t) /\ t \notin dying
  BY <1>3, AbortReturns, ThreadFacts DEF AbortsPlaced, Threads
<1> QED BY <1>1, <1>2, <1>3

\* What a SIGQUIT changes of the threads.
LEMMA SignalMoves ==
  ASSUME Typed, AbortsPlaced, NEW t \in Threads, AbortSignal(t)
  PROVE  /\ ab[t] = "none" /\ ab'[t] = "status" /\ \A k \in Threads \ {t} : ab'[k] = ab[k]
         /\ blocked' = blocked \union {t} /\ dying' = dying \union {t}
         /\ main # "gone"
         /\ t = Main => main # "handler" /\ main' = "handler" /\ UNCHANGED mon
         /\ t # Main => /\ t \in Monitors /\ Running(t) /\ main' = main
                        /\ mon'[t] = "handler"
                        /\ \A k \in Monitors \ {t} : mon'[k] = mon[k]
         /\ UNCHANGED <<pkg, quit, monitorThread, ctx, dm, dmPkg, pa, aborting, raised, aborted>>
<1>1. /\ main # "gone" /\ t \notin blocked /\ t \notin dying
      /\ t # Main => Main \in blocked /\ Running(t)
  BY DEF AbortSignal, TakesSignal, Alive
<1>2. ab[t] = "none"
  BY <1>1 DEF AbortsPlaced
<1>3. ab'[t] = "status" /\ \A k \in Threads \ {t} : ab'[k] = ab[k]
  BY AbortGotoTyped, TypeParts DEF AbortSignal, AbortBegin
<1>4. t = Main => main # "handler"
  BY <1>1 DEF AbortsPlaced
<1>5. t # Main => t \in Monitors
  BY DEF Threads
<1>6. blocked' = blocked \union {t} /\ dying' = dying \union {t}
  BY DEF AbortSignal, AbortBegin
<1>7. t = Main => main' = "handler" /\ UNCHANGED mon
  BY DEF AbortSignal
<1>8. t # Main => /\ main' = main /\ mon'[t] = "handler"
                  /\ \A k \in Monitors \ {t} : mon'[k] = mon[k]
  BY <1>5 DEF AbortSignal, Typed, MonitorTyped
<1>9. UNCHANGED <<pkg, quit, monitorThread, ctx, dm, dmPkg, pa, aborting, raised, aborted>>
  BY DEF AbortSignal, master
<1> QED BY <1>1, <1>2, <1>3, <1>4, <1>5, <1>6, <1>7, <1>8, <1>9

\* A SIGQUIT begins an abort on the thread that takes it.
LEMMA AbortSignalPlaced ==
  ASSUME Typed, AbortsPlaced, NEW t \in Threads, AbortSignal(t)
  PROVE  AbortsPlaced'
<1>1. CASE t = Main
  BY <1>1, SignalMoves, ThreadFacts DEF AbortsPlaced
<1>2. CASE t # Main
  BY <1>2, SignalMoves, ThreadFacts DEF AbortsPlaced
<1> QED BY <1>1, <1>2

\* Every step keeps the aborts in their places.
LEMMA PlacedNext ==
  ASSUME Typed, AbortsPlaced, [Next]_vars
  PROVE  AbortsPlaced'
<1>1. CASE UNCHANGED vars
  BY <1>1 DEF vars, process, deploy, AbortsPlaced, NoneRuns, Running
<1>2. CASE MasterStep \/ MasterRestarts
  BY <1>2 DEF MasterStep, MasterRestarts, MasterStarts, MasterNeedsRunLevel, MasterEnds,
     MasterAborts, process, deploy, AbortsPlaced, NoneRuns, Running
<1>3. CASE End \/ Crash \/ Interrupt
  BY <1>3, GonePlaced DEF End, Crash, Interrupt
<1> QED BY <1>1, <1>2, <1>3, StartPlaced, CommandPlaced, DeployStepPlaced, MonitorStepPlaced,
           AbortStepPlaced, AbortSignalPlaced DEF Next
-----------------------------------------------------------------------------
(* Every step keeps track of push_cb *)

\* Taking push_cb off DU TII's list, or finding that it cannot be, is recorded.
LEMMA DeregisteredTracked ==
  ASSUME Typed, CallbackFollowed, Deregistered
  PROVE  /\ ~cbTrouble' => ~tii'
         /\ main = "registered" => UNCHANGED tii
<1> USE DEF CallbackFollowed, CallbackTracked
<1>1. CASE gbRmCbPath
  BY <1>1 DEF Deregistered
<1>2. CASE ~gbRmCbPath
  <2>1. UNCHANGED tii /\ cbTrouble' = (cbTrouble \/ main = "registered")
    BY <1>2 DEF Deregistered
  <2>2. ~cbTrouble /\ main # "registered" => ~tii
    BY <1>2 DEF Typed, CallbackTyped
  <2> QED BY <2>1, <2>2
<1> QED BY <1>1, <1>2

\* A process that is gone keeps no callback that would not show.
LEMMA GoneFollowed ==
  ASSUME Gone, ~cbTrouble' => ~tii', tii' \in BOOLEAN
  PROVE  CallbackFollowed'
BY GoneTyped DEF CallbackFollowed, CallbackTracked

\* A step that leaves the callback alone.
LEMMA FollowedStays ==
  ASSUME CallbackFollowed, UNCHANGED <<gbRmCbPath, exported, tii, cbTrouble>>,
         main' \notin {"export", "register", "registered", "handler", "gone"} \/ main' = main,
         main # "registered" \/ main' = main
  PROVE  CallbackFollowed'
BY DEF CallbackFollowed, CallbackTracked

\* abortDeploy's first steps.
LEMMA BeginFollowed ==
  ASSUME Typed, CallbackFollowed, Deregister,
         main' = main \/ main' = "handler"
  PROVE  CallbackFollowed'
<1>1. ~gbRmCbPath' /\ (exported' = exported \/ gbRmCbPath)
  BY DEF Deregister
<1>2. /\ ~cbTrouble' => ~tii'
      /\ main = "registered" => UNCHANGED tii
  BY DeregisteredTracked DEF Deregister
<1>3. main \in {"register", "registered"} => exported' = exported
  BY <1>1 DEF CallbackFollowed
<1>4. CallbackTracked'
  <2>1. gbRmCbPath' \in BOOLEAN /\ tii' \in BOOLEAN
    BY DeregisterTyped DEF CallbackTyped
  <2> QED BY <1>1, <1>2, <2>1 DEF CallbackTracked
<1> QED BY <1>1, <1>2, <1>3, <1>4 DEF CallbackFollowed

\* deployPackage exports, registers, and then puts the flag up.
LEMMA DeployStepFollowed ==
  ASSUME Typed, CallbackFollowed, DeployStep
  PROVE  CallbackFollowed'
<1>1. CASE DeployExport
  BY <1>1 DEF DeployExport, Back, master, history, CallbackFollowed, CallbackTracked,
     Typed, DeployTyped
<1>2. CASE DeployRegister
  BY <1>2 DEF DeployRegister, Back, master, history, CallbackFollowed, CallbackTracked,
     Typed, DeployTyped
<1>3. CASE DeployRegistered
  <2>1. tii /\ exported
    BY <1>3 DEF DeployRegistered, CallbackFollowed
  <2>2. gbRmCbPath' = TRUE /\ main' = "status" /\ UNCHANGED <<tii, exported>>
    BY <1>3 DEF DeployRegistered, outside
  <2> QED BY <2>1, <2>2 DEF CallbackFollowed, CallbackTracked, Typed, CallbackTyped
<1>4. CASE DeployStatus \/ DeployTrigger \/ DeployContext \/ DeployMonitor
  <2>1. UNCHANGED <<gbRmCbPath, exported, tii, cbTrouble>>
    BY <1>4 DEF DeployStatus, DeployTrigger, DeployContext, DeployMonitor, outside, history
  <2>2. /\ main # "registered"
        /\ main' \notin {"export", "register", "registered", "handler", "gone"}
    BY <1>4 DEF DeployStatus, DeployTrigger, DeployContext, DeployMonitor, Back
  <2> QED BY <2>1, <2>2, FollowedStays
<1> QED BY <1>1, <1>2, <1>3, <1>4 DEF DeployStep

\* The commands; an abort takes the flag down.
LEMMA CommandFollowed ==
  ASSUME Typed, CallbackFollowed, Command
  PROVE  CallbackFollowed'
<1>1. CASE \E p \in Packages, u \in BOOLEAN : Deploy(p, u)
  <2> PICK p \in Packages, u \in BOOLEAN : Deploy(p, u)
    BY <1>1
  <2>1. main = "prompt" /\ UNCHANGED <<gbRmCbPath, exported, tii, cbTrouble>>
    BY DEF Deploy, Prompt, outside
  <2>2. main' = "status" \/ (main' = "export" /\ ~gbRmCbPath)
    BY DEF Deploy
  <2> QED BY <2>1, <2>2 DEF CallbackFollowed, CallbackTracked
<1>2. CASE AbortCommand
  BY <1>2, BeginFollowed DEF AbortCommand, AbortBegin, deploy
<1>3. CASE SetRunLevel \/ Leave
  <2>1. main' \in {"prompt", "join"} /\ main = "prompt"
    BY <1>3 DEF SetRunLevel, Leave, Prompt, Back
  <2>2. UNCHANGED <<gbRmCbPath, exported, tii, cbTrouble>>
    BY <1>3 DEF SetRunLevel, Leave, outside, history
  <2> QED BY <2>1, <2>2, FollowedStays
<1> QED BY <1>1, <1>2, <1>3 DEF Command

\* The process starts and ends.
LEMMA ProcessFollowed ==
  ASSUME Typed, CallbackFollowed,
         (\E oneShot \in BOOLEAN : Start(oneShot)) \/ End \/ Crash \/ Interrupt
  PROVE  CallbackFollowed'
<1>1. CASE \E oneShot \in BOOLEAN : Start(oneShot)
  <2>1. /\ main = "gone" /\ main' = "prompt" /\ cbTrouble' = (cbTrouble /\ tii)
        /\ UNCHANGED <<gbRmCbPath, exported, tii>>
    BY <1>1 DEF Start, Alive, outside
  <2> QED BY <2>1 DEF CallbackFollowed, CallbackTracked, Typed, CallbackTyped
<1>2. CASE End \/ Interrupt
  <2>1. Gone /\ Deregistered
    BY <1>2 DEF End, Interrupt
  <2>2. tii' \in BOOLEAN
    BY <2>1 DEF Deregistered, Typed, CallbackTyped
  <2> QED BY <2>1, <2>2, DeregisteredTracked, GoneFollowed
<1>3. CASE Crash
  <2>1. Gone /\ cbTrouble' = (cbTrouble \/ tii) /\ UNCHANGED tii
    BY <1>3 DEF Crash
  <2> QED BY <2>1, GoneFollowed DEF Typed, CallbackTyped
<1> QED BY <1>1, <1>2, <1>3

\* An abort leaves the callback alone after its beginning, or ends the process.
LEMMA AbortStepFollowed ==
  ASSUME Typed, AbortsPlaced, CallbackFollowed, NEW t \in Threads,
         AbortStep(t) \/ AbortWaitFails(t)
  PROVE  CallbackFollowed'
<1>1. CASE ~AbortRunLevel(t)
  BY <1>1, AbortMoves, FollowedStays
<1>2. CASE AbortRunLevel(t) /\ t \in dying
  <2>1. Gone /\ cbTrouble' = (cbTrouble \/ (t # Main /\ tii)) /\ UNCHANGED tii
    BY <1>2 DEF AbortRunLevel
  <2>2. t = Main => main = "handler"
    BY <1>2 DEF AbortsPlaced
  <2>3. ~cbTrouble /\ t = Main => ~tii
    BY <2>2 DEF CallbackFollowed, CallbackTracked
  <2>4. ~cbTrouble' => ~tii'
    BY <2>1, <2>3
  <2> QED BY <2>1, <2>4, GoneFollowed DEF Typed, CallbackTyped
<1>3. CASE AbortRunLevel(t) /\ t \notin dying
  <2>1. UNCHANGED tii
    BY <1>3 DEF AbortRunLevel
  <2> QED BY <1>3, <2>1, AbortReturns, FollowedStays
<1> QED BY <1>1, <1>2, <1>3

\* Every step keeps track of push_cb.
LEMMA FollowedNext ==
  ASSUME Typed, AbortsPlaced, CallbackFollowed, [Next]_vars
  PROVE  CallbackFollowed'
<1>1. CASE UNCHANGED vars
  BY <1>1, FollowedStays DEF vars, process, deploy, outside, history
<1>2. CASE MasterStep \/ MasterRestarts
  <2>1. UNCHANGED <<process, exported, tii, history>>
    BY <1>2 DEF MasterStep, MasterRestarts, MasterStarts, MasterNeedsRunLevel, MasterEnds,
       MasterAborts
  <2> QED BY <2>1, FollowedStays DEF process, deploy, history
<1>3. CASE \E m \in Monitors : MonitorStep(m) \/ MonitorFails(m)
  BY <1>3, MonitorMoves, FollowedStays
<1>4. ASSUME NEW t \in Threads, AbortSignal(t)
      PROVE  CallbackFollowed'
  BY <1>4, SignalMoves, BeginFollowed DEF AbortSignal, AbortBegin
<1> QED BY <1>1, <1>2, <1>3, <1>4, DeployStepFollowed, CommandFollowed, ProcessFollowed,
           AbortStepFollowed DEF Next
-----------------------------------------------------------------------------
(* Every step keeps one monitor *)

\* A thread in an abort is a monitor that runs, or the main thread.
LEMMA NoneRunsNoneAborts ==
  ASSUME AbortsPlaced, NoneRuns, ab[Main] = "none"
  PROVE  \A t \in Threads : ab[t] = "none"
BY DEF AbortsPlaced, NoneRuns, Running, Threads

\* A deployment that began in time is alone.
LEMMA DeployAlone ==
  ASSUME AbortsPlaced, OneMonitor, ~ctxTrouble, main \in DeployPlaces
  PROVE  NoneRuns /\ \A t \in Threads : ab[t] = "none"
<1>1. NoneRuns
  BY DEF OneMonitor
<1>2. ab[Main] = "none"
  BY MainFacts DEF DeployPlaces
<1> QED BY <1>1, <1>2, NoneRunsNoneAborts

\* Only a deployment forgets that the context and the update parted.
LEMMA TroubleLasts ==
  ASSUME [Next]_vars, ~(\E p \in Packages, u \in BOOLEAN : Deploy(p, u)), ctxTrouble
  PROVE  ctxTrouble'
<1>1. CASE UNCHANGED vars
  BY <1>1 DEF vars, history
<1>2. CASE \E oneShot \in BOOLEAN : Start(oneShot)
  BY <1>2 DEF Start
<1>3. CASE Command
  BY <1>3 DEF Command, AbortCommand, SetRunLevel, Leave, history
<1>4. CASE DeployStep
  BY <1>4 DEF DeployStep, DeployExport, DeployRegister, DeployRegistered, DeployStatus,
     DeployTrigger, DeployContext, DeployMonitor, UpdateContext, history
<1>5. CASE End \/ Crash \/ Interrupt
  BY <1>5 DEF End, Crash, Interrupt
<1>6. CASE \E m \in Monitors : MonitorStep(m) \/ MonitorFails(m)
  BY <1>6 DEF MonitorStep, MonitorFails, MonitorSeesEnd, MonitorSeesPending,
     MonitorRequestsRunLevel, MonitorClearsContext, UpdateContext, history
<1>7. CASE \E t \in Threads : AbortStep(t) \/ AbortWaitFails(t) \/ AbortSignal(t)
  BY <1>7 DEF AbortStep, AbortWaitFails, AbortSignal, AbortStatus, AbortWait, AbortContext,
     AbortJoin, AbortRunLevel, UpdateContext, history
<1>8. CASE MasterStep \/ MasterRestarts
  BY <1>8 DEF MasterStep, MasterRestarts, MasterStarts, MasterNeedsRunLevel, MasterEnds,
     MasterAborts, history
<1> QED BY <1>1, <1>2, <1>3, <1>4, <1>5, <1>6, <1>7, <1>8 DEF Next

\* The monitor created last is the only one.
LEMMA NewMonitorAlone ==
  ASSUME Typed, NoneRuns, NEW m \in Monitors, NewMonitor(m)
  PROVE  \A k \in Monitors : mon'[k] \notin {"free", "ended"} => k = monitorThread'
BY NewMonitorTyped, TypeParts DEF NoneRuns, Running

\* Fewer monitors, and no new deployment.
LEMMA FewerMonitors ==
  ASSUME OneMonitor, ctxTrouble => ctxTrouble', monitorThread' = monitorThread,
         \A m \in Monitors : mon'[m] \notin {"free", "ended"} => Running(m),
         main' \in DeployPlaces => main \in DeployPlaces,
         ab'[Main] = "runlevel" => ab[Main] = "runlevel"
  PROVE  OneMonitor'
BY DEF OneMonitor, NoneRuns, Running

\* abortDeploy waits for the only monitor.
LEMMA JoinedNoneRuns ==
  ASSUME Typed, OneMonitor, ~ctxTrouble, ab[Main] = "join", AbortJoin(Main)
  PROVE  NoneRuns'
<1>1. \A m \in Monitors : Running(m) => m = monitorThread
  BY DEF OneMonitor
<1>2. monitorThread \in Monitors => ~Running(monitorThread)
  BY ThreadFacts DEF AbortJoin, Join, Running
<1>3. NoneRuns
  BY <1>1, <1>2 DEF NoneRuns
<1> QED BY <1>3 DEF AbortJoin, Join, NoneRuns, Running, Typed, MonitorTyped

\* Every step keeps at most one monitor, unless a deployment began too early.
LEMMA OneNext ==
  ASSUME Typed, AbortsPlaced, OneMonitor, [Next]_vars
  PROVE  OneMonitor'
<1>1. CASE UNCHANGED vars
  BY <1>1 DEF vars, process, deploy, history, OneMonitor, NoneRuns, Running
<1>2. CASE MasterStep \/ MasterRestarts
  <2>1. UNCHANGED <<process, history>>
    BY <1>2 DEF MasterStep, MasterRestarts, MasterStarts, MasterNeedsRunLevel, MasterEnds,
       MasterAborts
  <2> QED BY <2>1 DEF process, deploy, history, OneMonitor, NoneRuns, Running
<1>3. ASSUME Gone
      PROVE  OneMonitor'
  BY <1>3, GoneTyped, ThreadFacts DEF OneMonitor, NoneRuns, Running, DeployPlaces
<1>4. CASE End \/ Crash \/ Interrupt
  BY <1>3, <1>4 DEF End, Crash, Interrupt
<1>5. CASE \E oneShot \in BOOLEAN : Start(oneShot)
  <2> PICK oneShot \in BOOLEAN : Start(oneShot)
    BY <1>5
  <2>1. main = "gone" /\ main' = "prompt" /\ UNCHANGED ab
    BY DEF Start, Alive
  <2>2. NoneRuns /\ ab[Main] = "none"
    BY <2>1 DEF AbortsPlaced
  <2>3. \A k \in Monitors : mon'[k] \notin {"free", "ended"} => k = monitorThread'
    BY <2>2, NewMonitorAlone DEF Start, NoneRuns, Running
  <2> QED BY <2>1, <2>2, <2>3 DEF OneMonitor, Running, DeployPlaces
<1>6. CASE \E p \in Packages, u \in BOOLEAN : Deploy(p, u)
  <2>1. ~ctxTrouble' => NoneRuns /\ UNCHANGED <<mon, ab, monitorThread>>
    BY <1>6 DEF Deploy, NoneRuns
  <2> QED BY <2>1 DEF OneMonitor, NoneRuns, Running
<1>7. CASE AbortCommand
  <2>1. ab'[Main] = "status" /\ UNCHANGED <<main, mon, monitorThread, ctxTrouble>>
    BY <1>7, AbortGotoTyped, TypeParts, ThreadFacts DEF AbortCommand, AbortBegin, deploy
  <2> QED BY <2>1, FewerMonitors DEF Running
<1>8. CASE SetRunLevel
  <2>1. /\ UNCHANGED <<ab, mon, monitorThread, ctxTrouble>>
        /\ main' \notin DeployPlaces
    BY <1>8 DEF SetRunLevel, Back, DeployPlaces
  <2> QED BY <2>1, FewerMonitors DEF Running
<1>9. CASE Leave
  <2>1. /\ UNCHANGED <<monitorThread, ctxTrouble>> /\ main' \notin DeployPlaces
        /\ \A m \in Monitors : mon'[m] \notin {"free", "ended"} => Running(m)
    BY <1>9 DEF Leave, history, DeployPlaces, Running, Typed, MonitorTyped
  <2>2. ab'[Main] = ab[Main]
    BY <1>9, AbortGotoTyped, TypeParts, ThreadFacts DEF Leave
  <2> QED BY <2>1, <2>2, FewerMonitors
<1>10. CASE DeployStep
  <2>1. main \in DeployPlaces /\ UNCHANGED ab
    BY <1>10 DEF DeployStep, DeployExport, DeployRegister, DeployRegistered, DeployStatus,
       DeployTrigger, DeployContext, DeployMonitor, DeployPlaces
  <2>2. ctxTrouble => ctxTrouble'
    BY <1>10, TroubleLasts, <2>1 DEF Deploy, Prompt, DeployPlaces
  <2>3. CASE ~DeployMonitor
    <3>1. UNCHANGED <<mon, monitorThread>>
      BY <1>10, <2>3 DEF DeployStep, DeployExport, DeployRegister, DeployRegistered,
         DeployStatus, DeployTrigger, DeployContext
    <3> QED BY <2>1, <2>2, <3>1, FewerMonitors DEF Running
  <2>4. CASE DeployMonitor
    <3>1. main' \notin DeployPlaces
      BY <2>4 DEF DeployMonitor, Back, DeployPlaces
    <3>2. ~ctxTrouble => NoneRuns /\ ab[Main] = "none"
      BY <2>1, DeployAlone, ThreadFacts
    <3>3. ~ctxTrouble => \A k \in Monitors : mon'[k] \notin {"free", "ended"} => k = monitorThread'
      BY <2>4, <3>2, NewMonitorAlone DEF DeployMonitor, NoneRuns, Running
    <3> QED BY <2>1, <2>2, <3>1, <3>2, <3>3 DEF OneMonitor, Running
  <2> QED BY <2>3, <2>4
<1>11. ASSUME NEW m \in Monitors, MonitorStep(m) \/ MonitorFails(m)
       PROVE  OneMonitor'
  <2>1. ctxTrouble => ctxTrouble'
    BY <1>11 DEF MonitorStep, MonitorFails, MonitorSeesEnd, MonitorSeesPending,
       MonitorRequestsRunLevel, MonitorClearsContext, UpdateContext, history
  <2> QED BY <1>11, <2>1, MonitorMoves, FewerMonitors DEF Running
<1>12. ASSUME NEW t \in Threads, AbortStep(t) \/ AbortWaitFails(t)
       PROVE  OneMonitor'
  <2>1. ctxTrouble => ctxTrouble'
    BY <1>12 DEF AbortStep, AbortWaitFails, AbortStatus, AbortWait, AbortContext,
       AbortJoin, AbortRunLevel, UpdateContext, history
  <2>2. CASE AbortRunLevel(t) /\ t \in dying
    BY <1>3, <2>2 DEF AbortRunLevel
  <2>3. CASE AbortRunLevel(t) /\ t \notin dying
    <3>1. main' \notin DeployPlaces /\ ab'[Main] # "runlevel" /\ UNCHANGED <<mon, monitorThread>>
      BY <2>3, AbortReturns DEF DeployPlaces
    <3> QED BY <2>1, <3>1, FewerMonitors DEF Running
  <2>4. CASE ~AbortRunLevel(t)
    <3>1. /\ UNCHANGED <<main, monitorThread>>
          /\ \A m \in Monitors : mon'[m] \notin {"free", "ended"} => Running(m)
      BY <1>12, <2>4, AbortMoves DEF Typed, MonitorTyped, Running
    <3>2. CASE ab'[Main] = "runlevel" => ab[Main] = "runlevel"
      BY <2>1, <3>1, <3>2, FewerMonitors
    <3>3. CASE ab'[Main] = "runlevel" /\ ab[Main] # "runlevel"
      <4>1. t = Main
        BY <1>12, <2>4, <3>3, AbortMoves, ThreadFacts
      <4>2. AbortJoin(Main) /\ ab[Main] = "join"
        BY <1>12, <2>4, <3>3, <4>1, AbortGotoTyped, TypeParts
        DEF AbortStep, AbortWaitFails, AbortStatus, AbortWait, AbortContext, AbortJoin
      <4>3. ~ctxTrouble => NoneRuns'
        BY <4>2, JoinedNoneRuns
      <4> QED BY <2>1, <4>3 DEF OneMonitor, NoneRuns, Running
    <3> QED BY <3>2, <3>3
  <2> QED BY <2>2, <2>3, <2>4
<1>13. ASSUME NEW t \in Threads, AbortSignal(t)
       PROVE  OneMonitor'
  <2>1. ctxTrouble => ctxTrouble'
    BY <1>13 DEF AbortSignal
  <2>2. CASE t = Main
    BY <1>13, <2>1, <2>2, SignalMoves, FewerMonitors DEF DeployPlaces, Running
  <2>3. CASE t # Main
    <3>1. /\ t \in Monitors /\ Running(t) /\ UNCHANGED <<main, monitorThread>>
          /\ \A m \in Monitors : mon'[m] \notin {"free", "ended"} => Running(m)
      BY <1>13, <2>3, SignalMoves DEF Running
    <3>2. ab'[Main] = ab[Main]
      BY <1>13, <2>3, SignalMoves, ThreadFacts
    <3> QED BY <2>1, <3>1, <3>2, FewerMonitors
  <2> QED BY <2>2, <2>3
<1> QED BY <1>1, <1>2, <1>4, <1>5, <1>6, <1>7, <1>8, <1>9, <1>10, <1>11, <1>12, <1>13
        DEF Next, Command
-----------------------------------------------------------------------------
(* Every step lets the context follow the update *)

\* A deployment that begins in time finds nobody in an abort.
LEMMA DeployFindsNone ==
  ASSUME Typed, AbortsPlaced, NEW p \in Packages, NEW u \in BOOLEAN, Deploy(p, u), ~ctxTrouble'
  PROVE  /\ NoneRuns /\ \A t \in Threads : ab[t] = "none"
         /\ ~ctxTrouble \/ ~Updating
<1>1. NoneRuns /\ (~ctxTrouble \/ ~Updating)
  BY DEF Deploy, NoneRuns
<1> QED BY <1>1, NoneRunsNoneAborts DEF Deploy, Prompt

\* A step that leaves the update and the context alone and sends nobody to clear it.
LEMMA ContextStays ==
  ASSUME ContextFollows, ctxTrouble => ctxTrouble', UNCHANGED <<dm, dmPkg, ctx>>,
         main # "context" \/ ctxTrouble' \/ (main' = "context" /\ pkg' = pkg),
         main' # "context" \/ ctxTrouble' \/ (main = "context" /\ pkg' = pkg),
         \A m \in Monitors : mon'[m] = "clear" => mon[m] = "clear",
         \A t \in Threads : ab'[t] \in {"context", "join", "runlevel"} => ab'[t] = ab[t]
  PROVE  ContextFollows'
BY DEF ContextFollows, ContextNamesUpdate, Updating

\* When no update runs, only an abort has to keep the context empty.
LEMMA ContextFree ==
  ASSUME ~Updating', \A t \in Threads : ab'[t] \in {"join", "runlevel"} => ctx' = NoPkg
  PROVE  ContextFollows'
BY DEF ContextFollows, ContextNamesUpdate, Updating

\* deployPackage triggers the update, then writes the context, alone.
LEMMA DeployStepContext ==
  ASSUME Typed, AbortsPlaced, OneMonitor, ContextFollows, DeployStep
  PROVE  ContextFollows'
<1>1. main \in DeployPlaces /\ UNCHANGED ab
  BY DEF DeployStep, DeployExport, DeployRegister, DeployRegistered, DeployStatus,
     DeployTrigger, DeployContext, DeployMonitor, DeployPlaces
<1>2. ctxTrouble => ctxTrouble'
  BY DEF DeployStep, DeployExport, DeployRegister, DeployRegistered, DeployStatus,
     DeployTrigger, DeployContext, DeployMonitor, UpdateContext, history
<1>3. ~ctxTrouble => NoneRuns /\ \A t \in Threads : ab[t] = "none"
  BY <1>1, DeployAlone
<1>4. CASE DeployExport \/ DeployRegister \/ DeployRegistered
  <2>1. UNCHANGED <<dm, dmPkg, ctx, mon>> /\ main # "context" /\ main' # "context"
    BY <1>4 DEF DeployExport, DeployRegister, DeployRegistered, Back, outside, master
  <2> QED BY <1>1, <1>2, <2>1, ContextStays
<1>5. CASE DeployStatus
  <2>1. /\ UNCHANGED <<dm, dmPkg, ctx, mon>> /\ main # "context"
        /\ main' # "context" \/ ctxTrouble'
    BY <1>5 DEF DeployStatus, Back, outside, master
  <2> QED BY <1>1, <1>2, <2>1, ContextStays
<1>6. CASE DeployTrigger
  <2>1. CASE dm' = "UPDATE_AVAILABLE" /\ dmPkg' = pkg /\ main' = "context" /\ pkg' = pkg
    <3>1. UNCHANGED <<mon, ctx, ctxTrouble>>
      BY <1>6 DEF DeployTrigger, history
    <3> QED BY <1>1, <1>3, <2>1, <3>1
        DEF ContextFollows, ContextNamesUpdate, NoneRuns, Running
  <2>2. CASE Back /\ UNCHANGED <<dm, dmPkg, blocked>>
    <3>1. UNCHANGED <<mon, ctx>> /\ main # "context" /\ main' # "context"
      BY <1>6, <2>2 DEF DeployTrigger, Back
    <3> QED BY <1>1, <1>2, <2>2, <3>1, ContextStays
  <2> QED BY <1>6, <2>1, <2>2 DEF DeployTrigger
<1>7. CASE DeployContext
  <2>1. main = "context" /\ main' = "monitor" /\ UNCHANGED <<dm, dmPkg, mon>>
    BY <1>7 DEF DeployContext, master
  <2>2. (ctx' = pkg /\ UNCHANGED ctxTrouble) \/ ctxTrouble'
    BY <1>7 DEF DeployContext, UpdateContext
  <2> QED BY <1>1, <1>2, <1>3, <2>1, <2>2
      DEF ContextFollows, ContextNamesUpdate, Updating, NoneRuns, Running
<1>8. CASE DeployMonitor
  <2>1. UNCHANGED <<dm, dmPkg, ctx>> /\ main # "context" /\ main' # "context"
    BY <1>8 DEF DeployMonitor, Back, outside, master
  <2>2. \A m \in Monitors : mon'[m] = "clear" => mon[m] = "clear"
    BY <1>8, NewMonitorTyped, TypeParts DEF DeployMonitor
  <2> QED BY <1>1, <1>2, <2>1, <2>2, ContextStays
<1> QED BY <1>4, <1>5, <1>6, <1>7, <1>8 DEF DeployStep

\* The commands leave the context alone.
LEMMA CommandContext ==
  ASSUME Typed, AbortsPlaced, ContextFollows, Command
  PROVE  ContextFollows'
<1>1. main = "prompt" /\ ab[Main] = "none"
  BY DEF Command, Deploy, AbortCommand, SetRunLevel, Leave, Prompt
<1>2. CASE \E p \in Packages, u \in BOOLEAN : Deploy(p, u)
  <2> PICK p \in Packages, u \in BOOLEAN : Deploy(p, u)
    BY <1>2
  <2>1. main' # "context" /\ UNCHANGED <<mon, ab, dm, dmPkg, ctx>>
    BY DEF Deploy, outside, master
  <2>2. CASE ctxTrouble'
    BY <2>2 DEF ContextFollows, ContextNamesUpdate
  <2>3. CASE ~ctxTrouble' /\ ~ctxTrouble
    BY <1>1, <2>1, <2>3, ContextStays
  <2>4. CASE ~ctxTrouble' /\ ctxTrouble
    BY <2>1, <2>4, DeployFindsNone, ContextFree DEF Updating
  <2> QED BY <2>2, <2>3, <2>4
<1>3. CASE AbortCommand
  <2>1. /\ ab'[Main] = "status" /\ \A k \in Threads \ {Main} : ab'[k] = ab[k]
        /\ UNCHANGED <<main, mon, dm, dmPkg, ctx, ctxTrouble>>
    BY <1>3, AbortGotoTyped, TypeParts, ThreadFacts
    DEF AbortCommand, AbortBegin, deploy, master
  <2>2. \A t \in Threads : ab'[t] \in {"context", "join", "runlevel"} => ab'[t] = ab[t]
    BY <2>1
  <2> QED BY <1>1, <2>1, <2>2, ContextStays
<1>4. CASE SetRunLevel
  <2>1. UNCHANGED <<mon, ab, dm, dmPkg, ctx, ctxTrouble>> /\ main' # "context"
    BY <1>4 DEF SetRunLevel, Back
  <2> QED BY <1>1, <2>1, ContextStays
<1>5. CASE Leave
  <2>1. /\ UNCHANGED <<dm, dmPkg, ctx, ctxTrouble>> /\ main' # "context"
        /\ \A m \in Monitors : mon'[m] = "clear" => mon[m] = "clear"
    BY <1>5 DEF Leave, history, outside, master, Typed, MonitorTyped
  <2>2. \A t \in Threads : ab'[t] \in {"context", "join", "runlevel"} => ab'[t] = ab[t]
    BY <1>5, AbortGotoTyped, TypeParts, ThreadFacts DEF Leave
  <2> QED BY <1>1, <2>1, <2>2, ContextStays
<1> QED BY <1>2, <1>3, <1>4, <1>5 DEF Command

\* A monitor clears the context when it has seen the update end.
LEMMA MonitorStepContext ==
  ASSUME Typed, ContextFollows, NEW m \in Monitors, MonitorStep(m) \/ MonitorFails(m)
  PROVE  ContextFollows'
<1>1. ctxTrouble => ctxTrouble'
  BY DEF MonitorStep, MonitorFails, MonitorSeesEnd, MonitorSeesPending,
     MonitorRequestsRunLevel, MonitorClearsContext, UpdateContext, history
<1>2. /\ UNCHANGED <<main, pkg, ab, dm, dmPkg>>
      /\ \A k \in Monitors \ {m} : mon'[k] = mon[k]
  BY MonitorMoves
<1>3. CASE MonitorClearsContext(m)
  <2>1. CASE ctxTrouble'
    BY <2>1 DEF ContextFollows, ContextNamesUpdate
  <2>2. CASE ~ctxTrouble'
    <3>1. ~Updating
      BY <1>1, <1>3, <2>2 DEF MonitorClearsContext, ContextFollows
    <3>2. ctx' = NoPkg
      BY <1>3, <2>2 DEF MonitorClearsContext, UpdateContext
    <3> QED BY <1>2, <3>1, <3>2, ContextFree DEF Updating
  <2> QED BY <2>1, <2>2
<1>4. CASE MonitorSeesEnd(m)
  <2>1. ~Updating /\ UNCHANGED <<ctx, ctxTrouble>>
    BY <1>4 DEF MonitorSeesEnd, Ended, Updating, outside, history
  <2> QED BY <1>2, <2>1, ContextFree DEF ContextFollows, ContextNamesUpdate, Updating
<1>5. CASE MonitorSeesPending(m) \/ MonitorRequestsRunLevel(m) \/ MonitorFails(m)
  <2>1. UNCHANGED ctx /\ mon'[m] # "clear"
    BY <1>5 DEF MonitorSeesPending, MonitorRequestsRunLevel, MonitorFails, outside, Typed,
       MonitorTyped
  <2> QED BY <1>1, <1>2, <2>1, ContextStays
<1> QED BY <1>3, <1>4, <1>5 DEF MonitorStep

\* An abort clears the context when it has seen the update end.
LEMMA AbortStepContext ==
  ASSUME Typed, AbortsPlaced, OneMonitor, ContextFollows, NEW t \in Threads,
         AbortStep(t) \/ AbortWaitFails(t), ~AbortRunLevel(t)
  PROVE  ContextFollows'
<1>1. ctxTrouble => ctxTrouble'
  BY DEF AbortStep, AbortWaitFails, AbortStatus, AbortWait, AbortContext,
     AbortJoin, AbortRunLevel, UpdateContext, history
<1>2. /\ UNCHANGED <<main, pkg, dm, dmPkg>>
      /\ \A m \in Monitors : mon'[m] = "clear" => mon[m] = "clear"
  BY AbortMoves DEF Typed, MonitorTyped
<1>3. \A k \in Threads \ {t} : ab'[k] = ab[k]
  BY AbortMoves
<1>4. CASE ctxTrouble'
  BY <1>4 DEF ContextFollows, ContextNamesUpdate
<1>5. CASE ~ctxTrouble' /\ (AbortStatus(t) \/ AbortWait(t) \/ AbortWaitFails(t))
  <2>1. UNCHANGED ctx
    BY <1>5 DEF AbortStatus, AbortWait, AbortWaitFails, outside
  <2>2. ab'[t] = "wait" \/ (ab'[t] = "context" /\ ~Updating)
    BY <1>5, AbortGotoTyped, TypeParts
    DEF AbortStatus, AbortWait, AbortWaitFails, Updating
  <2>3. CASE ab'[t] = "wait"
    <3>1. \A k \in Threads : ab'[k] \in {"context", "join", "runlevel"} => ab'[k] = ab[k]
      BY <1>3, <2>3
    <3> QED BY <1>1, <1>2, <2>1, <3>1, ContextStays
  <2>4. CASE ab'[t] = "context" /\ ~Updating
    <3>1. \A k \in Threads : ab'[k] \in {"join", "runlevel"} => ctx' = NoPkg
      BY <1>1, <1>3, <1>5, <2>1, <2>4 DEF ContextFollows
    <3> QED BY <1>2, <2>4, <3>1, ContextFree DEF Updating
  <2> QED BY <2>2, <2>3, <2>4
<1>6. CASE ~ctxTrouble' /\ (AbortContext(t) \/ AbortJoin(t))
  <2>1. ab[t] \in {"context", "join"}
    BY <1>6 DEF AbortContext, AbortJoin
  <2>2. ~Updating
    BY <1>1, <1>6, <2>1 DEF ContextFollows
  <2>3. CASE AbortContext(t)
    <3>1. ctx' = NoPkg
      BY <1>6, <2>3 DEF AbortContext, UpdateContext
    <3> QED BY <1>2, <2>2, <3>1, ContextFree DEF Updating
  <2>4. CASE AbortJoin(t)
    <3>1. ctx' = ctx /\ ctx = NoPkg
      BY <1>1, <1>6, <2>4 DEF AbortJoin, outside, ContextFollows
    <3> QED BY <1>2, <2>2, <3>1, ContextFree DEF Updating
  <2> QED BY <1>6, <2>3, <2>4
<1> QED BY <1>4, <1>5, <1>6 DEF AbortStep

\* A process that is gone leaves a context that names the update, unless it went in
\* between.
LEMMA GoneContext ==
  ASSUME ContextFollows, Gone, UNCHANGED <<dm, dmPkg, ctx>>, ctxTrouble => ctxTrouble',
         main # "context" \/ ctxTrouble'
  PROVE  ContextFollows'
<1>1. /\ main' = "gone" /\ \A m \in Monitors : mon'[m] = "free"
      /\ \A t \in Threads : ab'[t] = "none"
  BY GoneTyped
<1> QED BY <1>1, ContextStays

\* Every step lets the context follow the update.
LEMMA ContextNext ==
  ASSUME Typed, AbortsPlaced, OneMonitor, ContextFollows, [Next]_vars
  PROVE  ContextFollows'
<1>1. CASE UNCHANGED vars
  BY <1>1 DEF vars, process, deploy, outside, master, history, ContextFollows,
     ContextNamesUpdate, Updating
<1>2. CASE MasterStep \/ MasterRestarts
  <2>1. UNCHANGED <<main, pkg, mon, ab, ctx, ctxTrouble>>
    BY <1>2 DEF MasterStep, MasterRestarts, MasterStarts, MasterNeedsRunLevel, MasterEnds,
       MasterAborts, process, deploy, history
  <2>2. ~Updating' \/ (Updating /\ UNCHANGED dmPkg)
    BY <1>2 DEF MasterStep, MasterRestarts, MasterStarts, MasterNeedsRunLevel, MasterEnds,
       MasterAborts, MasterGoes, Updating
  <2> QED BY <2>1, <2>2 DEF ContextFollows, ContextNamesUpdate
<1>3. CASE End \/ Crash \/ Interrupt
  <2>1. Gone /\ UNCHANGED <<dm, dmPkg, ctx>>
    BY <1>3 DEF End, Crash, Interrupt, master
  <2>2. \/ ctxTrouble' = (ctxTrouble \/ main = "context")
        \/ UNCHANGED ctxTrouble /\ main = "join"
    BY <1>3 DEF End, Crash, Interrupt
  <2>3. ctxTrouble => ctxTrouble'
    BY <2>2
  <2>4. main # "context" \/ ctxTrouble'
    BY <2>2
  <2> QED BY <2>1, <2>3, <2>4, GoneContext
<1>4. CASE \E oneShot \in BOOLEAN : Start(oneShot)
  <2>1. /\ main = "gone" /\ main' = "prompt"
        /\ UNCHANGED <<ab, dm, dmPkg, ctx, ctxTrouble>>
    BY <1>4 DEF Start, Alive, outside, master
  <2>2. \A m \in Monitors : mon'[m] = "clear" => mon[m] = "clear"
    BY <1>4, NewMonitorTyped, TypeParts DEF Start
  <2> QED BY <2>1, <2>2, ContextStays
<1>5. ASSUME NEW t \in Threads, AbortRunLevel(t)
      PROVE  ContextFollows'
  <2>1. UNCHANGED <<dm, dmPkg, ctx, ctxTrouble>>
    BY <1>5 DEF AbortRunLevel
  <2>2. CASE t \in dying
    <3>1. ab[t] = "runlevel" /\ (t = Main => main = "handler")
      BY <1>5, <2>2 DEF AbortRunLevel, AbortsPlaced
    <3>2. main # "context" \/ ctxTrouble
      BY <3>1, DeployAlone DEF DeployPlaces
    <3> QED BY <1>5, <2>1, <2>2, <3>2, GoneContext DEF AbortRunLevel
  <2>3. CASE t \notin dying
    <3>1. /\ main = "prompt" /\ main' # "context" /\ UNCHANGED mon
          /\ \A k \in Threads : ab'[k] \in {"context", "join", "runlevel"} => ab'[k] = ab[k]
      BY <1>5, <2>3, AbortReturns DEF Threads
    <3> QED BY <2>1, <3>1, ContextStays
  <2> QED BY <2>2, <2>3
<1>6. ASSUME NEW t \in Threads, AbortSignal(t)
      PROVE  ContextFollows'
  <2>1. /\ UNCHANGED <<dm, dmPkg, ctx, pkg>>
        /\ \A m \in Monitors : mon'[m] = "clear" => mon[m] = "clear"
        /\ \A k \in Threads : ab'[k] \in {"context", "join", "runlevel"} => ab'[k] = ab[k]
    BY <1>6, SignalMoves
  <2>2. ctxTrouble' = (ctxTrouble \/ (t = Main /\ main = "context"))
    BY <1>6 DEF AbortSignal
  <2>3. main' = main \/ (t = Main /\ main' = "handler")
    BY <1>6, SignalMoves
  <2> QED BY <2>1, <2>2, <2>3, ContextStays
<1> QED BY <1>1, <1>2, <1>3, <1>4, <1>5, <1>6, DeployStepContext, CommandContext,
           MonitorStepContext, AbortStepContext DEF Next
-----------------------------------------------------------------------------
(* Every step keeps what an abort has done *)

\* Every step that ends an update ends its pending action.
LEMMA PendingNext ==
  ASSUME PendingRuns, [Next]_vars
  PROVE  PendingRuns'
<1> USE DEF PendingRuns
<1>1. CASE UNCHANGED vars
  BY <1>1 DEF vars, outside, master
<1>2. CASE \E oneShot \in BOOLEAN : Start(oneShot)
  BY <1>2 DEF Start, outside, master
<1>3. CASE Command
  BY <1>3 DEF Command, Deploy, AbortCommand, SetRunLevel, Leave, RequestRunLevel, outside, master
<1>4. CASE DeployStep
  BY <1>4 DEF DeployStep, DeployExport, DeployRegister, DeployRegistered, DeployStatus,
     DeployTrigger, DeployContext, DeployMonitor, Deployable, outside, master
<1>5. CASE End \/ Crash \/ Interrupt
  BY <1>5 DEF End, Crash, Interrupt, master
<1>6. CASE \E m \in Monitors : MonitorStep(m) \/ MonitorFails(m)
  BY <1>6 DEF MonitorStep, MonitorFails, MonitorSeesEnd, MonitorSeesPending,
     MonitorRequestsRunLevel, MonitorClearsContext, RequestRunLevel, outside, master
<1>7. CASE \E t \in Threads : AbortStep(t) \/ AbortWaitFails(t) \/ AbortSignal(t)
  BY <1>7 DEF AbortStep, AbortWaitFails, AbortSignal, AbortStatus, AbortWait, AbortContext,
     AbortJoin, AbortRunLevel, RequestRunLevel, outside, master
<1>8. CASE MasterStep \/ MasterRestarts
  BY <1>8 DEF MasterStep, MasterRestarts, MasterStarts, MasterNeedsRunLevel, MasterEnds,
     MasterAborts, MasterGoes
<1> QED BY <1>1, <1>2, <1>3, <1>4, <1>5, <1>6, <1>7, <1>8 DEF Next

\* A step that puts no flag up and begins no abort.
LEMMA FlagStays ==
  ASSUME FlagDown, ctxTrouble => ctxTrouble', gbRmCbPath' => gbRmCbPath,
         \A t \in Threads : ab[t] = "none" => ab'[t] = "none"
  PROVE  FlagDown'
BY DEF FlagDown

\* Every step keeps the flag down during an abort.
LEMMA FlagNext ==
  ASSUME Typed, AbortsPlaced, OneMonitor, FlagDown, [Next]_vars
  PROVE  FlagDown'
<1>1. CASE UNCHANGED vars
  BY <1>1, FlagStays DEF vars, process, history
<1>2. CASE MasterStep \/ MasterRestarts
  <2>1. UNCHANGED <<process, history>>
    BY <1>2 DEF MasterStep, MasterRestarts, MasterStarts, MasterNeedsRunLevel, MasterEnds,
       MasterAborts
  <2> QED BY <2>1, FlagStays DEF process, history
<1>3. ASSUME Gone
      PROVE  FlagDown'
  BY <1>3, GoneTyped DEF FlagDown
<1>4. CASE End \/ Crash \/ Interrupt
  BY <1>3, <1>4 DEF End, Crash, Interrupt
<1>5. CASE \E oneShot \in BOOLEAN : Start(oneShot)
  BY <1>5, FlagStays DEF Start
<1>6. CASE \E p \in Packages, u \in BOOLEAN : Deploy(p, u)
  <2>1. UNCHANGED <<ab, gbRmCbPath>>
    BY <1>6 DEF Deploy
  <2>2. ~ctxTrouble' => \A t \in Threads : ab[t] = "none"
    BY <1>6, DeployFindsNone
  <2> QED BY <2>1, <2>2 DEF FlagDown
<1>7. CASE AbortCommand
  BY <1>7 DEF AbortCommand, AbortBegin, Deregister, FlagDown
<1>8. CASE SetRunLevel
  BY <1>8, FlagStays DEF SetRunLevel
<1>9. CASE Leave
  <2>1. \A t \in Threads : ab[t] = "none" => ab'[t] = "none"
    BY <1>9, AbortGotoTyped, TypeParts, ThreadFacts DEF Leave
  <2> QED BY <1>9, <2>1, FlagStays DEF Leave, history
<1>10. CASE DeployStep
  <2>1. main \in DeployPlaces /\ UNCHANGED ab /\ (ctxTrouble => ctxTrouble')
    BY <1>10 DEF DeployStep, DeployExport, DeployRegister, DeployRegistered, DeployStatus,
       DeployTrigger, DeployContext, DeployMonitor, DeployPlaces, UpdateContext, history
  <2> QED BY <2>1, DeployAlone DEF FlagDown
<1>11. ASSUME NEW m \in Monitors, MonitorStep(m) \/ MonitorFails(m)
       PROVE  FlagDown'
  <2>1. ctxTrouble => ctxTrouble'
    BY <1>11 DEF MonitorStep, MonitorFails, MonitorSeesEnd, MonitorSeesPending,
       MonitorRequestsRunLevel, MonitorClearsContext, UpdateContext, history
  <2> QED BY <1>11, <2>1, MonitorMoves, FlagStays
<1>12. ASSUME NEW t \in Threads, AbortStep(t) \/ AbortWaitFails(t)
       PROVE  FlagDown'
  <2>1. ctxTrouble => ctxTrouble'
    BY <1>12 DEF AbortStep, AbortWaitFails, AbortStatus, AbortWait, AbortContext,
       AbortJoin, AbortRunLevel, UpdateContext, history
  <2>2. CASE AbortRunLevel(t) /\ t \in dying
    BY <1>3, <2>2 DEF AbortRunLevel
  <2>3. CASE AbortRunLevel(t) /\ t \notin dying
    BY <2>1, <2>3, AbortReturns, FlagStays DEF Threads
  <2>4. CASE ~AbortRunLevel(t)
    <3>1. UNCHANGED gbRmCbPath /\ ab[t] # "none" /\ \A k \in Threads \ {t} : ab'[k] = ab[k]
      BY <1>12, <2>4, AbortMoves
    <3> QED BY <2>1, <3>1, FlagStays
  <2> QED BY <2>2, <2>3, <2>4
<1>13. ASSUME NEW t \in Threads, AbortSignal(t)
       PROVE  FlagDown'
  BY <1>13 DEF AbortSignal, AbortBegin, Deregister, FlagDown
<1> QED BY <1>1, <1>2, <1>4, <1>5, <1>6, <1>7, <1>8, <1>9, <1>10, <1>11, <1>12, <1>13
        DEF Next, Command

\* What an abort has done is not undone by a step that starts nothing.
LEMMA LastsStays ==
  ASSUME AbortLasts,
         aborted' => /\ aborted
                     /\ \A m \in Monitors : mon'[m] \notin {"free", "ended"} => Running(m)
                     /\ main' \in DeployPlaces => main \in DeployPlaces
                     /\ dm' = dm \/ dm' = "DORMANT"
                     /\ ctx' = ctx \/ ctx' = NoPkg
                     /\ raised' => raised
                     /\ tii' => tii
  PROVE  AbortLasts'
BY DEF AbortLasts, AbortLeavesNothing, NoneRuns, Running, Updating

\* An abort that meets no error leaves nothing.
LEMMA AbortEndsClean ==
  ASSUME Typed, AbortsPlaced, CallbackFollowed, OneMonitor, ContextFollows, FlagDown,
         NEW t \in Threads, AbortRunLevel(t)
  PROVE  AbortLasts'
<1>1. SUFFICES ASSUME aborted'
               PROVE  AbortLasts'
  BY DEF AbortLasts, AbortLeavesNothing
<1>2. ab[t] = "runlevel" /\ UNCHANGED <<tii, ctx, dm>>
  BY DEF AbortRunLevel
<1>3. raised' = FALSE /\ ~ctxTrouble /\ ~cbTrouble
  BY <1>1 DEF AbortRunLevel, RequestRunLevel
<1>4. ~Updating /\ ctx = NoPkg
  BY <1>2, <1>3 DEF ContextFollows
<1>5. main \notin DeployPlaces
  BY <1>2, <1>3, DeployAlone
<1>6. ~tii
  <2>1. ~gbRmCbPath
    BY <1>2, <1>3 DEF FlagDown
  <2> QED BY <1>3, <1>5, <2>1 DEF CallbackFollowed, CallbackTracked, DeployPlaces, Typed,
          CallbackTyped
<1>7. NoneRuns' /\ main' \notin DeployPlaces
  <2>1. CASE t \in dying
    BY <2>1, GoneTyped DEF AbortRunLevel, NoneRuns, Running, DeployPlaces
  <2>2. CASE t \notin dying
    <3>1. /\ ab[Main] = "runlevel" /\ main' \in {"prompt", "join"} /\ UNCHANGED mon
      BY <2>2, AbortReturns
    <3> QED BY <1>3, <3>1 DEF OneMonitor, NoneRuns, Running, DeployPlaces
  <2> QED BY <2>1, <2>2
<1> QED BY <1>2, <1>3, <1>4, <1>6, <1>7 DEF AbortLasts, AbortLeavesNothing, Updating

\* Every step but the next command keeps what an abort has done.
LEMMA LastsNext ==
  ASSUME Typed, AbortsPlaced, CallbackFollowed, OneMonitor, ContextFollows, FlagDown,
         AbortLasts, [Next]_vars
  PROVE  AbortLasts'
<1>1. CASE UNCHANGED vars
  BY <1>1, LastsStays DEF vars, process, deploy, outside, master, history, Running
<1>2. CASE MasterStep \/ MasterRestarts
  <2>1. UNCHANGED <<main, mon, ctx, tii, aborted>>
    BY <1>2 DEF MasterStep, MasterRestarts, MasterStarts, MasterNeedsRunLevel, MasterEnds,
       MasterAborts, process, deploy, history
  <2>2. Updating \/ dm' = "DORMANT"
    BY <1>2 DEF MasterStep, MasterRestarts, MasterStarts, MasterNeedsRunLevel, MasterEnds,
       MasterAborts, MasterGoes, Updating
  <2>3. raised' => raised
    BY <1>2 DEF MasterStep, MasterRestarts, MasterStarts, MasterNeedsRunLevel, MasterEnds,
       MasterAborts
  <2> QED BY <2>1, <2>2, <2>3
      DEF AbortLasts, AbortLeavesNothing, Updating, NoneRuns, Running
<1>3. CASE End \/ Crash \/ Interrupt
  <2>1. Gone /\ UNCHANGED <<dm, ctx, raised, aborted>>
    BY <1>3 DEF End, Crash, Interrupt, master
  <2>2. tii' => tii
    BY <1>3 DEF End, Crash, Interrupt, Deregistered
  <2> QED BY <2>1, <2>2, GoneTyped, LastsStays DEF DeployPlaces
<1>4. CASE \E oneShot \in BOOLEAN : Start(oneShot)
  BY <1>4 DEF Start, AbortLasts, AbortLeavesNothing
<1>5. CASE Command
  <2>1. CASE Leave
    <3>1. /\ UNCHANGED <<dm, ctx, raised, tii, aborted>> /\ main' \notin DeployPlaces
          /\ \A m \in Monitors : mon'[m] \notin {"free", "ended"} => Running(m)
      BY <2>1 DEF Leave, outside, master, history, DeployPlaces, Typed, MonitorTyped, Running
    <3> QED BY <3>1, LastsStays
  <2>2. CASE ~Leave
    <3>1. ~aborted'
      BY <1>5, <2>2 DEF Command, Deploy, AbortCommand, SetRunLevel
    <3> QED BY <3>1 DEF AbortLasts, AbortLeavesNothing
  <2> QED BY <2>1, <2>2
<1>6. CASE DeployStep
  <2>1. main \in DeployPlaces /\ UNCHANGED aborted
    BY <1>6 DEF DeployStep, DeployExport, DeployRegister, DeployRegistered, DeployStatus,
       DeployTrigger, DeployContext, DeployMonitor, DeployPlaces, history
  <2>2. ~aborted'
    BY <2>1 DEF AbortLasts
  <2> QED BY <2>2 DEF AbortLasts, AbortLeavesNothing
<1>7. ASSUME NEW m \in Monitors, MonitorStep(m) \/ MonitorFails(m)
      PROVE  AbortLasts'
  <2>1. Running(m) /\ UNCHANGED aborted
    BY <1>7, MonitorMoves DEF Running
  <2>2. ~aborted'
    BY <2>1 DEF AbortLasts, NoneRuns
  <2> QED BY <2>2 DEF AbortLasts, AbortLeavesNothing
<1>8. ASSUME NEW t \in Threads, AbortStep(t) \/ AbortWaitFails(t), ~AbortRunLevel(t)
      PROVE  AbortLasts'
  <2>1. /\ UNCHANGED <<main, dm, raised, tii, aborted>>
        /\ \A m \in Monitors : mon'[m] \notin {"free", "ended"} => Running(m)
    BY <1>8, AbortMoves DEF Typed, MonitorTyped, Running
  <2>2. ctx' = ctx \/ ctx' = NoPkg
    BY <1>8 DEF AbortStep, AbortWaitFails, AbortStatus, AbortWait, AbortContext, AbortJoin,
       UpdateContext, outside
  <2> QED BY <2>1, <2>2, LastsStays
<1>9. ASSUME NEW t \in Threads, AbortSignal(t)
      PROVE  AbortLasts'
  <2>1. /\ UNCHANGED <<dm, ctx, raised, aborted>>
        /\ \A m \in Monitors : mon'[m] \notin {"free", "ended"} => Running(m)
        /\ main' \in DeployPlaces => main \in DeployPlaces
    BY <1>9, SignalMoves DEF Running, DeployPlaces
  <2>2. tii' => tii
    BY <1>9 DEF AbortSignal, AbortBegin, Deregister, Deregistered
  <2> QED BY <2>1, <2>2, LastsStays
<1> QED BY <1>1, <1>2, <1>3, <1>4, <1>5, <1>6, <1>7, <1>8, <1>9, AbortEndsClean
        DEF Next, AbortStep

-----------------------------------------------------------------------------
(* The theorems *)

\* Initially there is no process, no update and no context.
LEMMA ClientInit == Init => ClientInv
<1> SUFFICES ASSUME Init
             PROVE  ClientInv
  OBVIOUS
<1>1. ClientTypeOK
  BY DEF Init, ClientTypeOK, States
<1>2. AbortsPlaced
  BY ThreadFacts DEF Init, AbortsPlaced, NoneRuns, Running
<1>3. CallbackFollowed /\ PendingRuns /\ FlagDown /\ AbortLasts
  BY DEF Init, CallbackFollowed, CallbackTracked, PendingRuns, FlagDown, AbortLasts,
     AbortLeavesNothing
<1>4. OneMonitor /\ ContextFollows
  BY ThreadFacts DEF Init, OneMonitor, NoneRuns, Running, DeployPlaces, ContextFollows,
     ContextNamesUpdate, Updating
<1> QED BY <1>1, <1>2, <1>3, <1>4 DEF ClientInv

\* The client's inductive invariant: where each thread is in an abort, what push_cb's
\* flag tells, which monitor runs, and who may clear the context.
THEOREM ClientInvariant == Spec => []ClientInv
<1>1. ClientInv /\ [Next]_vars => ClientInv'
  <2> SUFFICES ASSUME ClientInv, [Next]_vars
               PROVE  ClientInv'
    OBVIOUS
  <2>1. Typed
    BY TypeParts DEF ClientInv
  <2>2. ClientTypeOK'
    BY TypeNext DEF ClientInv
  <2>3. AbortsPlaced' /\ CallbackFollowed'
    BY <2>1, PlacedNext, FollowedNext DEF ClientInv
  <2>4. OneMonitor' /\ ContextFollows'
    BY <2>1, OneNext, ContextNext DEF ClientInv
  <2>5. PendingRuns' /\ FlagDown' /\ AbortLasts'
    BY <2>1, PendingNext, FlagNext, LastsNext DEF ClientInv
  <2> QED BY <2>2, <2>3, <2>4, <2>5 DEF ClientInv
<1> QED BY <1>1, ClientInit, PTL DEF Spec

\* Every variable of the client keeps its type.
THEOREM ClientTypeCorrect == Spec => []ClientTypeOK
<1>1. ClientInv => ClientTypeOK
  BY DEF ClientInv
<1> QED BY <1>1, ClientInvariant, PTL

\* While an update runs the persistent context names its package (updateContext,
\* driveupdate.c), for any packages, any number of monitors, crashes and restarts.
THEOREM AlwaysContextNamesUpdate == Spec => []ContextNamesUpdate
<1>1. ClientInv => ContextNamesUpdate
  BY DEF ClientInv, ContextFollows
<1> QED BY <1>1, ClientInvariant, PTL

\* The client and DU TII agree on whether push_cb is registered (gbRmCbPath,
\* driveupdate.c).
THEOREM AlwaysCallbackTracked == Spec => []CallbackTracked
<1>1. ClientInv => CallbackTracked
  BY DEF ClientInv, CallbackFollowed
<1> QED BY <1>1, ClientInvariant, PTL

\* After abortDeploy without an error no update runs, the context is empty, the run
\* level is down and nothing is registered, until the next command.
THEOREM AlwaysAbortLeavesNothing == Spec => []AbortLeavesNothing
<1>1. ClientInv => AbortLeavesNothing
  BY DEF ClientInv, AbortLasts
<1> QED BY <1>1, ClientInvariant, PTL

=============================================================================
