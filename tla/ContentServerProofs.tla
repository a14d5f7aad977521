-------------------------- MODULE ContentServerProofs --------------------------
(***************************************************************************)
(* What the content server serves, exports and saves, for all packages and   *)
(* any number of threads: the inductive invariant behind the properties of    *)
(* ContentServer, and their proofs.                                          *)
(***************************************************************************)
EXTENDS ContentServer, SequenceTheorems, TLAPS

-----------------------------------------------------------------------------
(* The inductive invariant *)

\* Writers are in executeCmd or idle.  Between critical sections nobody holds the
\* mutex, and who is not in executeCmd has no command.
ThreadsOK ==
  /\ mutex = Nobody
  /\ \A t \in Writers : pc[t] \in {"ready", "announce", "finish"}
  /\ \A t \in Commanders : ~Inside(t) => arg[t] = NoPath

\* Nothing has happened before the server is up, unless a client was too early.
StartOK ==
  Starting => /\ \A t \in Commanders : ~Inside(t)
              /\ state # "CONFIGURED" /\ served = NoPath /\ nodes = {} /\ ~synced

\* The command under way is the only one, and was let through by the state that the
\* one before it left.
CommandOK ==
  /\ \A t, u \in Commanders : Inside(t) /\ Inside(u) => t = u
  /\ \A t \in Commanders : Inside(t) => (arg[t] = NoPath <=> served # NoPath)
  /\ \A t \in Commanders :
       pc[t] = "finish" => (state = "CONFIGURED" <=> arg[t] # NoPath)
  /\ (\A t \in Commanders : pc[t] # "finish") => (state = "CONFIGURED" <=> served # NoPath)

\* The package whose nodes should be there: that of the command under way, once it has
\* exported or unlinked them.
NodesOK ==
  /\ \A t \in Commanders :
       Inside(t) => nodes = IF arg[t] = NoPath THEN {} ELSE NodesOf(arg[t])
  /\ (\A t \in Commanders : ~Inside(t)) =>
       nodes = IF served = NoPath THEN {} ELSE NodesOf(served)

\* What holds as long as no two commands overlap.
Ordered ==
  /\ StartOK
  /\ CommandOK
  /\ localPath = served
  /\ ~trouble => NodesOK
  /\ synced /\ bUseContextStore => ctxStore = served

ContentInv ==
  /\ ContentTypeOK
  /\ ThreadsOK
  /\ ~overlapped => Ordered

-----------------------------------------------------------------------------
(* The operators *)

\* The node paths that a package lists are among all.
LEMMA NodesOfType == \A p \in Packages : NodesOf(p) \subseteq AllNodes
BY DEF AllNodes

\* serveFolder exports nodes of the package only ...
LEMMA PrefixNodes ==
  ASSUME NEW p \in Packages, NEW k \in 0..Len(Entries[p])
  PROVE  ToSet(SubSeq(Entries[p], 1, k)) \subseteq NodesOf(p)
<1>1. Entries[p] \in Seq(STRING)
  BY ContentAssumption
<1>2. \A i \in 1..k : Entries[p][i] \in NodesOf(p)
  BY <1>1 DEF NodesOf, ToSet
<1>3. k \in Int /\ SubSeq(Entries[p], 1, k) \in Seq(NodesOf(p))
  BY <1>1, <1>2, SubSeqProperties
<1> QED BY <1>3 DEF ToSet

\* ... and all of them when it comes to the end.
LEMMA WholeListNodes ==
  ASSUME NEW p \in Packages
  PROVE  ToSet(SubSeq(Entries[p], 1, Len(Entries[p]))) = NodesOf(p)
<1>1. Entries[p] \in Seq(STRING)
  BY ContentAssumption
<1> QED BY <1>1, SubSeqFull DEF NodesOf

-----------------------------------------------------------------------------
(* Start-up *)

\* What Init and Restart set.
Fresh ==
  /\ state = "INIT" /\ localPath = NoPath /\ dupkgPathCached = NoPath
  /\ bUseContextStore = FALSE /\ persistCtxPath = FALSE /\ bResumePending = FALSE
  /\ mutex = Nobody
  /\ pc = [t \in Commanders |-> IF t = Cli THEN "open" ELSE "ready"]
  /\ arg = [t \in Commanders |-> NoPath]
  /\ reading = [r \in Readers |-> NotReading]
  /\ nodes = {}
  /\ served = NoPath /\ overlapped = FALSE /\ trouble = FALSE /\ synced = FALSE

\* A server that was just started serves nothing, whatever the store holds.
LEMMA FreshInv ==
  ASSUME Fresh, ctxStore \in Packages \union {NoPath}
  PROVE  ContentInv
<1>1. \A t \in Commanders : ~Inside(t)
  BY DEF Fresh, Inside
<1>2. ContentTypeOK
  BY DEF Fresh, ContentTypeOK
<1>3. ThreadsOK
  BY ContentAssumption DEF Fresh, ThreadsOK, Commanders
<1>4. StartOK /\ CommandOK /\ NodesOK
  BY <1>1 DEF Fresh, StartOK, CommandOK, NodesOK, Inside
<1> QED BY <1>2, <1>3, <1>4 DEF Fresh, ContentInv, Ordered

\* The server starts with the store empty.
LEMMA ContentInit == Init => ContentInv
BY FreshInv DEF Init, Fresh

-----------------------------------------------------------------------------
(* One lemma for each kind of step *)

\* A step that neither gives nor executes a command: the command line, the start-up,
\* reads.
LEMMA QuietStep ==
  ASSUME ContentInv, ContentTypeOK',
         UNCHANGED <<state, localPath, mutex, arg, nodes, served, overlapped, trouble>>,
         \A t \in Writers : pc'[t] = pc[t],
         \A t \in Commanders : pc'[t] = pc[t] \/ (~Inside(t) /\ ~Inside(t)'),
         Starting' => Starting /\ ~(synced' /\ ~synced),
         synced' /\ bUseContextStore' /\ ~overlapped => ctxStore' = served
  PROVE  ContentInv'
<1>1. \A t \in Commanders :
        /\ Inside(t)' <=> Inside(t)
        /\ pc'[t] = "finish" <=> pc[t] = "finish"
  BY DEF Inside
<1>2. ThreadsOK'
  BY <1>1 DEF ContentInv, ThreadsOK
<1>3. ~overlapped => StartOK'
  BY <1>1 DEF ContentInv, Ordered, StartOK
<1>4. ~overlapped => CommandOK'
  <2> SUFFICES ASSUME ~overlapped PROVE CommandOK'
    OBVIOUS
  <2>1. CommandOK
    BY DEF ContentInv, Ordered
  <2> QED BY <1>1, <2>1 DEF CommandOK
<1>5. ~overlapped /\ ~trouble => NodesOK'
  <2> SUFFICES ASSUME ~overlapped, ~trouble PROVE NodesOK'
    OBVIOUS
  <2>1. NodesOK
    BY DEF ContentInv, Ordered
  <2> QED BY <1>1, <2>1 DEF NodesOK
<1> QED BY <1>2, <1>3, <1>4, <1>5 DEF ContentInv, Ordered

\* A serve is refused, fails, or exports the package.
LEMMA ServeStep ==
  ASSUME ContentInv, NEW t \in Commanders, NEW p \in Packages,
         pc[t] \in {"ready", "mode"}, ExecuteServe(t, p, "ready"),
         dupkgPathCached' \in Packages \union {NoPath},
         UNCHANGED <<bUseContextStore, ctxNode, reading, ctxStore>>
  PROVE  ContentInv'
<1> USE DEF ExecuteServe, ServeExports, ServeFails, Goto, MutexAfter
<1>1. /\ nodes \subseteq AllNodes /\ \A k \in 0..Len(Entries[p]) :
           nodes \union ToSet(SubSeq(Entries[p], 1, k)) \subseteq AllNodes
      /\ pc \in [Commanders -> {"open", "register", "setIdle", "mode", "ready",
                                "announce", "finish", "exited"}]
      /\ arg \in [Commanders -> Packages \union {NoPath}]
  BY PrefixNodes, NodesOfType DEF ContentInv, ContentTypeOK
<1>2. Entries[p] \in Seq(STRING) /\ Len(Entries[p]) \in 0..Len(Entries[p])
  BY ContentAssumption
<1>3. ~Inside(t) /\ arg[t] = NoPath /\ mutex = Nobody /\ p # NoPath
  BY ContentAssumption DEF ContentInv, ThreadsOK, Inside
<1>4. /\ \A u \in Commanders \ {t} : pc'[u] = pc[u] /\ arg'[u] = arg[u]
      /\ mutex' = Nobody
      /\ \/ pc'[t] = "announce" /\ arg'[t] = p
         \/ pc'[t] = "ready" /\ arg'[t] = NoPath
  BY <1>1, <1>3
<1>5. ContentTypeOK'
  <2>1. nodes' \subseteq AllNodes
    BY <1>1, <1>2 DEF ExportSome
  <2>2. /\ pc' \in [Commanders -> {"open", "register", "setIdle", "mode", "ready",
                                   "announce", "finish", "exited"}]
        /\ arg' \in [Commanders -> Packages \union {NoPath}]
    BY <1>1
  <2>3. trouble' \in BOOLEAN /\ overlapped' \in BOOLEAN /\ mutex' \in Commanders \union {Nobody}
    BY <1>4 DEF ContentInv, ContentTypeOK, NoteOverlap
  <2> QED BY <2>1, <2>2, <2>3 DEF ContentInv, ContentTypeOK, ctxNode
<1>6. ThreadsOK'
  BY <1>3, <1>4 DEF ContentInv, ThreadsOK, Inside, Commanders
<1>7. SUFFICES ASSUME ~overlapped' PROVE Ordered'
  BY <1>5, <1>6 DEF ContentInv
<1>8. ~overlapped /\ ~Starting /\ \A u \in Commanders : ~Inside(u)
  BY <1>3, <1>7 DEF NoteOverlap
<1>9. /\ localPath = served
      /\ ~trouble => nodes = IF served = NoPath THEN {} ELSE NodesOf(served)
      /\ state = "CONFIGURED" <=> served # NoPath
      /\ synced /\ bUseContextStore => ctxStore = served
  <2>1. Ordered /\ \A u \in Commanders : pc[u] # "finish"
    BY <1>8 DEF ContentInv, Inside
  <2>2. ~trouble => nodes = IF served = NoPath THEN {} ELSE NodesOf(served)
    BY <1>8, <2>1 DEF Ordered, NodesOK
  <2> QED BY <2>1, <2>2 DEF Ordered, CommandOK
<1>10. ~Starting'
  BY <1>4, <1>8 DEF Starting, Commanders
<1>11. \A u \in Commanders \ {t} : ~Inside(u)'
  BY <1>4, <1>8 DEF Inside
<1>12. CASE ServeExports(t, p)
  <2>1. state # "CONFIGURED" /\ served = NoPath /\ pc'[t] = "announce" /\ arg'[t] = p
    BY <1>1, <1>9, <1>12
  <2>2. CommandOK'
    BY <1>3, <1>9, <1>11, <2>1 DEF CommandOK, Inside
  <2>3. ~trouble' => nodes' = NodesOf(p)
    BY <1>9, <1>12, <2>1, WholeListNodes DEF ExportSome
  <2>4. ~trouble' => NodesOK'
    BY <1>3, <1>11, <2>1, <2>3 DEF NodesOK, Inside
  <2> QED BY <1>9, <1>10, <2>2, <2>4 DEF StartOK, Ordered
<1>13. CASE ServeFails(t, p, "ready")
  <2>1. pc'[t] = "ready" /\ (~trouble' => nodes' = nodes /\ ~trouble)
    BY <1>1, <1>13
  <2>2. \A u \in Commanders : ~Inside(u)'
    BY <1>11, <2>1 DEF Inside
  <2> QED BY <1>9, <1>10, <2>1, <2>2 DEF Ordered, StartOK, CommandOK, NodesOK, Inside
<1> QED BY <1>12, <1>13

\* A stop is refused, fails, or unlinks the nodes of the package.
LEMMA StopStep ==
  ASSUME ContentInv, NEW t \in Commanders, pc[t] = "ready", ExecuteStop(t),
         UNCHANGED <<dupkgPathCached, bUseContextStore, ctxNode, reading, ctxStore>>
  PROVE  ContentInv'
<1> USE DEF ExecuteStop, StopUnlinks, StopFails, Goto, MutexAfter
<1>1. /\ pc \in [Commanders -> {"open", "register", "setIdle", "mode", "ready",
                                "announce", "finish", "exited"}]
      /\ arg \in [Commanders -> Packages \union {NoPath}]
      /\ localPath \in Packages \union {NoPath}
      /\ nodes \subseteq AllNodes
  BY DEF ContentInv, ContentTypeOK
<1>2. ~Inside(t) /\ arg[t] = NoPath /\ mutex = Nobody
  BY DEF ContentInv, ThreadsOK, Inside
<1>3. /\ \A u \in Commanders \ {t} : pc'[u] = pc[u] /\ arg'[u] = arg[u]
      /\ mutex' = Nobody /\ pc'[t] \in {"announce", "ready"} /\ arg'[t] = NoPath
  BY <1>1, <1>2
<1>4. ContentTypeOK'
  <2>1. nodes' \subseteq AllNodes
    BY <1>1 DEF Unlink
  <2>2. /\ pc' \in [Commanders -> {"open", "register", "setIdle", "mode", "ready",
                                   "announce", "finish", "exited"}]
        /\ arg' \in [Commanders -> Packages \union {NoPath}]
    BY <1>1
  <2>3. trouble' \in BOOLEAN
    <3>1. CASE StopUnlinks(t)
      BY <3>1 DEF ContentInv, ContentTypeOK
    <3>2. CASE StopFails(t)
      BY <3>2 DEF ContentInv, ContentTypeOK
    <3> QED BY <3>1, <3>2
  <2>4. overlapped' \in BOOLEAN /\ mutex' \in Commanders \union {Nobody}
    BY <1>3 DEF ContentInv, ContentTypeOK, NoteOverlap
  <2> QED BY <2>1, <2>2, <2>3, <2>4 DEF ContentInv, ContentTypeOK, ctxNode
<1>5. ThreadsOK'
  BY <1>2, <1>3 DEF ContentInv, ThreadsOK, Inside, Commanders
<1>6. SUFFICES ASSUME ~overlapped' PROVE Ordered'
  BY <1>4, <1>5 DEF ContentInv
<1>7. ~overlapped /\ ~Starting /\ \A u \in Commanders : ~Inside(u)
  BY <1>2, <1>6 DEF NoteOverlap
<1>8. /\ localPath = served
      /\ ~trouble => nodes = IF served = NoPath THEN {} ELSE NodesOf(served)
      /\ state = "CONFIGURED" <=> served # NoPath
      /\ synced /\ bUseContextStore => ctxStore = served
  <2>1. Ordered /\ \A u \in Commanders : pc[u] # "finish"
    BY <1>7 DEF ContentInv, Inside
  <2>2. ~trouble => nodes = IF served = NoPath THEN {} ELSE NodesOf(served)
    BY <1>7, <2>1 DEF Ordered, NodesOK
  <2> QED BY <2>1, <2>2 DEF Ordered, CommandOK
<1>9. ~Starting'
  BY <1>3, <1>7 DEF Starting, Commanders
<1>10. \A u \in Commanders \ {t} : ~Inside(u)'
  BY <1>3, <1>7 DEF Inside
<1>11. CASE StopUnlinks(t)
  <2>1. state = "CONFIGURED" /\ pc'[t] = "announce" /\ arg'[t] = NoPath
    BY <1>1, <1>11
  <2>2. CommandOK'
    BY <1>2, <1>8, <1>10, <2>1 DEF CommandOK, Inside
  <2>3. ~trouble' => nodes' = {}
    BY <1>8, <1>11, <2>1 DEF Unlink
  <2>4. ~trouble' => NodesOK'
    BY <1>2, <1>10, <2>1, <2>3 DEF NodesOK, Inside
  <2> QED BY <1>8, <1>9, <2>2, <2>4 DEF StartOK, Ordered
<1>12. CASE StopFails(t)
  <2>1. pc' = pc /\ arg' = arg /\ (~trouble' => nodes' = nodes /\ ~trouble)
    BY <1>12
  <2>2. \A u \in Commanders : ~Inside(u)'
    BY <1>7, <2>1 DEF Inside
  <2> QED BY <1>8, <1>9, <2>1, <2>2 DEF Ordered, StartOK, CommandOK, NodesOK, Inside
<1> QED BY <1>11, <1>12

\* The new state is the one the command is about.
LEMMA AnnounceStep ==
  ASSUME ContentInv, NEW t \in Commanders, Announce(t)
  PROVE  ContentInv'
<1> USE DEF Announce, Goto
<1>1. /\ pc \in [Commanders -> {"open", "register", "setIdle", "mode", "ready",
                                "announce", "finish", "exited"}]
      /\ pc[t] = "announce" /\ pc'[t] = "finish"
      /\ \A u \in Commanders \ {t} : pc'[u] = pc[u]
  BY DEF ContentInv, ContentTypeOK
<1>2. \A u \in Commanders : Inside(u)' <=> Inside(u)
  BY <1>1 DEF Inside
<1>3. ContentTypeOK'
  BY <1>1 DEF ContentInv, ContentTypeOK, ctxNode, history
<1>4. ThreadsOK'
  BY <1>1, <1>2 DEF ContentInv, ThreadsOK, Commanders
<1>5. SUFFICES ASSUME ~overlapped' PROVE Ordered'
  BY <1>3, <1>4 DEF ContentInv
<1>6. Ordered
  BY <1>5 DEF ContentInv, history
<1>7. Inside(t) /\ ~Starting /\ ~Starting'
  BY <1>1, <1>6 DEF Ordered, StartOK, Inside, Starting, Commanders
<1>8. \A u \in Commanders \ {t} : ~Inside(u) /\ pc'[u] # "finish"
  BY <1>1, <1>6, <1>7 DEF Ordered, CommandOK, Inside
<1>9. CommandOK'
  BY <1>1, <1>2, <1>6, <1>7, <1>8 DEF Ordered, CommandOK, history
<1>10. ~trouble => NodesOK'
  BY <1>2, <1>6 DEF Ordered, NodesOK, history
<1> QED BY <1>6, <1>7, <1>9, <1>10 DEF Ordered, StartOK, history

\* What the command served is written down, and in the store if that is in use.
LEMMA FinishStep ==
  ASSUME ContentInv, NEW t \in Commanders, Finish(t)
  PROVE  ContentInv'
<1> USE DEF Finish, Goto, SaveToStore
<1>1. /\ pc \in [Commanders -> {"open", "register", "setIdle", "mode", "ready",
                                "announce", "finish", "exited"}]
      /\ arg \in [Commanders -> Packages \union {NoPath}]
      /\ pc[t] = "finish" /\ pc'[t] = "ready" /\ arg'[t] = NoPath
      /\ \A u \in Commanders \ {t} : pc'[u] = pc[u] /\ arg'[u] = arg[u]
  BY DEF ContentInv, ContentTypeOK
<1>2. ~Inside(t)' /\ \A u \in Commanders \ {t} : Inside(u)' <=> Inside(u)
  BY <1>1 DEF Inside
<1>3. localPath' = arg[t] /\ served' = arg[t] /\ arg[t] \in Packages \union {NoPath}
  BY <1>1
<1>4. ContentTypeOK'
  <2>1. ctxStore' \in Packages \union {NoPath} /\ bUseContextStore' \in BOOLEAN
    BY <1>3 DEF ContentInv, ContentTypeOK
  <2>2. /\ pc' \in [Commanders -> {"open", "register", "setIdle", "mode", "ready",
                                   "announce", "finish", "exited"}]
        /\ arg' \in [Commanders -> Packages \union {NoPath}]
    BY <1>1
  <2> QED BY <1>3, <2>1, <2>2 DEF ContentInv, ContentTypeOK, ctxNode
<1>5. ThreadsOK'
  BY <1>1, <1>2 DEF ContentInv, ThreadsOK, Commanders
<1>6. SUFFICES ASSUME ~overlapped' PROVE Ordered'
  BY <1>4, <1>5 DEF ContentInv
<1>7. Ordered
  BY <1>6 DEF ContentInv
<1>8. Inside(t) /\ ~Starting /\ ~Starting'
  BY <1>1, <1>7 DEF Ordered, StartOK, Inside, Starting, Commanders
<1>9. \A u \in Commanders : ~Inside(u)' /\ pc'[u] # "finish"
  BY <1>1, <1>2, <1>7, <1>8 DEF Ordered, CommandOK, Inside
<1>10. CommandOK'
  BY <1>1, <1>3, <1>7, <1>9 DEF Ordered, CommandOK
<1>11. ~trouble => NodesOK'
  BY <1>3, <1>7, <1>8, <1>9 DEF Ordered, NodesOK
<1>12. bUseContextStore' => ctxStore' = served'
  BY <1>3
<1> QED BY <1>3, <1>8, <1>10, <1>11, <1>12 DEF Ordered, StartOK

\* The start ends in IDLE.
LEMMA InitSetIdleStep ==
  ASSUME ContentInv, InitSetIdle
  PROVE  ContentInv'
<1> USE DEF InitSetIdle, Goto
<1>1. /\ pc \in [Commanders -> {"open", "register", "setIdle", "mode", "ready",
                                "announce", "finish", "exited"}]
      /\ pc[Cli] = "setIdle" /\ pc'[Cli] = "mode" /\ Starting /\ ~Starting'
      /\ \A u \in Commanders \ {Cli} : pc'[u] = pc[u]
  BY DEF ContentInv, ContentTypeOK, Starting, Commanders
<1>2. \A u \in Commanders : Inside(u)' <=> Inside(u)
  BY <1>1 DEF Inside
<1>3. ContentTypeOK'
  BY <1>1 DEF ContentInv, ContentTypeOK, ctxNode, history
<1>4. ThreadsOK'
  BY <1>1, <1>2, ContentAssumption DEF ContentInv, ThreadsOK, Commanders
<1>5. SUFFICES ASSUME ~overlapped' PROVE Ordered'
  BY <1>3, <1>4 DEF ContentInv
<1>6. Ordered
  BY <1>5 DEF ContentInv, history
<1>7. served = NoPath /\ nodes = {} /\ ~synced /\ \A u \in Commanders : ~Inside(u)
  BY <1>1, <1>6 DEF Ordered, StartOK
<1> QED BY <1>1, <1>2, <1>6, <1>7 DEF Ordered, StartOK, CommandOK, NodesOK, Inside, history

\* The command line of the process decides what is served first.
LEMMA RunModeStep ==
  ASSUME ContentInv, RunMode
  PROVE  ContentInv'
<1> USE DEF RunMode, Goto
<1>1. /\ pc[Cli] = "mode" /\ Cli \in Commanders /\ ~Inside(Cli) /\ ~Starting
      /\ pc \in [Commanders -> {"open", "register", "setIdle", "mode", "ready",
                                "announce", "finish", "exited"}]
  BY DEF Commanders, Inside, Starting, ContentInv, ContentTypeOK
<1>2. ASSUME NEW place \in {"ready", "exited"}, Goto(Cli, place)
      PROVE  /\ ~Starting' /\ ~Inside(Cli)'
             /\ pc' \in [Commanders -> {"open", "register", "setIdle", "mode", "ready",
                                        "announce", "finish", "exited"}]
             /\ \A t \in Commanders \ {Cli} : pc'[t] = pc[t]
             /\ \A t \in Writers : pc'[t] = pc[t]
  BY <1>1, <1>2, ContentAssumption DEF Starting, Inside, Commanders
<1>3. CASE ModeIdle
  <2>1. ContentTypeOK'
    BY <1>2, <1>3 DEF ModeIdle, ContentInv, ContentTypeOK, ctxNode, history
  <2> QED BY <1>1, <1>2, <1>3, <2>1, QuietStep
          DEF ModeIdle, history, ContentInv, Ordered
<1>4. CASE ModeClear
  <2>1. ContentTypeOK'
    BY <1>2, <1>4 DEF ModeClear, SaveToStore, ContentInv, ContentTypeOK, ctxNode
  <2> QED BY <1>1, <1>2, <1>4, <2>1, QuietStep DEF ModeClear
<1>5. CASE \E p \in Packages : ModeNew(p)
  <2> PICK p \in Packages : ModeNew(p)
    BY <1>5
  <2> QED BY <1>1, ServeStep DEF ModeNew
<1>6. CASE ModeRestore
  <2>1. CASE bUseContextStore /\ ctxStore # NoPath /\ ExecuteServe(Cli, ctxStore, "ready")
             /\ dupkgPathCached' = Loaded(ctxStore) /\ UNCHANGED <<bUseContextStore, ctxStore>>
    <3>1. ctxStore \in Packages
      BY <2>1 DEF ContentInv, ContentTypeOK
    <3> QED BY <1>1, <2>1, <3>1, ServeStep DEF Loaded
  <2>2. CASE /\ bUseContextStore' \in {FALSE, bUseContextStore} /\ Goto(Cli, "ready")
             /\ UNCHANGED <<state, localPath, dupkgPathCached, mutex, arg, nodes,
                            ctxStore, history>>
    <3>1. bUseContextStore' \in BOOLEAN /\ (bUseContextStore' => bUseContextStore)
      <4>1. bUseContextStore \in BOOLEAN
        BY DEF ContentInv, ContentTypeOK
      <4>2. CASE bUseContextStore' = FALSE
        BY <4>2
      <4>3. CASE bUseContextStore' = bUseContextStore
        BY <4>1, <4>3
      <4> QED BY <2>2, <4>2, <4>3
    <3>2. ContentTypeOK'
      BY <1>2, <2>2, <3>1 DEF ContentInv, ContentTypeOK, ctxNode, history
    <3>3. synced /\ bUseContextStore' /\ ~overlapped => ctxStore = served
      BY <3>1 DEF ContentInv, Ordered
    <3> QED BY <1>1, <1>2, <2>2, <3>2, <3>3, QuietStep DEF history
  <2> QED BY <1>6, <2>1, <2>2 DEF ModeRestore
<1> QED BY <1>3, <1>4, <1>5, <1>6

\* A command at the prompt.
LEMMA CliStepInv ==
  ASSUME ContentInv, CliStep
  PROVE  ContentInv'
<1> USE DEF Prompt
<1>1. Cli \in Commanders /\ pc[Cli] = "ready"
  BY DEF Commanders, CliStep, CliServe, CliStop, CliSet, CliSave, CliClear, CliQuit
<1>2. CASE CliServe
  <2>1. CASE \E p \in Packages \union ({dupkgPathCached} \ {NoPath}) :
               /\ ExecuteServe(Cli, p, "ready")
               /\ UNCHANGED <<dupkgPathCached, bUseContextStore>>
    <3> PICK p \in Packages \union ({dupkgPathCached} \ {NoPath}) :
               /\ ExecuteServe(Cli, p, "ready")
               /\ UNCHANGED <<dupkgPathCached, bUseContextStore>>
      BY <2>1
    <3>1. p \in Packages /\ dupkgPathCached \in Packages \union {NoPath}
      BY DEF ContentInv, ContentTypeOK
    <3> QED BY <1>1, <1>2, <3>1, ServeStep DEF CliServe
  <2>2. CASE /\ ctxStore # NoPath /\ dupkgPathCached' = Loaded(ctxStore)
             /\ ExecuteServe(Cli, ctxStore, "ready") /\ UNCHANGED bUseContextStore
    <3>1. ctxStore \in Packages
      BY <2>2 DEF ContentInv, ContentTypeOK
    <3> QED BY <1>1, <1>2, <2>2, <3>1, ServeStep DEF CliServe, Loaded
  <2>3. CASE /\ bUseContextStore' = FALSE
             /\ UNCHANGED <<state, localPath, dupkgPathCached, mutex, threads, nodes,
                            history>>
    <3>1. ContentTypeOK' /\ Starting' = Starting
      BY <1>2, <2>3 DEF CliServe, ContentInv, ContentTypeOK, ctxNode, threads, history,
         Starting
    <3> QED BY <2>3, <3>1, QuietStep DEF threads, history
  <2> QED BY <1>2, <2>1, <2>2, <2>3 DEF CliServe
<1>3. CASE CliStop
  BY <1>1, <1>3, StopStep DEF CliStop
<1>4. CASE CliSet \/ CliSave \/ CliClear
  <2>1. ContentTypeOK'
    <3>1. CASE CliSet
      BY <3>1 DEF CliSet, ContentInv, ContentTypeOK, ctxNode, threads, history
    <3>2. CASE CliSave
      BY <3>2 DEF CliSave, SaveToStore, ContentInv, ContentTypeOK, ctxNode, threads
    <3>3. CASE CliClear
      BY <3>3 DEF CliClear, SaveToStore, ContentInv, ContentTypeOK, ctxNode, threads
    <3> QED BY <1>4, <3>1, <3>2, <3>3
  <2>2. /\ UNCHANGED <<state, localPath, mutex, pc, arg, nodes, served, overlapped, trouble>>
        /\ ~synced' \/ UNCHANGED <<synced, bUseContextStore, ctxStore>>
    BY <1>4 DEF CliSet, CliSave, CliClear, threads, history
  <2> QED BY <2>1, <2>2, QuietStep DEF Starting, ContentInv, Ordered
<1>5. CASE CliQuit
  <2>1. /\ pc' = [pc EXCEPT ![Cli] = "exited"]
        /\ UNCHANGED <<state, localPath, dupkgPathCached, bUseContextStore, ctxNode,
                       mutex, arg, reading, nodes, ctxStore, history>>
    BY <1>5 DEF CliQuit, Goto
  <2>2. pc'[Cli] = "exited" /\ \A t \in Commanders \ {Cli} : pc'[t] = pc[t]
    BY <1>1, <2>1 DEF ContentInv, ContentTypeOK
  <2>3. ContentTypeOK'
    <3>1. pc' \in [Commanders -> {"open", "register", "setIdle", "mode", "ready",
                                  "announce", "finish", "exited"}]
      BY <2>1 DEF ContentInv, ContentTypeOK
    <3> QED BY <2>1, <3>1 DEF ContentInv, ContentTypeOK, ctxNode, history
  <2>4. ~Starting' /\ ~Inside(Cli) /\ ~Inside(Cli)'
    BY <1>1, <2>2 DEF Starting, Inside
  <2>5. \A t \in Writers : pc'[t] = pc[t]
    BY <2>2, ContentAssumption DEF Commanders
  <2> QED BY <2>1, <2>2, <2>3, <2>4, <2>5, QuietStep DEF history, ContentInv, Ordered
<1> QED BY <1>2, <1>3, <1>4, <1>5 DEF CliStep

\* The steps of the start that serve nothing.
LEMMA StartStepInv ==
  ASSUME ContentInv, Open \/ WaitForContextStore
  PROVE  ContentInv'
<1> USE DEF Goto, ctxNode, history
<1>1. Cli \in Commanders /\ ~Inside(Cli) /\ Starting
      /\ pc \in [Commanders -> {"open", "register", "setIdle", "mode", "ready",
                                "announce", "finish", "exited"}]
  BY DEF Open, WaitForContextStore, Commanders, Inside, Starting, ContentInv, ContentTypeOK
<1>2. /\ pc'[Cli] \in {"register", "setIdle", "exited"}
      /\ \A t \in Commanders \ {Cli} : pc'[t] = pc[t]
      /\ UNCHANGED <<state, localPath, mutex, arg, nodes, served, overlapped, trouble,
                     synced, ctxStore>>
  BY <1>1 DEF Open, WaitForContextStore
<1>3. ContentTypeOK'
  <2>1. CASE Open
    BY <2>1 DEF Open, ContentInv, ContentTypeOK
  <2>2. CASE WaitForContextStore
    BY <2>2 DEF WaitForContextStore, ContentInv, ContentTypeOK
  <2> QED BY <2>1, <2>2
<1>4. ~Inside(Cli)' /\ \A t \in Writers : pc'[t] = pc[t]
  BY <1>2, ContentAssumption DEF Inside, Commanders
<1>5. ~overlapped => ~synced
  BY <1>1 DEF ContentInv, Ordered, StartOK
<1> QED BY <1>1, <1>2, <1>3, <1>4, <1>5, QuietStep

\* Reads and the context path change nothing that is served.
LEMMA CallbackStepInv ==
  ASSUME ContentInv,
         \/ \E nonEmpty \in BOOLEAN : PersistCtxCB(nonEmpty)
         \/ \E r \in Readers : ReadBegin(r) \/ ReadEnd(r)
         \/ UNCHANGED vars
  PROVE  ContentInv'
<1> USE DEF ctxNode, threads, history
<1>1. UNCHANGED <<state, localPath, bUseContextStore, mutex, pc, arg, nodes, ctxStore,
                  served, overlapped, trouble, synced>>
  BY DEF PersistCtxCB, ReadBegin, ReadEnd, vars
<1>2. ContentTypeOK'
  <2>1. CASE \E nonEmpty \in BOOLEAN : PersistCtxCB(nonEmpty)
    BY <2>1 DEF PersistCtxCB, ContentInv, ContentTypeOK
  <2>2. CASE \E r \in Readers : ReadBegin(r) \/ ReadEnd(r)
    <3>1. reading' \in [Readers -> Packages \union {NoPath, NotReading}]
      BY <2>2 DEF ReadBegin, ReadEnd, ContentInv, ContentTypeOK
    <3>2. UNCHANGED <<dupkgPathCached, persistCtxPath, bResumePending>>
      BY <2>2 DEF ReadBegin, ReadEnd
    <3> QED BY <1>1, <3>1, <3>2 DEF ContentInv, ContentTypeOK
  <2>3. CASE UNCHANGED vars
    BY <2>3 DEF vars, ContentInv, ContentTypeOK
  <2> QED BY <2>1, <2>2, <2>3
<1> QED BY <1>1, <1>2, QuietStep DEF Starting, ContentInv, Ordered

\* Every step, the restarts and the unchanged ones included, keeps the invariant.
LEMMA ContentNext == ContentInv /\ [Next]_vars => ContentInv'
<1> SUFFICES ASSUME ContentInv, [Next]_vars PROVE ContentInv'
  OBVIOUS
<1>1. CASE StartStep
  BY <1>1, StartStepInv, InitSetIdleStep, RunModeStep DEF StartStep
<1>2. CASE CliStep
  BY <1>2, CliStepInv
<1>3. CASE \E t \in Writers : CmdCB(t)
  <2> PICK t \in Writers : CmdCB(t)
    BY <1>3
  <2>1. t \in Commanders /\ dupkgPathCached \in Packages \union {NoPath}
    BY DEF Commanders, ContentInv, ContentTypeOK
  <2> QED BY <2>1, ServeStep, StopStep DEF CmdCB
<1>4. CASE \E t \in Commanders : ThreadStep(t)
  BY <1>4, AnnounceStep, FinishStep DEF ThreadStep
<1>5. CASE \/ \E nonEmpty \in BOOLEAN : PersistCtxCB(nonEmpty)
           \/ \E r \in Readers : ReadBegin(r) \/ ReadEnd(r)
           \/ UNCHANGED vars
  BY <1>5, CallbackStepInv
<1>6. CASE Restart
  <2>1. Fresh' /\ (ctxStore \in Packages \union {NoPath})'
    BY <1>6 DEF Restart, Fresh, ContentInv, ContentTypeOK
  <2>2. Fresh /\ ctxStore \in Packages \union {NoPath} => ContentInv
    BY FreshInv
  <2> QED BY <2>1, <2>2, FreshInv, PTL
<1> QED BY <1>1, <1>2, <1>3, <1>4, <1>5, <1>6 DEF Next

-----------------------------------------------------------------------------
(* The theorems *)

\* The invariant holds, whatever fails and whoever gives commands.
THEOREM ContentInvariant == Spec => []ContentInv
<1>1. Init => ContentInv
  BY ContentInit
<1>2. ContentInv /\ [Next]_vars => ContentInv'
  BY ContentNext
<1> QED BY <1>1, <1>2, PTL DEF Spec

\* Every variable of the server keeps its type; in particular the store only ever holds
\* a package or nothing, and only listed nodes are exported.
THEOREM ContentTypeCorrect == Spec => []ContentTypeOK
<1>1. ContentInv => ContentTypeOK
  BY DEF ContentInv
<1> QED BY <1>1, ContentInvariant, PTL

\* What the invariant says when nobody is inside executeCmd.
LEMMA OrderlyState ==
  ASSUME ContentInv, Orderly
  PROVE  /\ localPath = served
         /\ state = "CONFIGURED" <=> served # NoPath
         /\ ~trouble => nodes = IF served = NoPath THEN {} ELSE NodesOf(served)
         /\ synced /\ bUseContextStore => ctxStore = served
<1>1. Ordered /\ \A t \in Commanders : ~Inside(t) /\ pc[t] # "finish"
  BY DEF ContentInv, Orderly, Inside
<1>2. ~trouble => nodes = IF served = NoPath THEN {} ELSE NodesOf(served)
  BY <1>1 DEF Ordered, NodesOK
<1> QED BY <1>1, <1>2 DEF Ordered, CommandOK

\* Between commands that do not overlap, the state and localPath are those of the last
\* command that completed (executeCmd's three critical sections).
THEOREM AlwaysServingAsCommanded == Spec => []ServingAsCommanded
<1>1. ContentInv => ServingAsCommanded
  BY OrderlyState DEF ServingAsCommanded
<1> QED BY <1>1, ContentInvariant, PTL

\* ... DU Link shows its files and no others, as long as no export or unlink fails
\* (serveFolder, stopServe).
THEOREM AlwaysExportsExactlyServed == Spec => []ExportsExactlyServed
<1>1. ContentInv => ExportsExactlyServed
  BY OrderlyState DEF ExportsExactlyServed
<1> QED BY <1>1, ContentInvariant, PTL

\* ... and the context store that is in use names it (saveDupkgPathToCtxStore).
THEOREM ContextAlwaysFollowsServed == Spec => []ContextFollowsServed
<1>1. ContentInv => ContextFollowsServed
  BY OrderlyState DEF ContextFollowsServed
<1> QED BY <1>1, ContentInvariant, PTL

=============================================================================
