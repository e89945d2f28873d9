------------------------- MODULE ProcessWatcherProofs -------------------------
(***************************************************************************)
(* Proofs for the process watcher, for any pids, ports, executables,       *)
(* faults and interleavings: a rescan is never applied to a listing        *)
(* without ports, and what the watcher retires is what it announced.       *)
(***************************************************************************)
EXTENDS ProcessWatcher, TLAPS

FlagRec == [bpfWatcherEnabled : BOOLEAN, fetchPorts : BOOLEAN, forceRescan : BOOLEAN]

PollRec == [pc : {"wait", "list", "read", "compare", "stopped"}, fetchPorts : BOOLEAN,
            forceRescan : BOOLEAN, procs : [Pids -> Listed \cup {None}]]

\* A step that leaves the flags and the poll loop alone.
QuietStep == HostStep \/ BpfAttach \/ \E p \in Pids : forgetPIDs({p})

LEMMA QuietUnchanged == QuietStep => UNCHANGED <<flags, poll, pids, tracked>>
BY ZenonT(30) DEF QuietStep, HostStep, ProcStart, ProcReady, ProcAges, ProcExec, ProcExit, BindEnter, processWatchEvent, BindReturn, BpfAttach,
       forgetPIDs, hostVars, bpfVars

LEMMA NextSplit ==
    Next => \/ QuietStep
            \/ bpfWatcherIsReady
            \/ \E port \in Ports : watchNewPort(port)
            \/ targetsChanged
            \/ PollStep
            \/ stop
BY DEF Next, QuietStep, WatchStep, RescanStep

-----------------------------------------------------------------------------
(* The decisions of a poll                                                 *)

\* The three flags are a record of Booleans, and a rescan that is asked for comes with the ports.
RequestInv ==
    /\ flags \in FlagRec
    /\ poll = [pc |-> poll.pc, fetchPorts |-> poll.fetchPorts, forceRescan |-> poll.forceRescan,
               procs |-> poll.procs]
    /\ flags.forceRescan => flags.fetchPorts
    /\ poll.forceRescan => poll.fetchPorts

LEMMA RequestInit == Init => RequestInv
BY DEF Init, RequestInv, FlagRec

LEMMA RequestStep == RequestInv /\ [Next]_vars => RequestInv'
<1> SUFFICES ASSUME RequestInv, [Next]_vars PROVE RequestInv'
    OBVIOUS
<1>1. CASE UNCHANGED <<flags, poll>>
    BY <1>1 DEF RequestInv
<1>2. CASE bpfWatcherIsReady
    BY <1>2, Zenon DEF bpfWatcherIsReady, RequestInv, FlagRec
<1>3. ASSUME NEW port \in Ports, watchNewPort(port) PROVE RequestInv'
    <2> DEFINE b == flags.fetchPorts \/ port \in Interesting
    <2>1. /\ b \in BOOLEAN
          /\ flags' = [flags EXCEPT !.fetchPorts = b]
          /\ flags.fetchPorts => b
          /\ UNCHANGED poll
        BY <1>3 DEF watchNewPort, RequestInv, FlagRec
    <2> HIDE DEF b
    <2> QED
        BY <2>1 DEF RequestInv, FlagRec
<1>4. CASE targetsChanged
    BY <1>4, Zenon DEF targetsChanged, AskRescan, RequestInv, FlagRec
<1>5. CASE pollRequirements
    <2> DEFINE b == flags.fetchPorts /\ ~flags.bpfWatcherEnabled
               c == ~flags.bpfWatcherEnabled \/ flags.fetchPorts
    <2>1. /\ b \in BOOLEAN
          /\ c \in BOOLEAN
          /\ flags' = [flags EXCEPT !.forceRescan = FALSE, !.fetchPorts = b]
          /\ poll' = [poll EXCEPT !.pc = "list", !.fetchPorts = c, !.forceRescan = flags.forceRescan]
          /\ flags.forceRescan => c
        BY <1>5 DEF pollRequirements, RequestInv, FlagRec
    <2> HIDE DEF b, c
    <2> QED
        BY <2>1, Zenon DEF RequestInv, FlagRec
<1>6. CASE fetchStarts
    BY <1>6, Zenon DEF fetchStarts, RequestInv
<1>7. CASE fetchProcessPorts
    BY <1>7, Zenon DEF fetchProcessPorts, RequestInv
<1>8. CASE listFails
    BY <1>8, Zenon DEF listFails, AskRescan, RequestInv, FlagRec
<1>9. CASE snapshot
    <2> DEFINE b == flags.fetchPorts \/ \E p \in Pids : Replaced(p)
    <2>1. /\ b \in BOOLEAN
          /\ flags' = [flags EXCEPT !.fetchPorts = b]
          /\ flags.fetchPorts => b
          /\ poll' = [poll EXCEPT !.pc = "wait", !.fetchPorts = FALSE, !.forceRescan = FALSE, !.procs = NoProcs]
        BY <1>9 DEF snapshot, RequestInv, FlagRec
    <2> HIDE DEF b
    <2> QED
        BY <2>1, Zenon DEF RequestInv, FlagRec
<1>10. CASE stop
    BY <1>10 DEF stop, RequestInv
<1> QED
    BY <1>1, <1>2, <1>3, <1>4, <1>5, <1>6, <1>7, <1>8, <1>9, <1>10, NextSplit, QuietUnchanged
    DEF PollStep, vars

\* A rescan for changed criteria is only ever applied to a listing with ports: pollRequirements takes both
\* decisions in one critical section and rescanProcesses sets them in one.
THEOREM RescanHasPorts == Spec => []RescanSeesPorts
<1>1. RequestInv => RescanSeesPorts
    BY DEF RequestInv, RescanSeesPorts
<1> QED
    BY <1>1, RequestInit, RequestStep, PTL DEF Spec

-----------------------------------------------------------------------------
(* What is remembered is what was announced                                *)

\* The types that tell a process from None, and the property.
HostInv ==
    /\ changes \in 0..MaxChanges
    /\ host \in [Pids -> Process \cup {None}]
    /\ poll \in PollRec

AnnouncedInv ==
    /\ HostInv
    /\ pids \in [Pids -> Identity \cup {None}]
    /\ tracked \in [Pids -> Announced \cup {None}]
    /\ RetiresWhatItAnnounced

LEMMA AnnouncedInit == Init => AnnouncedInv
BY WatcherAssumption DEF Init, NoProcs, AnnouncedInv, HostInv, PollRec, RetiresWhatItAnnounced

LEMMA HostStepHost ==
    ASSUME HostInv, HostStep
    PROVE  changes' \in 0..MaxChanges /\ host' \in [Pids -> Process \cup {None}]
<1> USE WatcherAssumption, NoneAssumption
<1>1. PICK p \in Pids :
          \/ ProcStart(p)
          \/ ProcReady(p)
          \/ ProcAges(p)
          \/ ProcExec(p)
          \/ ProcExit(p)
          \/ \E port \in Ports : BindEnter(p, port) \/ BindReturn(p, port)
    BY DEF HostStep
<1>2. host[p] # None => host[p] \in Process
    BY DEF HostInv
<1>3. CASE ProcStart(p)
    BY <1>3 DEF ProcStart, HostInv, Process
<1>4. CASE ProcReady(p)
    <2>1. [host[p] EXCEPT !.ready = TRUE] \in Process
        BY <1>2, <1>4, Zenon DEF ProcReady, Process
    <2> QED
        BY <1>4, <2>1 DEF ProcReady, HostInv
<1>5. CASE ProcAges(p)
    <2>1. [host[p] EXCEPT !.young = FALSE] \in Process
        BY <1>2, <1>5, Zenon DEF ProcAges, Process
    <2> QED
        BY <1>5, <2>1 DEF ProcAges, HostInv
<1>6. CASE ProcExec(p)
    <2>1. PICK e \in Exes : host' = [host EXCEPT ![p].exe = e]
        BY <1>6, Zenon DEF ProcExec
    <2>2. [host[p] EXCEPT !.exe = e] \in Process
        BY <1>2, <1>6 DEF ProcExec, Process
    <2> QED
        BY <1>6, <2>1, <2>2 DEF ProcExec, HostInv
<1>7. CASE ProcExit(p)
    BY <1>7 DEF ProcExit, HostInv
<1>8. ASSUME NEW port \in Ports, BindEnter(p, port)
      PROVE  changes' \in 0..MaxChanges /\ host' \in [Pids -> Process \cup {None}]
    <2>1. /\ [host[p] EXCEPT !.binding = @ \cup {port}] \in Process
          /\ [host[p] EXCEPT !.ports = @ \cup {port}] \in Process
        BY <1>2, <1>8 DEF BindEnter, Process
    <2> QED
        BY <1>8, <2>1 DEF BindEnter, HostInv
<1>9. ASSUME NEW port \in Ports, BindReturn(p, port)
      PROVE  changes' \in 0..MaxChanges /\ host' \in [Pids -> Process \cup {None}]
    <2>1. [host[p] EXCEPT !.binding = @ \ {port}, !.ports = @ \cup {port}] \in Process
        BY <1>2, <1>9, Zenon DEF BindReturn, Process
    <2>2. host' = [host EXCEPT ![p] = [host[p] EXCEPT !.binding = @ \ {port}, !.ports = @ \cup {port}]]
        BY <1>9, Zenon DEF BindReturn, HostInv
    <2> QED
        BY <1>9, <2>1, <2>2 DEF BindReturn, HostInv
<1> QED
    BY <1>1, <1>3, <1>4, <1>5, <1>6, <1>7, <1>8, <1>9

LEMMA ReadsType ==
    ASSUME HostInv, NEW p \in Pids
    PROVE  Reads(p) \subseteq Listed \cup {None}
<1> SUFFICES ASSUME NEW r \in Reads(p) PROVE r \in Listed \cup {None}
    OBVIOUS
<1>1. CASE poll.procs[p] = None
    BY <1>1 DEF Reads
<1>2. CASE poll.procs[p] # None /\ host[p] = None
    <2>1. poll.procs[p] \in Listed
        BY <1>2 DEF HostInv, PollRec
    <2> QED
        BY <1>2, <2>1 DEF Reads, LeftOut
<1>3. CASE poll.procs[p] # None /\ host[p] # None
    <2>1. host[p].exe \in Exes /\ host[p].ports \in SUBSET Ports /\ host[p].young \in BOOLEAN
        BY <1>3 DEF HostInv, Process
    <2>2. /\ ExeReads(p) \subseteq Exes \cup {NoExe}
          /\ PortReads(p) \subseteq SUBSET Ports
          /\ AgeReads(p) \subseteq BOOLEAN
        BY <2>1, Zenon DEF ExeReads, PortReads, AgeReads
    <2>3. poll.procs[p].start \in 0..MaxChanges
        BY <1>3 DEF HostInv, PollRec, Listed
    <2>4. ASSUME NEW e \in ExeReads(p), NEW q \in PortReads(p), NEW a \in AgeReads(p)
          PROVE  Entry(p, e, q, a) \in Listed
        BY <2>2, <2>3 DEF Entry, Listed
    <2> DEFINE S == {Entry(p, e, q, a) : e \in ExeReads(p), q \in PortReads(p), a \in AgeReads(p)}
    <2>5. S \subseteq Listed
        BY <2>4
    <2>6. Reads(p) = S \cup LeftOut(p)
        BY <1>3 DEF Reads
    <2>7. r \in LeftOut(p) => r = None
        BY DEF LeftOut
    <2> HIDE DEF S
    <2> QED
        BY <2>5, <2>6, <2>7
<1> QED
    BY <1>1, <1>2, <1>3

LEMMA PollStepPoll ==
    ASSUME HostInv, PollStep \/ stop, RequestInv
    PROVE  poll' \in PollRec
<1> USE WatcherAssumption
<1>1. CASE pollRequirements
    <2> DEFINE c == ~flags.bpfWatcherEnabled \/ flags.fetchPorts
    <2>1. /\ c \in BOOLEAN
          /\ flags.forceRescan \in BOOLEAN
          /\ poll' = [poll EXCEPT !.pc = "list", !.fetchPorts = c, !.forceRescan = flags.forceRescan]
        BY <1>1 DEF pollRequirements, RequestInv, FlagRec
    <2> HIDE DEF c
    <2> QED
        BY <2>1, Zenon DEF HostInv, PollRec
<1>2. CASE fetchStarts
    <2>1. PICK unread \in SUBSET Running :
             poll' = [poll EXCEPT !.pc = "read",
                !.procs = [p \in Pids |-> IF p \notin Running THEN None
                                          ELSE [start |-> IF p \in unread THEN 0 ELSE host[p].start,
                                                exe |-> NoExe, ports |-> {}, recent |-> FALSE]]]
        BY <1>2, Zenon DEF fetchStarts
    <2> DEFINE ps == [p \in Pids |-> IF p \notin Running THEN None
                                          ELSE [start |-> IF p \in unread THEN 0 ELSE host[p].start,
                                                exe |-> NoExe, ports |-> {}, recent |-> FALSE]]
    <2>2. ASSUME NEW p \in Running
          PROVE  [start |-> IF p \in unread THEN 0 ELSE host[p].start, exe |-> NoExe, ports |-> {},
                  recent |-> FALSE] \in Listed
        BY DEF Running, HostInv, Process, Listed
    <2>3. ps \in [Pids -> Listed \cup {None}]
        BY <2>2
    <2>4. poll' = [poll EXCEPT !.pc = "read", !.procs = ps]
        BY <2>1
    <2> HIDE DEF ps
    <2> QED
        BY <2>3, <2>4, Zenon DEF HostInv, PollRec
<1>3. CASE fetchProcessPorts
    <2>1. PICK read \in [Pids -> UNION {Reads(p) : p \in Pids}] :
             /\ \A p \in Pids : read[p] \in Reads(p)
             /\ poll' = [poll EXCEPT !.pc = "compare", !.procs = read]
        BY <1>3, Zenon DEF fetchProcessPorts
    <2>2. read \in [Pids -> Listed \cup {None}]
        BY <2>1, ReadsType
    <2> QED
        BY <2>1, <2>2, Zenon DEF HostInv, PollRec
<1>4. CASE listFails
    BY <1>4, Zenon DEF listFails, HostInv, PollRec
<1>5. CASE snapshot
    <2>1. NoProcs \in [Pids -> Listed \cup {None}]
        BY DEF NoProcs
    <2> QED
        BY <1>5, <2>1, Zenon DEF snapshot, HostInv, PollRec
<1>6. CASE stop
    BY <1>6 DEF stop, HostInv, PollRec
<1> QED
    BY <1>1, <1>2, <1>3, <1>4, <1>5, <1>6 DEF PollStep

\* The comparison: a pid that is remembered was announced just now, or is unchanged and was announced before.
LEMMA SnapshotAnnounces ==
    ASSUME AnnouncedInv, snapshot
    PROVE  /\ pids' \in [Pids -> Identity \cup {None}]
           /\ tracked' \in [Pids -> Announced \cup {None}]
           /\ RetiresWhatItAnnounced'
<1> USE NoneAssumption
<1>1. PICK R \in SUBSET MaybeReady :
          /\ pids' = [p \in Pids |-> IF Remembered(p, R) THEN Seen(p) ELSE None]
          /\ tracked' = [p \in Pids |-> TrackedAfter(p, R)]
    BY DEF snapshot
<1>2. ASSUME NEW p \in Pids, poll.procs[p] # None
      PROVE  /\ Seen(p) \in Identity
             /\ poll.procs[p].ports \in SUBSET Ports
    <2>1. poll.procs[p] \in Listed /\ (pids[p] # None => pids[p] \in Identity)
        BY <1>2 DEF AnnouncedInv, HostInv, PollRec
    <2>2. Existing(p) => pids[p] # None
        BY DEF Existing
    <2> QED
        BY <2>1, <2>2 DEF Seen, Identity, Listed
<1>3. ASSUME NEW p \in Pids
      PROVE  /\ TrackedAfter(p, R) \in Announced \cup {None}
             /\ Created(p, R) => TrackedAfter(p, R) \in Announced
    <2> DEFINE before == IF Retired(p) THEN None ELSE tracked[p]
               kept == IF before # None /\ before.start = Seen(p).start /\ before.exe = Seen(p).exe
                       THEN before.ports ELSE {}
    <2>1. before \in Announced \cup {None}
        BY DEF AnnouncedInv
    <2>2. kept \in SUBSET Ports
        BY <2>1 DEF Announced
    <2>3. CASE Created(p, R)
        <3>1. /\ Seen(p).start \in 0..MaxChanges
              /\ Seen(p).exe \in Exes \cup {NoExe}
              /\ poll.procs[p].ports \in SUBSET Ports
            BY <1>2, <2>3 DEF Created, ToNotify, Identity
        <3>2. TrackedAfter(p, R) = [start |-> Seen(p).start, exe |-> Seen(p).exe,
                                    ports |-> kept \cup poll.procs[p].ports]
            BY <2>3 DEF TrackedAfter
        <3> HIDE DEF kept
        <3> QED
            BY <2>2, <3>1, <3>2 DEF Announced
    <2>4. CASE ~Created(p, R)
        BY <2>1, <2>4 DEF TrackedAfter
    <2> QED
        BY <2>3, <2>4
<1>4. pids' \in [Pids -> Identity \cup {None}]
    BY <1>1, <1>2 DEF Remembered
<1>5. tracked' \in [Pids -> Announced \cup {None}]
    BY <1>1, <1>3
<1>6. ASSUME NEW p \in Pids, pids'[p] # None
      PROVE  /\ tracked'[p] # None
             /\ tracked'[p].exe = pids'[p].exe
             /\ tracked'[p].start \in {0, pids'[p].start}
    <2>1. Remembered(p, R) /\ pids'[p] = Seen(p) /\ tracked'[p] = TrackedAfter(p, R)
        BY <1>1, <1>6
    <2>2. CASE Created(p, R)
        <3>1. tracked'[p].exe = Seen(p).exe /\ tracked'[p].start = Seen(p).start
            BY <2>1, <2>2 DEF TrackedAfter
        <3>2. tracked'[p] # None
            BY <1>3, <2>1, <2>2
        <3> QED
            BY <2>1, <3>1, <3>2
    <2>3. CASE ~Created(p, R)
        <3>1. poll.procs[p] # None /\ ~ToNotify(p)
            BY <2>1, <2>3 DEF Remembered, NotReady
        <3>2. Existing(p)
            BY <3>1 DEF ToNotify
        <3>3. pids[p] # None /\ ~Replaced(p) /\ ~Retired(p)
            BY <3>1, <3>2 DEF Existing, Retired, Removed
        <3>4. tracked'[p] = tracked[p]
            BY <2>1, <2>3, <3>3 DEF TrackedAfter
        <3>5. /\ tracked[p] # None
              /\ tracked[p].exe = pids[p].exe
              /\ tracked[p].start \in {0, pids[p].start}
            BY <3>3 DEF AnnouncedInv, RetiresWhatItAnnounced
        <3>6. Seen(p).exe = pids[p].exe
            BY <3>1, <3>2, <3>3 DEF Seen, Replaced
        <3>7. Seen(p).start = pids[p].start \/ pids[p].start = 0
            BY <3>1, <3>3 DEF Seen, Replaced, pidReused
        <3> QED
            BY <2>1, <3>4, <3>5, <3>6, <3>7
    <2> QED
        BY <2>2, <2>3
<1> QED
    BY <1>4, <1>5, <1>6 DEF RetiresWhatItAnnounced

LEMMA AnnouncedStep == AnnouncedInv /\ RequestInv /\ [Next]_vars => AnnouncedInv'
<1> SUFFICES ASSUME AnnouncedInv, RequestInv, [Next]_vars PROVE AnnouncedInv'
    OBVIOUS
<1>1. /\ changes' \in 0..MaxChanges
      /\ host' \in [Pids -> Process \cup {None}]
    <2>1. CASE UNCHANGED <<host, changes>>
        BY <2>1 DEF AnnouncedInv, HostInv
    <2>2. HostStep \/ UNCHANGED <<host, changes>>
        BY Zenon DEF Next, BpfAttach, WatchStep, bpfWatcherIsReady, watchNewPort, RescanStep, targetsChanged, forgetPIDs,
               PollStep, pollRequirements, fetchStarts, fetchProcessPorts, listFails, snapshot, stop, hostVars, vars
    <2> QED
        BY <2>1, <2>2, HostStepHost DEF AnnouncedInv
<1>2. poll' \in PollRec
    <2>1. PollStep \/ stop \/ UNCHANGED poll
        BY NextSplit, QuietUnchanged DEF bpfWatcherIsReady, watchNewPort, targetsChanged, vars
    <2> QED
        BY <2>1, PollStepPoll DEF AnnouncedInv, HostInv
<1>3. /\ pids' \in [Pids -> Identity \cup {None}]
      /\ tracked' \in [Pids -> Announced \cup {None}]
      /\ RetiresWhatItAnnounced'
    <2>1. CASE UNCHANGED <<pids, tracked>>
        BY <2>1 DEF AnnouncedInv, RetiresWhatItAnnounced
    <2>2. snapshot \/ UNCHANGED <<pids, tracked>>
        BY NextSplit, QuietUnchanged, Zenon
        DEF bpfWatcherIsReady, watchNewPort, targetsChanged, PollStep, pollRequirements, fetchStarts,
            fetchProcessPorts, listFails, stop, vars
    <2> QED
        BY <2>1, <2>2, SnapshotAnnounces
<1> QED
    BY <1>1, <1>2, <1>3 DEF AnnouncedInv, HostInv

\* The remaining variables are changed by single assignments of typed values.
RestInv ==
    /\ attached \in BOOLEAN
    /\ readyEvent \in BOOLEAN
    /\ portEvents \in SUBSET Ports
    /\ pidPorts \in SUBSET (Pids \X Ports)
    /\ rescanPIDs \in SUBSET Pids
    /\ owed \in SUBSET Pids

LEMMA RestStep == RestInv /\ [Next]_vars => RestInv'
<1> SUFFICES ASSUME RestInv, [Next]_vars PROVE RestInv'
    OBVIOUS
<1>1. attached' \in BOOLEAN /\ readyEvent' \in BOOLEAN /\ portEvents' \in SUBSET Ports
    <2>1. CASE UNCHANGED bpfVars
        BY <2>1 DEF bpfVars, RestInv
    <2>2. CASE BpfAttach \/ bpfWatcherIsReady
        BY <2>2, Zenon DEF BpfAttach, bpfWatcherIsReady, RestInv
    <2>3. CASE \E port \in Ports : watchNewPort(port)
        BY <2>3 DEF watchNewPort, RestInv
    <2>4. CASE \E p \in Pids, port \in Ports : BindEnter(p, port)
        BY <2>4 DEF BindEnter, processWatchEvent, RestInv
    <2>5. \/ UNCHANGED bpfVars
          \/ BpfAttach \/ bpfWatcherIsReady
          \/ \E port \in Ports : watchNewPort(port)
          \/ \E p \in Pids, port \in Ports : BindEnter(p, port)
        BY ZenonT(30) DEF Next, HostStep, ProcStart, ProcReady, ProcAges, ProcExec, ProcExit, BindReturn, WatchStep, RescanStep,
               targetsChanged, forgetPIDs, PollStep, pollRequirements, fetchStarts, fetchProcessPorts, listFails,
               snapshot, stop, bpfVars, vars
    <2> QED
        BY <2>1, <2>2, <2>3, <2>4, <2>5
<1>2. /\ pidPorts' \in SUBSET (Pids \X Ports)
      /\ rescanPIDs' \in SUBSET Pids
      /\ owed' \in SUBSET Pids
    <2>1. CASE UNCHANGED <<pidPorts, rescanPIDs, owed>>
        BY <2>1 DEF RestInv
    <2>2. CASE snapshot
        BY <2>2 DEF snapshot, RestInv
    <2>3. CASE targetsChanged
        BY <2>3 DEF targetsChanged, Running, RestInv
    <2>4. CASE \E p \in Pids : forgetPIDs({p})
        BY <2>4 DEF forgetPIDs, Running, RestInv
    <2>5. CASE \E p \in Pids : ProcExit(p)
        BY <2>5 DEF ProcExit, RestInv
    <2>6. \/ UNCHANGED <<pidPorts, rescanPIDs, owed>>
          \/ snapshot
          \/ targetsChanged
          \/ \E p \in Pids : forgetPIDs({p})
          \/ \E p \in Pids : ProcExit(p)
        BY ZenonT(30) DEF Next, HostStep, ProcStart, ProcReady, ProcAges, ProcExec, BindEnter, BindReturn, BpfAttach, WatchStep,
               bpfWatcherIsReady, watchNewPort, RescanStep, PollStep, pollRequirements, fetchStarts,
               fetchProcessPorts, listFails, stop, vars
    <2> QED
        BY <2>1, <2>2, <2>3, <2>4, <2>5, <2>6
<1> QED
    BY <1>1, <1>2 DEF RestInv

\* The state of the watcher is well typed, whatever the host does and whichever reads fail.
THEOREM TypeCorrect == Spec => []TypeOK
<1>1. Init => RestInv
    BY Zenon DEF Init, RestInv
<1>2. AnnouncedInv /\ RequestInv /\ RestInv => TypeOK
    BY DEF AnnouncedInv, HostInv, RequestInv, RestInv, PollRec, FlagRec, TypeOK
<1> QED
    BY <1>1, <1>2, RestStep, RequestInit, RequestStep, AnnouncedInit, AnnouncedStep, PTL DEF Spec

\* Every deleted or executable-replaced event names a process and an executable that the pipeline was told of,
\* whatever procfs reads fail and however processes change during a poll.
THEOREM RetiresOnlyAnnounced == Spec => []RetiresWhatItAnnounced
<1>1. AnnouncedInv => RetiresWhatItAnnounced
    BY DEF AnnouncedInv
<1> QED
    BY <1>1, RequestInit, RequestStep, AnnouncedInit, AnnouncedStep, PTL DEF Spec

=============================================================================
