---------------------------- MODULE ProcessWatcher ----------------------------
(***************************************************************************)
(* The process watcher at the head of the discovery pipeline               *)
(* (pkg/appolly/discover/watcher_proc.go).  It lists the processes of the  *)
(* host every PollInterval and sends what changed since the last poll.     *)
(* Listing the open ports is expensive, so it is done only when a BPF      *)
(* probe on bind, an exec or a rescan request asks for it.  Processes come *)
(* and go, also between the reads of one listing and between the listing   *)
(* and its comparison with the previous one.                               *)
(***************************************************************************)
EXTENDS Integers, FiniteSets

CONSTANTS
    Pids,           \* process ids, which the kernel reuses
    Ports,          \* ports that processes bind
    Interesting,    \* the ports that cfg.Port or a selection criterion matches
    Exes,           \* executables (device and inode)
    NoExe,          \* the inode 0 of an executable that could not be read
    None,           \* no process
    MaxChanges,     \* bound: starts and execs of processes
    HasUpdates,     \* whether criteriaUpdates is set
    Faults,         \* the reads that may fail; "drop": a full ring buffer; "bind": a bind may outlast a poll
    Racy,           \* whether processes change in the middle of a poll
    Cancels         \* whether the context may be cancelled

FaultKinds == {"start", "exe", "ports", "ready", "list", "drop", "bind"}

ASSUME WatcherAssumption ==
    /\ MaxChanges \in Nat
    /\ Interesting \subseteq Ports
    /\ NoExe \notin Exes
    /\ Faults \subseteq FaultKinds
    /\ {HasUpdates, Racy, Cancels} \subseteq BOOLEAN

Process == [start : 1..MaxChanges, exe : Exes, ports : SUBSET Ports, binding : SUBSET Ports,
            ready : BOOLEAN, young : BOOLEAN]

\* The attributes of a listed process that the comparison uses: start is 0 when it could not be read, recent
\* stands for a process age that is known and below MinProcessAge.
Listed == [start : 0..MaxChanges, exe : Exes \cup {NoExe}, ports : SUBSET Ports, recent : BOOLEAN]

Identity == [start : 0..MaxChanges, exe : Exes \cup {NoExe}]

Announced == [start : 0..MaxChanges, exe : Exes \cup {NoExe}, ports : SUBSET Ports]

ASSUME NoneAssumption == None \notin Process \cup Listed \cup Identity \cup Announced

VARIABLES
    host,       \* the process that runs under each pid, or None
    changes,    \* starts and execs so far; the count at a start is the start time
    attached,   \* the BPF probe on bind is attached
    readyEvent, \* watcher.Ready is in the channel of the BPF watcher
    portEvents, \* the ports of the watcher.NewPort events in that channel
    pids,       \* pa.pids: the identity of each process of the last poll, or None
    pidPorts,   \* pa.pidPorts
    rescanPIDs, \* pa.rescanPIDs
    flags,      \* bpfWatcherEnabled, fetchPorts and forceRescan
    poll,       \* the poll loop: its place, the decisions it consumed, the listing
    tracked,    \* downstream: the process created last and not retired, with the ports its events carried
    owed        \* history: running processes that a rescan request has yet to announce again

hostVars == <<host, changes>>
bpfVars == <<attached, readyEvent, portEvents>>
vars == <<host, changes, attached, readyEvent, portEvents, pids, pidPorts, rescanPIDs, flags, poll, tracked, owed>>

NoProcs == [p \in Pids |-> None]

Init ==
    /\ host = NoProcs
    /\ changes = 0
    /\ attached = FALSE
    /\ readyEvent = FALSE
    /\ portEvents = {}
    /\ pids = NoProcs
    /\ pidPorts = {}
    /\ rescanPIDs = {}
    /\ flags = [bpfWatcherEnabled |-> FALSE, fetchPorts |-> TRUE, forceRescan |-> FALSE]
    /\ poll = [pc |-> "wait", fetchPorts |-> FALSE, forceRescan |-> FALSE, procs |-> NoProcs]
    /\ tracked = NoProcs
    /\ owed = {}

-----------------------------------------------------------------------------
(* The host                                                                *)

HostMoves == Racy \/ poll.pc \in {"wait", "stopped"}

ProcStart(p) ==
    /\ HostMoves
    /\ host[p] = None
    /\ changes < MaxChanges
    /\ changes' = changes + 1
    /\ \E e \in Exes : host' = [host EXCEPT ![p] = [start |-> changes + 1, exe |-> e, ports |-> {}, binding |-> {},
                                                    ready |-> FALSE, young |-> TRUE]]
    /\ UNCHANGED <<bpfVars, pids, pidPorts, rescanPIDs, flags, poll, tracked, owed>>

\* The link /proc/<pid>/exe names the executable: ExecutableReady starts to hold.
ProcReady(p) ==
    /\ HostMoves
    /\ host[p] # None
    /\ ~host[p].ready
    /\ host' = [host EXCEPT ![p].ready = TRUE]
    /\ UNCHANGED <<changes, bpfVars, pids, pidPorts, rescanPIDs, flags, poll, tracked, owed>>

\* The process reaches MinProcessAge.
ProcAges(p) ==
    /\ HostMoves
    /\ host[p] # None
    /\ host[p].young
    /\ host' = [host EXCEPT ![p].young = FALSE]
    /\ UNCHANGED <<changes, bpfVars, pids, pidPorts, rescanPIDs, flags, poll, tracked, owed>>

\* An exec keeps the start time and the open sockets.
ProcExec(p) ==
    /\ HostMoves
    /\ host[p] # None
    /\ changes < MaxChanges
    /\ changes' = changes + 1
    /\ \E e \in Exes \ {host[p].exe} : host' = [host EXCEPT ![p].exe = e]
    /\ UNCHANGED <<bpfVars, pids, pidPorts, rescanPIDs, flags, poll, tracked, owed>>

ProcExit(p) ==
    /\ HostMoves
    /\ host[p] # None
    /\ host' = [host EXCEPT ![p] = None]
    /\ owed' = owed \ {p}
    /\ UNCHANGED <<changes, bpfVars, pids, pidPorts, rescanPIDs, flags, poll, tracked>>

\* processWatchEvent and sendEvent hand the port of a bind event of the probe to the events channel.
processWatchEvent(port) == portEvents' = portEvents \cup {port}

\* A process that runs its executable calls bind.  The probe is on the entry of the call, so its event comes
\* before the port can be listed.
BindEnter(p, port) ==
    /\ HostMoves
    /\ host[p] # None
    /\ host[p].ready
    /\ port \notin host[p].ports \cup host[p].binding
    /\ \/ attached /\ processWatchEvent(port)
       \/ (~attached \/ "drop" \in Faults) /\ UNCHANGED portEvents
    /\ host' = IF "bind" \in Faults THEN [host EXCEPT ![p].binding = @ \cup {port}]
                                    ELSE [host EXCEPT ![p].ports = @ \cup {port}]
    /\ UNCHANGED <<changes, attached, readyEvent, pids, pidPorts, rescanPIDs, flags, poll, tracked, owed>>

BindReturn(p, port) ==
    /\ HostMoves
    /\ host[p] # None
    /\ port \in host[p].binding
    /\ host' = [host EXCEPT ![p].binding = @ \ {port}, ![p].ports = @ \cup {port}]
    /\ UNCHANGED <<changes, bpfVars, pids, pidPorts, rescanPIDs, flags, poll, tracked, owed>>

-----------------------------------------------------------------------------
(* The BPF watcher and watchForProcessEvents                               *)

\* RunUtilityTracer attaches the probe and Watcher.Run sends Ready before any event of the probe.
BpfAttach ==
    /\ ~attached
    /\ attached' = TRUE
    /\ readyEvent' = TRUE
    /\ UNCHANGED <<hostVars, portEvents, pids, pidPorts, rescanPIDs, flags, poll, tracked, owed>>

bpfWatcherIsReady ==
    /\ poll.pc # "stopped"
    /\ readyEvent
    /\ readyEvent' = FALSE
    /\ flags' = [flags EXCEPT !.bpfWatcherEnabled = TRUE]
    /\ UNCHANGED <<hostVars, attached, portEvents, pids, pidPorts, rescanPIDs, poll, tracked, owed>>

watchNewPort(port) ==
    /\ poll.pc # "stopped"
    /\ ~readyEvent
    /\ port \in portEvents
    /\ portEvents' = portEvents \ {port}
    /\ flags' = [flags EXCEPT !.fetchPorts = @ \/ port \in Interesting]
    /\ UNCHANGED <<hostVars, attached, readyEvent, pids, pidPorts, rescanPIDs, poll, tracked, owed>>

-----------------------------------------------------------------------------
(* runRescanNotify                                                         *)

Running == {p \in Pids : host[p] # None}

forgetPIDs(P) ==
    /\ poll.pc # "stopped"
    /\ rescanPIDs' = rescanPIDs \cup P
    /\ owed' = owed \cup (P \cap Running)
    /\ UNCHANGED <<hostVars, bpfVars, pids, pidPorts, flags, poll, tracked>>

\* Variant: a rescan that does not ask for the ports.
AskRescanOnly(f) == [f EXCEPT !.forceRescan = TRUE]

\* The new value of the flags after rescanProcesses.
AskRescan(f) == [f EXCEPT !.forceRescan = TRUE, !.fetchPorts = TRUE]

\* TargetsChanged: rescanProcesses with criteria updates, else forgetAll.
targetsChanged ==
    /\ poll.pc # "stopped"
    /\ \/ /\ HasUpdates
          /\ flags' = AskRescan(flags)
          /\ UNCHANGED rescanPIDs
       \/ /\ ~HasUpdates
          /\ rescanPIDs' = {p \in Pids : pids[p] # None}
          /\ UNCHANGED flags
    /\ owed' = owed \cup Running
    /\ UNCHANGED <<hostVars, bpfVars, pids, pidPorts, poll, tracked>>

-----------------------------------------------------------------------------
(* The poll loop                                                           *)

\* Variant: the request for ports is consumed also before the BPF watcher is enabled.
pollRequirementsClears ==
    /\ poll.pc = "wait"
    /\ poll' = [poll EXCEPT !.pc = "list",
                            !.fetchPorts = ~flags.bpfWatcherEnabled \/ flags.fetchPorts,
                            !.forceRescan = flags.forceRescan]
    /\ flags' = [flags EXCEPT !.forceRescan = FALSE, !.fetchPorts = FALSE]
    /\ UNCHANGED <<hostVars, bpfVars, pids, pidPorts, rescanPIDs, tracked, owed>>

pollRequirements ==
    /\ poll.pc = "wait"
    /\ poll' = [poll EXCEPT !.pc = "list",
                            !.fetchPorts = ~flags.bpfWatcherEnabled \/ flags.fetchPorts,
                            !.forceRescan = flags.forceRescan]
    /\ flags' = [flags EXCEPT !.forceRescan = FALSE,
                              !.fetchPorts = @ /\ ~flags.bpfWatcherEnabled]
    /\ UNCHANGED <<hostVars, bpfVars, pids, pidPorts, rescanPIDs, tracked, owed>>

\* fetchProcessPorts reads the pids and then, for each, the start time: a process that ends between the two is
\* listed without one, as is a process whose start time cannot be read...
fetchStarts ==
    /\ poll.pc = "list"
    /\ \E unread \in SUBSET Running :
         /\ unread = {} \/ "start" \in Faults
         /\ poll' = [poll EXCEPT !.pc = "read",
                !.procs = [p \in Pids |-> IF p \notin Running THEN None
                                          ELSE [start |-> IF p \in unread THEN 0 ELSE host[p].start,
                                                exe |-> NoExe, ports |-> {}, recent |-> FALSE]]]
    /\ UNCHANGED <<hostVars, bpfVars, pids, pidPorts, rescanPIDs, flags, tracked, owed>>

\* ...the executable, and the ports or else the age.
ExeReads(p) == {host[p].exe} \cup {e \in {NoExe} : "exe" \in Faults}

PortReads(p) == IF poll.fetchPorts THEN {host[p].ports} \cup {q \in {{}} : "ports" \in Faults} ELSE {{}}

AgeReads(p) == IF poll.fetchPorts THEN {FALSE} ELSE {host[p].young} \cup {a \in {FALSE} : "start" \in Faults}

\* A process that is gone, or whose ports cannot be listed, is listed without ports or left out.
LeftOut(p) == {n \in {None} : poll.fetchPorts /\ (host[p] = None \/ "ports" \in Faults)}

Entry(p, e, q, a) == [start |-> poll.procs[p].start, exe |-> e, ports |-> q, recent |-> a]

Reads(p) ==
    IF poll.procs[p] = None THEN {None}
    ELSE (IF host[p] = None THEN {poll.procs[p]}
          ELSE {Entry(p, e, q, a) : e \in ExeReads(p), q \in PortReads(p), a \in AgeReads(p)}) \cup LeftOut(p)

fetchProcessPorts ==
    /\ poll.pc = "read"
    /\ \E read \in [Pids -> UNION {Reads(p) : p \in Pids}] :
         /\ \A p \in Pids : read[p] \in Reads(p)
         /\ poll' = [poll EXCEPT !.pc = "compare", !.procs = read]
    /\ UNCHANGED <<hostVars, bpfVars, pids, pidPorts, rescanPIDs, flags, tracked, owed>>

\* Variant: a failed listing drops the rescan that was asked for.
listFailsForgets ==
    /\ poll.pc = "list"
    /\ "list" \in Faults
    /\ poll' = [poll EXCEPT !.pc = "wait", !.fetchPorts = FALSE, !.forceRescan = FALSE]
    /\ UNCHANGED <<hostVars, bpfVars, pids, pidPorts, rescanPIDs, flags, tracked, owed>>

\* The listing fails: the decision to fetch ports stays consumed unless it came with a rescan.
listFails ==
    /\ poll.pc = "list"
    /\ "list" \in Faults
    /\ flags' = IF poll.forceRescan THEN AskRescan(flags) ELSE flags
    /\ poll' = [poll EXCEPT !.pc = "wait", !.fetchPorts = FALSE, !.forceRescan = FALSE]
    /\ UNCHANGED <<hostVars, bpfVars, pids, pidPorts, rescanPIDs, tracked, owed>>

\* snapshot, for the pid p of the listing.  Another process took the pid, or its executable was replaced:
pidReused(p) ==
    /\ pids[p].start # 0
    /\ poll.procs[p].start # 0
    /\ pids[p].start # poll.procs[p].start

\* Variant: only a change of executable is noticed.
ReplacedByExe(p) ==
    /\ pids[p] # None
    /\ poll.procs[p] # None
    /\ poll.procs[p].exe # NoExe
    /\ pids[p].exe # poll.procs[p].exe


Replaced(p) ==
    /\ pids[p] # None
    /\ poll.procs[p] # None
    /\ pidReused(p) \/ (poll.procs[p].exe # NoExe /\ pids[p].exe # poll.procs[p].exe)

\* the process was there in the last poll and is still the same;
Existing(p) == pids[p] # None /\ poll.procs[p] # None /\ ~Replaced(p)

\* Variant: an unreadable executable replaces the one that was known.
SeenUnread(p) ==
    [start |-> IF pids[p] # None /\ poll.procs[p].start = 0 THEN pids[p].start ELSE poll.procs[p].start,
     exe |-> poll.procs[p].exe]

\* its identity, which keeps what is known of the process where procfs could not be read;
Seen(p) ==
    LET proc == poll.procs[p]
    IN  [start |-> IF pids[p] # None /\ proc.start = 0 THEN pids[p].start ELSE proc.start,
         exe |-> IF Existing(p) /\ proc.exe = NoExe THEN pids[p].exe ELSE proc.exe]

\* checkNewProcessNotification and checkNewProcessConnectionNotification: whether it is to be announced;
Rescanned(p) == p \in rescanPIDs \/ poll.forceRescan

ToNotify(p) ==
    /\ poll.procs[p] # None
    /\ \/ Rescanned(p)
       \/ ~Existing(p)
       \/ \E port \in poll.procs[p].ports : <<p, port>> \notin pidPorts

\* whether it is announced now, given the pids R whose executable is ready.
processTooNew(p) == ~Existing(p) /\ poll.procs[p].recent

Created(p, R) ==
    /\ ToNotify(p)
    /\ p \in R
    /\ ~(poll.procs[p].ports = {} /\ processTooNew(p))

NotReady(p, R) == ToNotify(p) /\ ~Created(p, R)

\* A deleted event for a process of the last poll that is not in the listing.
Removed(p) == pids[p] # None /\ poll.procs[p] = None

\* A deleted or executable-replaced event for what the last poll had under the pid.
Retired(p) == Removed(p) \/ Replaced(p)

\* What the pipeline knows of p after the batch, whose events for p are the retirement and then the creation.
TrackedAfter(p, R) ==
    LET before == IF Retired(p) THEN None ELSE tracked[p]
        carried == poll.procs[p].ports
        kept == IF before # None /\ before.start = Seen(p).start /\ before.exe = Seen(p).exe
                THEN before.ports ELSE {}
    IN  IF Created(p, R) THEN [start |-> Seen(p).start, exe |-> Seen(p).exe, ports |-> kept \cup carried]
        ELSE before

\* ExecutableReady looks at procfs at the time of the comparison.  It holds for a process whose link names an
\* executable, and it may hold for one that ends meanwhile: reading its link then fails with os.ErrNotExist.
ExecutableReady == {p \in Running : host[p].ready}
MaybeReady == ExecutableReady \cup (Pids \ Running)

\* Variant: processes that are not ready are remembered too.
RememberedUnready(p, R) == poll.procs[p] # None

Remembered(p, R) == poll.procs[p] # None /\ ~NotReady(p, R)

snapshot ==
    /\ poll.pc = "compare"
    /\ \E R \in SUBSET MaybeReady :
         /\ ExecutableReady \subseteq R \/ "ready" \in Faults
         /\ pids' = [p \in Pids |-> IF Remembered(p, R) THEN Seen(p) ELSE None]
         /\ pidPorts' = {pp \in Pids \X Ports : Remembered(pp[1], R) /\ pp[2] \in poll.procs[pp[1]].ports}
         /\ tracked' = [p \in Pids |-> TrackedAfter(p, R)]
         /\ owed' = {p \in owed : ~Created(p, R)}
    /\ rescanPIDs' = {}
    /\ flags' = [flags EXCEPT !.fetchPorts = @ \/ \E p \in Pids : Replaced(p)]
    /\ poll' = [poll EXCEPT !.pc = "wait", !.fetchPorts = FALSE, !.forceRescan = FALSE, !.procs = NoProcs]
    /\ UNCHANGED <<hostVars, bpfVars>>

\* The context is cancelled while the loop waits for the next poll, or the BPF watcher could not be loaded.
stop ==
    /\ Cancels
    /\ poll.pc = "wait"
    /\ poll' = [poll EXCEPT !.pc = "stopped"]
    /\ UNCHANGED <<hostVars, bpfVars, pids, pidPorts, rescanPIDs, flags, tracked, owed>>

-----------------------------------------------------------------------------
HostStep ==
    \E p \in Pids :
        \/ ProcStart(p)
        \/ ProcReady(p)
        \/ ProcAges(p)
        \/ ProcExec(p)
        \/ ProcExit(p)
        \/ \E port \in Ports : BindEnter(p, port) \/ BindReturn(p, port)

WatchStep == bpfWatcherIsReady \/ \E port \in Ports : watchNewPort(port)

RescanStep == targetsChanged \/ \E p \in Pids : forgetPIDs({p})

PollStep == pollRequirements \/ fetchStarts \/ fetchProcessPorts \/ listFails \/ snapshot

Next == HostStep \/ BpfAttach \/ WatchStep \/ RescanStep \/ PollStep \/ stop

\* A listing whose reads all succeed.
fetchAll ==
    /\ fetchProcessPorts
    /\ \A p \in Running : poll.procs[p] # None =>
         poll'.procs[p] = Entry(p, host[p].exe, IF poll.fetchPorts THEN host[p].ports ELSE {},
                                ~poll.fetchPorts /\ host[p].young)

\* The poll loop and the reader of the watcher's events keep running, the probe is loaded, processes become
\* ready and grow old, a bind returns, and neither listings nor reads of procfs fail for ever.
Fairness ==
    /\ WF_vars(PollStep)
    /\ SF_vars(fetchStarts) /\ SF_vars(fetchAll)
    /\ WF_vars(WatchStep)
    /\ WF_vars(BpfAttach)
    /\ \A p \in Pids :
         /\ SF_vars(ProcReady(p))
         /\ SF_vars(ProcAges(p))
         /\ \A port \in Ports : SF_vars(BindReturn(p, port))

Spec == Init /\ [][Next]_vars

FairSpec == Spec /\ Fairness

-----------------------------------------------------------------------------
\* The variables have their types.
TypeOK ==
    /\ host \in [Pids -> Process \cup {None}]
    /\ changes \in 0..MaxChanges
    /\ attached \in BOOLEAN
    /\ readyEvent \in BOOLEAN
    /\ portEvents \in SUBSET Ports
    /\ pids \in [Pids -> Identity \cup {None}]
    /\ pidPorts \in SUBSET (Pids \X Ports)
    /\ rescanPIDs \in SUBSET Pids
    /\ flags \in [bpfWatcherEnabled : BOOLEAN, fetchPorts : BOOLEAN, forceRescan : BOOLEAN]
    /\ poll \in [pc : {"wait", "list", "read", "compare", "stopped"}, fetchPorts : BOOLEAN,
                 forceRescan : BOOLEAN, procs : [Pids -> Listed \cup {None}]]
    /\ tracked \in [Pids -> Announced \cup {None}]
    /\ owed \in SUBSET Pids

\* A rescan for changed criteria is only ever applied to a listing made with ports, whenever the request
\* arrives during the poll ("Consume both decisions before listing processes so a later rescan request cannot
\* be applied to results collected without ports").
RescanSeesPorts == poll.forceRescan => poll.fetchPorts

\* What the watcher remembers of a pid, and names in its deleted and executable-replaced events, is what it
\* announced: no process is retired that the pipeline does not know, or knows as another executable.
RetiresWhatItAnnounced ==
    \A p \in Pids : pids[p] # None =>
        /\ tracked[p] # None
        /\ tracked[p].exe = pids[p].exe
        /\ tracked[p].start \in {0, pids[p].start}


\* A process that was announced and not retired is still remembered, so that its exit will be noticed: rescans
\* and refreshes keep "exit detection".
ExitDetectionPreserved == \A p \in Pids : tracked[p] # None => pids[p] # None

\* The pipeline's view settles on the processes that run: each is announced with its start and executable, and
\* none that ended stays.
Agrees(p) ==
    IF host[p] = None THEN tracked[p] = None
    ELSE /\ tracked[p] # None
         /\ tracked[p].start = host[p].start
         /\ tracked[p].exe = host[p].exe
ViewConverges == <>[](\A p \in Pids : Agrees(p))

\* Every running process that a rescan request is about is announced again, or ends, even when listings fail.
RescanAnswered == \A p \in Pids : p \in owed ~> p \notin owed

\* Every interesting port that a process binds, or inherits through an exec, is carried by an event that
\* announces that process with its executable ("as well as PIDs from processes that setup a new connection").
PortKnown(p, port) == Agrees(p) /\ tracked[p] # None /\ port \in tracked[p].ports
PortsReported ==
    \A p \in Pids, port \in Interesting :
        (host[p] # None /\ port \in host[p].ports) ~>
            (host[p] = None \/ port \notin host[p].ports \/ PortKnown(p, port))

=============================================================================
