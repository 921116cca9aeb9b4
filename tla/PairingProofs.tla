---------------------------- MODULE PairingProofs ----------------------------
(***************************************************************************)
(* Proofs about Pairing, for any devices, commands and daemons.            *)
(***************************************************************************)
EXTENDS Pairing, TLAPS

-----------------------------------------------------------------------------
(* Type correctness.                                                       *)

\* A registry that parses is a set of devices.
LEMMA LoadedType ==
    ASSUME FileType
    PROVE  /\ Loaded \in SUBSET Devices
           /\ Readable(file) => file \in SUBSET Devices
BY DEF FileType, Contents, Readable, Loaded

\* A write leaves a possible content.
LEMMA OverwrittenType ==
    ASSUME NEW old, NEW new \in SUBSET Devices
    PROVE  Overwritten(old, new) \subseteq Contents
BY DEF Overwritten, Contents

\* A process that ends gives up its memory only.
LEMMA DieType ==
    ASSUME DaemonType, NEW p \in Daemons, Die(p), UNCHANGED pidFile
    PROVE  DaemonType'
BY DEF DaemonType, Die, Steps, Memory, Blank, Serving

\* A command changes its own record.
LEMMA RecordType ==
    ASSUME CommandType, NEW c \in Commands, NEW r \in CommandState,
           r.at = "killing" => r.pid \in Daemons,
           cmd' = [cmd EXCEPT ![c] = r]
    PROVE  CommandType'
BY DEF CommandType

\* A command that ends has no more than what it was about.
LEMMA ExitType ==
    ASSUME CommandType, NEW c \in Commands, Exit(c)
    PROVE  CommandType'
<1>1. cmd[c] \in CommandState
  BY DEF CommandType
<1>2. [Idle EXCEPT !.at = "done", !.about = cmd[c].about] \in CommandState
  BY <1>1 DEF CommandState, Idle
<1> QED
  BY <1>2, RecordType DEF Exit, Idle

\* Files and commands: reading, writing and renaming devices.json.
LEMMA SaveType ==
    ASSUME TypeOK, NEW c \in Commands, NEW op \in {"pair", "revoke"},
           NEW about \in SUBSET Devices, NEW devices \in SUBSET Devices,
           Save(c, op, about, devices)
    PROVE  TypeOK'
<1>1. FileType'
  BY DEF TypeOK, FileType, Save
<1>2. CommandType'
  <2> DEFINE r == [Idle EXCEPT !.at = "opening", !.op = op, !.about = about,
                               !.save = devices]
  <2>1. r \in CommandState /\ r.at # "killing"
    BY DEF CommandState, Idle
  <2>2. cmd' = [cmd EXCEPT ![c] = r]
    BY DEF Save
  <2> QED
    BY <2>1, <2>2, RecordType DEF TypeOK
<1>3. DaemonType' /\ HistoryType'
  BY DEF TypeOK, DaemonType, HistoryType, Save, fileVars, daemonVars, Serving
<1> QED
  BY <1>1, <1>2, <1>3 DEF TypeOK

\* Steps of a command between opening and renaming the temporary file.
LEMMA WritingType ==
    ASSUME TypeOK, NEW c \in Commands,
           OpenTmp(c) \/ WriteTmp(c) \/ Rename(c) \/ RenameFails(c)
    PROVE  TypeOK'
<1> USE DEF fileVars, daemonVars
<1>1. CASE OpenTmp(c)
  <2> DEFINE r == [cmd[c] EXCEPT !.at = "writing", !.fd = "tmp"]
  <2>1. r \in CommandState /\ r.at # "killing"
    BY DEF TypeOK, CommandType, CommandState
  <2>2. cmd' = [cmd EXCEPT ![c] = r]
    BY <1>1 DEF OpenTmp
  <2>3. CommandType'
    BY <2>1, <2>2, RecordType DEF TypeOK
  <2>4. FileType'
    BY <1>1 DEF TypeOK, FileType, OpenTmp, Contents
  <2> QED
    BY <1>1, <2>3, <2>4 DEF TypeOK, DaemonType, HistoryType, OpenTmp, Serving
<1>2. CASE WriteTmp(c)
  <2>1. cmd[c].save \in SUBSET Devices
    BY DEF TypeOK, CommandType, CommandState
  <2>2. /\ tmp' \in {tmp} \cup Contents
        /\ file' \in {file} \cup Contents
    <3>1. /\ Overwritten(tmp, cmd[c].save) \subseteq Contents
          /\ Overwritten(file, cmd[c].save) \subseteq Contents
      BY <2>1, OverwrittenType
    <3> QED
      BY <1>2, <3>1 DEF WriteTmp
  <2>3. FileType'
    BY <1>2, <2>2 DEF WriteTmp, TypeOK, FileType
  <2> DEFINE r == [cmd[c] EXCEPT !.at = "renaming", !.fd = "none"]
  <2>4. r \in CommandState /\ r.at # "killing"
    BY DEF TypeOK, CommandType, CommandState
  <2>5. cmd' = [cmd EXCEPT ![c] = r]
    BY <1>2 DEF WriteTmp
  <2>6. CommandType'
    BY <2>4, <2>5, RecordType DEF TypeOK
  <2> QED
    BY <1>2, <2>3, <2>6 DEF TypeOK, DaemonType, HistoryType, WriteTmp, Serving
<1>3. CASE Rename(c)
  <2>1. cmd[c].about \subseteq Devices
    BY DEF TypeOK, CommandType, CommandState
  <2>2. FileType' /\ HistoryType'
    BY <1>3, <2>1 DEF Rename, TypeOK, FileType, HistoryType
  <2>3. CommandType'
    <3> DEFINE r(e) == [cmd[e] EXCEPT !.fd = Moved(@),
                           !.at = IF e = c THEN "saved" ELSE @]
    <3>1. \A e \in Commands : cmd[e] \in CommandState
      BY DEF TypeOK, CommandType
    <3>2. ASSUME NEW e \in Commands
          PROVE  /\ r(e) \in CommandState
                 /\ r(e).at = "killing" => r(e).pid \in Daemons
      <4>1. Moved(cmd[e].fd) \in {"none", "tmp", "file", "gone"}
        BY <3>1 DEF CommandState, Moved
      <4> QED
        BY <3>1, <4>1 DEF TypeOK, CommandType, CommandState
    <3>3. cmd' = [e \in Commands |-> r(e)]
      BY <1>3 DEF Rename
    <3> HIDE DEF r
    <3> QED
      BY <3>2, <3>3 DEF CommandType
  <2> QED
    BY <1>3, <2>2, <2>3 DEF TypeOK, DaemonType, Rename, Serving
<1>4. CASE RenameFails(c)
  BY <1>4, ExitType DEF TypeOK, FileType, DaemonType, HistoryType, RenameFails,
              Serving
<1> QED
  BY <1>1, <1>2, <1>3, <1>4

\* Failures, and what commands do with the PID file and the daemon.
LEMMA SignallingType ==
    ASSUME TypeOK, NEW c \in Commands,
           \/ CommandFails(c) \/ BeginReload(c) \/ BeginStatus(c)
           \/ ReadPid(c) \/ CleanPid(c) \/ Kill(c)
    PROVE  TypeOK'
<1> USE DEF fileVars, daemonVars
<1>1. CASE CommandFails(c)
  <2>1. FileType' /\ faults' \in 0..MaxFaults
    BY <1>1, PairingAssumption
       DEF CommandFails, TypeOK, FileType, HistoryType, Contents, Fault
  <2> QED
    BY <1>1, <2>1, ExitType
       DEF TypeOK, DaemonType, HistoryType, CommandFails, Serving
<1>2. ASSUME NEW o \in {"reload", "status"},
             cmd' = [cmd EXCEPT ![c] = [Idle EXCEPT !.at = "saved", !.op = o]]
      PROVE  CommandType'
  <2> DEFINE r == [Idle EXCEPT !.at = "saved", !.op = o]
  <2>1. r \in CommandState /\ r.at # "killing"
    BY DEF CommandState, Idle
  <2> QED
    BY <1>2, <2>1, RecordType DEF TypeOK
<1>3. CASE BeginReload(c) \/ BeginStatus(c)
  <2>1. CommandType'
    BY <1>2, <1>3 DEF BeginReload, BeginStatus
  <2> QED
    BY <1>3, <2>1 DEF TypeOK, FileType, DaemonType, HistoryType, BeginReload,
                      BeginStatus, Serving
<1>4. CASE ReadPid(c)
  <2>1. PICK at \in {"killing", "cleaning", "done"} :
           /\ cmd' = [cmd EXCEPT ![c] = [@ EXCEPT !.at = at, !.pid = pidFile]]
           /\ at = "killing" => pidFile # NoPid
    BY <1>4 DEF ReadPid
  <2> DEFINE r == [cmd[c] EXCEPT !.at = at, !.pid = pidFile]
  <2>2. cmd[c] \in CommandState /\ pidFile \in Daemons \cup {NoPid}
    BY DEF TypeOK, CommandType, DaemonType
  <2>3. r \in CommandState /\ (r.at = "killing" => r.pid \in Daemons)
    BY <2>1, <2>2 DEF CommandState
  <2>4. CommandType'
    BY <2>1, <2>3, RecordType DEF TypeOK
  <2> QED
    BY <1>4, <2>4 DEF TypeOK, FileType, DaemonType, HistoryType, ReadPid, Serving
<1>5. CASE CleanPid(c)
  BY <1>5, ExitType
     DEF TypeOK, FileType, DaemonType, HistoryType, CleanPid, Serving
<1>6. CASE Kill(c)
  <2> DEFINE p == cmd[c].pid
  <2>1. p \in Daemons /\ cmd[c].about \subseteq Devices
    BY <1>6 DEF Kill, TypeOK, CommandType, CommandState
  <2>2. FileType' /\ CommandType'
    BY <1>6, ExitType DEF Kill, TypeOK, FileType
  <2>3. DaemonType'
    <3>1. CASE Die(p)
      BY <1>6, <2>1, <3>1, DieType DEF Kill, TypeOK
    <3>2. CASE UNCHANGED <<pc, mem>> /\ pending' \in {pending, [pending EXCEPT ![p] = TRUE]}
      BY <1>6, <2>1, <3>2 DEF Kill, TypeOK, DaemonType, Serving
    <3> QED
      BY <1>6, <3>1, <3>2 DEF Kill
  <2>4. HistoryType'
    BY <1>6, <2>1 DEF Kill, TypeOK, HistoryType
  <2> QED
    BY <2>2, <2>3, <2>4 DEF TypeOK
<1> QED
  BY <1>1, <1>3, <1>4, <1>5, <1>6

\* Every step of a command.
LEMMA CommandKeepsType ==
    ASSUME TypeOK, NEW c \in Commands, Command(c)
    PROVE  TypeOK'
<1>1. ASSUME NEW d \in Devices, BeginPair(c, d)
      PROVE  TypeOK'
  <2>1. file \cup {d} \in SUBSET Devices
    BY <1>1, LoadedType DEF TypeOK, BeginPair, Save
  <2> QED
    BY <1>1, <2>1, SaveType DEF BeginPair
<1>2. ASSUME NEW gone \in SUBSET Loaded, BeginRevoke(c, gone)
      PROVE  TypeOK'
  <2>1. gone \in SUBSET Devices /\ file \ gone \in SUBSET Devices
    BY <1>2, LoadedType DEF TypeOK, BeginRevoke, Save
  <2> QED
    BY <1>2, <2>1, SaveType DEF BeginRevoke
<1> QED
  BY <1>1, <1>2, WritingType, SignallingType DEF Command

\* A daemon moves on and changes its memory, to something of its type in
\* which who was seen is known.
LEMMA StepType ==
    ASSUME DaemonType, NEW p \in Daemons, NEW from, NEW to \in Steps,
           Step(p, from, to), NEW m \in Memory, m.seen \subseteq m.known,
           \/ to \in {"serving", "up", "reload", "applied", "unwinding"}
           \/ m.users = {} /\ m.seen = {},
           mem' = [mem EXCEPT ![p] = m],
           pidFile' \in Daemons \cup {NoPid},
           pending' \in [Daemons -> BOOLEAN]
    PROVE  DaemonType'
BY DEF DaemonType, Step, Serving

\* A daemon moves on with the memory it has.
LEMMA QuietStepType ==
    ASSUME DaemonType, NEW p \in Daemons, NEW from, NEW to \in Steps,
           Step(p, from, to), UNCHANGED mem,
           \/ to \in {"serving", "up", "reload", "applied", "unwinding"}
           \/ from \notin {"serving", "up", "reload", "applied", "unwinding"},
           pidFile' \in Daemons \cup {NoPid},
           pending' \in [Daemons -> BOOLEAN]
    PROVE  DaemonType'
BY DEF DaemonType, Step, Serving

\* Faults of a daemon stay within their bound.
LEMMA FaultType ==
    ASSUME HistoryType, UNCHANGED <<revoked, promised>>,
           Fault \/ UNCHANGED faults
    PROVE  HistoryType'
BY PairingAssumption DEF HistoryType, Fault

\* Files and commands keep their types when they are left alone.
LEMMA OthersType ==
    ASSUME TypeOK, UNCHANGED <<fileVars, cmd>>
    PROVE  FileType' /\ CommandType'
BY DEF TypeOK, FileType, CommandType, fileVars

\* Start-up and shutdown steps that leave the memory alone.
LEMMA QuietType ==
    ASSUME TypeOK, NEW p \in Daemons,
           \/ Start(p) \/ LookAgain(p) \/ CleanStale(p) \/ WritePid(p)
           \/ Notify(p) \/ Interrupt(p) \/ StopSignals(p) \/ CheckOwner(p)
           \/ RemovePid(p)
    PROVE  TypeOK'
<1>1. /\ FileType' /\ CommandType'
      /\ pidFile' \in Daemons \cup {NoPid}
      /\ pending' \in [Daemons -> BOOLEAN]
      /\ UNCHANGED <<mem, revoked, promised>>
      /\ Fault \/ UNCHANGED faults
  BY OthersType DEF TypeOK, DaemonType, fileVars, Start, LookAgain, CleanStale,
                    WritePid, Notify, Interrupt, StopSignals, CheckOwner, RemovePid
<1>2. HistoryType'
  BY <1>1, FaultType DEF TypeOK
<1>3. PICK from \in Steps, to \in Steps :
         /\ Step(p, from, to)
         /\ \/ to \in {"serving", "up", "reload", "applied", "unwinding"}
            \/ from \notin {"serving", "up", "reload", "applied", "unwinding"}
  BY DEF Start, LookAgain, CleanStale, WritePid, Notify, Interrupt, StopSignals,
         CheckOwner, RemovePid, Steps
<1>4. DaemonType'
  BY <1>1, <1>3, QuietStepType DEF TypeOK
<1> QED
  BY <1>1, <1>2, <1>4 DEF TypeOK

\* Steps that read devices.json or apply what was read.
LEMMA LoadingType ==
    ASSUME TypeOK, NEW p \in Daemons,
           \/ TrackDevices(p) \/ ReadDevices(p) \/ StartBroker(p)
           \/ EnsureJetStream(p) \/ Reload(p) \/ ReloadAuth(p)
           \/ FinishReload(p) \/ ShutBroker(p)
    PROVE  TypeOK'
<1>1. /\ FileType' /\ CommandType'
      /\ pidFile' \in Daemons \cup {NoPid}
      /\ pending' \in [Daemons -> BOOLEAN]
      /\ UNCHANGED <<revoked, promised>>
      /\ Fault \/ UNCHANGED faults
  BY OthersType DEF TypeOK, DaemonType, fileVars, TrackDevices, ReadDevices,
                    StartBroker, EnsureJetStream, Reload, ReloadAuth,
                    FinishReload, ShutBroker
<1>2. HistoryType'
  BY <1>1, FaultType DEF TypeOK
<1>3. mem[p] \in Memory /\ mem[p].seen \subseteq mem[p].known
      /\ Loaded \in SUBSET Devices
  BY LoadedType DEF TypeOK, DaemonType
<1>4. ASSUME NEW from, NEW to \in Steps, Step(p, from, to),
             NEW m \in Memory, m.seen \subseteq m.known,
             \/ to \in {"serving", "up", "reload", "applied", "unwinding"}
             \/ m.users = {} /\ m.seen = {},
             mem' = [mem EXCEPT ![p] = m]
      PROVE  TypeOK'
  BY <1>1, <1>2, <1>4, StepType DEF TypeOK
<1>5. ~Serving(p) => mem[p].users = {} /\ mem[p].seen = {}
  BY DEF TypeOK, DaemonType
<1>6. CASE TrackDevices(p)
  <2> DEFINE m == [mem[p] EXCEPT !.known = Loaded]
  <2>1. Step(p, "named", "tracking") /\ mem' = [mem EXCEPT ![p] = m]
    BY <1>6 DEF TrackDevices
  <2>2. m \in Memory /\ m.seen \subseteq m.known /\ m.users = {} /\ m.seen = {}
    BY <1>3, <1>5, <2>1 DEF Memory, Step, Serving
  <2> QED
    BY <2>1, <2>2, <1>4 DEF Steps
<1>7. CASE ReadDevices(p)
  <2> DEFINE m == [mem[p] EXCEPT !.read = Loaded]
             to == IF Readable(file) THEN "loaded" ELSE "unwinding"
  <2>1. Step(p, "listening", to) /\ mem' = [mem EXCEPT ![p] = m]
    BY <1>7 DEF ReadDevices
  <2>2. m \in Memory /\ m.seen \subseteq m.known /\ m.users = {} /\ m.seen = {}
    BY <1>3, <1>5, <2>1 DEF Memory, Step, Serving
  <2> QED
    BY <2>1, <2>2, <1>4 DEF Steps
<1>8. CASE StartBroker(p)
  <2>1. PICK users \in {mem[p].read, {}}, to \in {"serving", "unwinding"} :
           /\ Step(p, "loaded", to)
           /\ mem' = [mem EXCEPT ![p] = [@ EXCEPT !.users = users, !.read = {}]]
    BY <1>8 DEF StartBroker
  <2> DEFINE m == [mem[p] EXCEPT !.users = users, !.read = {}]
  <2>2. m \in Memory /\ m.seen \subseteq m.known
    BY <1>3 DEF Memory
  <2> QED
    BY <2>1, <2>2, <1>4 DEF Steps
<1>9. CASE EnsureJetStream(p)
  <2>1. CASE mem' = [mem EXCEPT ![p].consumers = Loaded] /\ Step(p, "serving", "up")
    <3> DEFINE m == [mem[p] EXCEPT !.consumers = Loaded]
    <3>1. m \in Memory /\ m.seen \subseteq m.known
      BY <1>3 DEF Memory
    <3> QED
      BY <2>1, <3>1, <1>4 DEF Steps
  <2>2. CASE UNCHANGED mem /\ Step(p, "serving", "unwinding")
    BY <1>1, <1>2, <2>2, QuietStepType DEF TypeOK, Steps
  <2> QED
    BY <1>9, <2>1, <2>2 DEF EnsureJetStream
<1>10. CASE Reload(p)
  <2>1. PICK read \in {mem[p].read, Loaded}, to \in {"reload", "up"} :
           Step(p, "up", to) /\ mem' = [mem EXCEPT ![p].read = read]
    BY <1>10 DEF Reload, Loaded
  <2> DEFINE m == [mem[p] EXCEPT !.read = read]
  <2>2. m \in Memory /\ m.seen \subseteq m.known
    BY <1>3 DEF Memory
  <2> QED
    BY <2>1, <2>2, <1>4 DEF Steps
<1>11. CASE ReloadAuth(p)
  <2>1. CASE Step(p, "reload", "applied") /\ mem' = [mem EXCEPT ![p].users = mem[p].read]
    <3> DEFINE m == [mem[p] EXCEPT !.users = mem[p].read]
    <3>1. m \in Memory /\ m.seen \subseteq m.known
      BY <1>3 DEF Memory
    <3> QED
      BY <2>1, <3>1, <1>4 DEF Steps
  <2>2. CASE Step(p, "reload", "up") /\ mem' = [mem EXCEPT ![p].read = {}]
    <3> DEFINE m == [mem[p] EXCEPT !.read = {}]
    <3>1. m \in Memory /\ m.seen \subseteq m.known
      BY <1>3 DEF Memory
    <3> QED
      BY <2>2, <3>1, <1>4 DEF Steps
  <2> QED
    BY <1>11, <2>1, <2>2 DEF ReloadAuth
<1>12. CASE FinishReload(p)
  <2> DEFINE m == Track(mem[p])
             n == [Track(mem[p]) EXCEPT !.consumers = @ \cup mem[p].read]
  <2>1. /\ m \in Memory /\ m.seen \subseteq m.known
        /\ n \in Memory /\ n.seen \subseteq n.known
    BY <1>3 DEF Memory, Track
  <2>2. Step(p, "applied", "up")
    BY <1>12 DEF FinishReload
  <2>3. CASE mem' = [mem EXCEPT ![p] = m]
    BY <2>1, <2>2, <2>3, <1>4 DEF Steps
  <2>4. CASE mem' = [mem EXCEPT ![p] = n]
    BY <2>1, <2>2, <2>4, <1>4 DEF Steps
  <2> QED
    BY <1>12, <2>3, <2>4 DEF FinishReload
<1>13. CASE ShutBroker(p)
  <2>1. Blank \in Memory /\ Blank.seen = {} /\ Blank.users = {} /\ Blank.known = {}
    BY DEF Blank, Memory
  <2> QED
    BY <1>13, <2>1, <1>4 DEF ShutBroker, Steps
<1> QED
  BY <1>6, <1>7, <1>8, <1>9, <1>10, <1>11, <1>12, <1>13

\* A heartbeat of a known device.
LEMMA HeartbeatType ==
    ASSUME TypeOK, NEW p \in Daemons, NEW d \in Devices, Heartbeat(p, d)
    PROVE  TypeOK'
<1>1. FileType' /\ CommandType' /\ HistoryType'
  BY OthersType DEF TypeOK, Heartbeat, HistoryType, fileVars
<1>2. DaemonType'
  <2> DEFINE m == [mem[p] EXCEPT !.seen = @ \cup {d}]
  <2>1. m \in Memory /\ m.seen \subseteq m.known
    BY DEF TypeOK, DaemonType, Memory, Heartbeat
  <2>2. mem' = [mem EXCEPT ![p] = m] /\ Serving(p) /\ UNCHANGED <<pc, pending, pidFile>>
    BY DEF Heartbeat, Running, Serving
  <2> QED
    BY <2>1, <2>2 DEF TypeOK, DaemonType, Serving
<1> QED
  BY <1>1, <1>2 DEF TypeOK

\* A daemon that dies.
LEMMA CrashType ==
    ASSUME TypeOK, NEW p \in Daemons, Crash(p)
    PROVE  TypeOK'
BY OthersType, DieType DEF TypeOK, Crash, HistoryType, fileVars

\* Every file, command, daemon and history stays of its kind, whatever
\* commands and daemons do next to each other.
THEOREM TypeCorrect == Spec => []TypeOK
<1>1. Init => TypeOK
  <2> SUFFICES ASSUME Init
               PROVE  TypeOK
    OBVIOUS
  <2>1. FileType /\ HistoryType
    <3>1. file \in Contents /\ tmp \in {NoFile} \cup Contents
      BY DEF Init, Contents
    <3>2. promised \subseteq Daemons \X revoked
      BY DEF Init
    <3>3. faults \in 0..MaxFaults
      BY PairingAssumption DEF Init
    <3> QED
      BY <3>1, <3>2, <3>3 DEF Init, FileType, HistoryType
  <2>2. Idle \in CommandState /\ Idle.at # "killing"
    BY DEF Idle, CommandState
  <2>3. CommandType
    BY <2>2 DEF Init, CommandType
  <2>4. Blank \in Memory /\ Blank.users = {} /\ Blank.seen = {}
    BY DEF Blank, Memory
  <2>5. DaemonType
    BY <2>4 DEF Init, DaemonType, Steps
  <2> QED
    BY <2>1, <2>3, <2>5 DEF TypeOK
<1>2. TypeOK /\ [Next]_vars => TypeOK'
  <2> SUFFICES ASSUME TypeOK, [Next]_vars
               PROVE  TypeOK'
    OBVIOUS
  <2>1. ASSUME NEW p \in Daemons, Daemon(p)
        PROVE  TypeOK'
    BY <2>1, QuietType, LoadingType DEF Daemon
  <2>2. CASE UNCHANGED vars
    BY <2>2 DEF TypeOK, FileType, CommandType, DaemonType, HistoryType, vars,
                fileVars, daemonVars, Serving
  <2> QED
    BY <2>1, <2>2, CommandKeepsType, QuietType, HeartbeatType, CrashType DEF Next
<1> QED
  BY <1>1, <1>2, PTL DEF Spec

-----------------------------------------------------------------------------
(* The registry.                                                           *)

\* A change in progress is one change of the registry as it is, of devices
\* never paired or of some that are there, and the temporary file holds of
\* it what its command has got to.
ChangeInv(c) ==
    /\ \/ /\ cmd[c].op = "pair" /\ cmd[c].about \cap paired = {}
          /\ cmd[c].save = file \cup cmd[c].about
       \/ /\ cmd[c].op = "revoke" /\ cmd[c].about \subseteq file
          /\ cmd[c].save = file \ cmd[c].about
    /\ cmd[c].at = "writing" => cmd[c].fd = "tmp" /\ tmp = Empty
    /\ cmd[c].at = "renaming" => tmp = cmd[c].save

\* While commands do not overlap: the file is the registry, and one change at
\* most is in progress.
RegistryInv ==
    ~overlapped =>
       /\ file = paired \ revoked /\ revoked \subseteq paired
       /\ \A c, e \in Changing : c = e
       /\ \A c \in Changing : ChangeInv(c)

\* Whatever does not touch files nor commands.
LEMMA RegistryFrame ==
    ASSUME RegistryInv, UNCHANGED <<fileVars, cmd>>
    PROVE  RegistryInv'
BY DEF RegistryInv, ChangeInv, Changing, fileVars

\* A command that is not changing the registry, or stops doing so, leaves the
\* invariant to the others.
LEMMA RegistryLeave ==
    ASSUME RegistryInv, TypeOK, NEW c \in Commands, NEW r,
           cmd' = [cmd EXCEPT ![c] = r],
           r.at \notin {"opening", "writing", "renaming"},
           UNCHANGED <<paired, revoked, overlapped>>,
           overlapped \/ UNCHANGED file,
           c \notin Changing => UNCHANGED tmp
    PROVE  RegistryInv'
<1> SUFFICES ASSUME ~overlapped
             PROVE  RegistryInv'
  BY DEF RegistryInv
<1>1. Changing' = Changing \ {c}
  BY DEF Changing, TypeOK, CommandType
<1>2. \A e \in Changing \ {c} : cmd'[e] = cmd[e]
  BY DEF Changing, TypeOK, CommandType
<1>3. Changing \ {c} = {} \/ UNCHANGED tmp
  BY DEF RegistryInv
<1> QED
  BY <1>1, <1>2, <1>3 DEF RegistryInv, ChangeInv

\* A command goes on with its change.
LEMMA RegistryGoOn ==
    ASSUME RegistryInv, TypeOK, NEW c \in Changing,
           UNCHANGED <<file, paired, revoked, overlapped>>,
           NEW r, cmd' = [cmd EXCEPT ![c] = r],
           r.at \in {"opening", "writing", "renaming"},
           ~overlapped => ChangeInv(c)'
    PROVE  RegistryInv'
<1> SUFFICES ASSUME ~overlapped
             PROVE  RegistryInv'
  BY DEF RegistryInv
<1>1. Changing' = Changing
  BY DEF Changing, TypeOK, CommandType
<1>2. Changing = {c}
  BY DEF RegistryInv
<1> QED
  BY <1>1, <1>2 DEF RegistryInv

\* Every step of a command keeps the registry invariant.
LEMMA RegistryCommand ==
    ASSUME TypeOK, RegistryInv, NEW c \in Commands, Command(c)
    PROVE  RegistryInv'
<1>1. cmd[c] \in CommandState /\ cmd \in [Commands -> CommandState]
  BY DEF TypeOK, CommandType
<1>2. ASSUME NEW op, NEW about, NEW devices, Save(c, op, about, devices),
             \/ /\ op = "pair" /\ about \cap paired = {}
                /\ devices = file \cup about
             \/ /\ op = "revoke" /\ about \subseteq file
                /\ devices = file \ about
      PROVE  RegistryInv'
  <2> SUFFICES ASSUME ~overlapped'
               PROVE  RegistryInv'
    BY DEF RegistryInv
  <2>1. ~overlapped /\ Changing = {} /\ UNCHANGED <<file, tmp, paired, revoked>>
    BY <1>2 DEF Save, TypeOK, FileType
  <2> DEFINE r == [Idle EXCEPT !.at = "opening", !.op = op, !.about = about,
                               !.save = devices]
  <2>2. cmd' = [cmd EXCEPT ![c] = r]
    BY <1>2 DEF Save
  <2>3. /\ cmd'[c].at = "opening" /\ cmd'[c].op = op
        /\ cmd'[c].about = about /\ cmd'[c].save = devices
    BY <1>1, <2>2 DEF Idle
  <2>4. Changing' = {c}
    BY <1>1, <2>1, <2>2, <2>3 DEF Changing
  <2>5. ChangeInv(c)'
    BY <1>2, <2>1, <2>3 DEF ChangeInv
  <2> QED
    BY <2>1, <2>4, <2>5 DEF RegistryInv
<1>3. ASSUME NEW d \in Devices, BeginPair(c, d)
      PROVE  RegistryInv'
  BY <1>2, <1>3 DEF BeginPair
<1>4. ASSUME NEW gone \in SUBSET Loaded, BeginRevoke(c, gone)
      PROVE  RegistryInv'
  BY <1>2, <1>4 DEF BeginRevoke, Loaded, Save
<1>5. CASE OpenTmp(c)
  <2>1. c \in Changing
    BY <1>5 DEF OpenTmp, Changing
  <2> DEFINE r == [cmd[c] EXCEPT !.at = "writing", !.fd = "tmp"]
  <2>2. /\ cmd' = [cmd EXCEPT ![c] = r] /\ tmp' = Empty
        /\ UNCHANGED <<file, paired, revoked, overlapped>>
    BY <1>5 DEF OpenTmp
  <2>3. /\ r.at = "writing" /\ r.fd = "tmp" /\ r.op = cmd[c].op
        /\ r.about = cmd[c].about /\ r.save = cmd[c].save
    BY <1>1 DEF CommandState
  <2>4. ~overlapped => ChangeInv(c)'
    BY <1>1, <2>1, <2>2, <2>3 DEF RegistryInv, ChangeInv
  <2> QED
    BY <2>1, <2>2, <2>3, <2>4, RegistryGoOn
<1>6. CASE WriteTmp(c)
  <2>1. c \in Changing /\ cmd[c].at = "writing"
    BY <1>6 DEF WriteTmp, Changing
  <2> DEFINE r == [cmd[c] EXCEPT !.at = "renaming", !.fd = "none"]
  <2>2. /\ cmd' = [cmd EXCEPT ![c] = r]
        /\ UNCHANGED <<paired, revoked, overlapped>>
    BY <1>6 DEF WriteTmp
  <2>3. /\ r.at = "renaming" /\ r.op = cmd[c].op
        /\ r.about = cmd[c].about /\ r.save = cmd[c].save
    BY <1>1 DEF CommandState
  <2>4. CASE overlapped
    BY <2>2, <2>4 DEF RegistryInv
  <2>5. CASE ~overlapped
    <3>1. ChangeInv(c) /\ cmd[c].fd = "tmp" /\ tmp = Empty
      BY <2>1, <2>5 DEF RegistryInv, ChangeInv
    <3>2. tmp' = cmd[c].save /\ file' = file
      BY <1>6, <3>1 DEF WriteTmp, Overwritten
    <3>3. ChangeInv(c)'
      BY <1>1, <2>2, <2>3, <3>1, <3>2 DEF ChangeInv
    <3> QED
      BY <2>1, <2>2, <2>3, <3>2, <3>3, RegistryGoOn
  <2> QED
    BY <2>4, <2>5
<1>7. CASE Rename(c)
  <2> SUFFICES ASSUME ~overlapped'
               PROVE  RegistryInv'
    BY DEF RegistryInv
  <2>1. c \in Changing /\ ~overlapped /\ cmd[c].at = "renaming"
    BY <1>7 DEF Rename, Changing
  <2>2. ChangeInv(c) /\ tmp = cmd[c].save /\ Changing = {c}
    BY <2>1 DEF RegistryInv, ChangeInv
  <2>3. Changing' = {}
    <3>1. ASSUME NEW e \in Commands
          PROVE  cmd'[e].at = IF e = c THEN "saved" ELSE cmd[e].at
      BY <1>1, <1>7 DEF Rename, CommandState
    <3>2. \A e \in Commands \ {c} :
             cmd[e].at \notin {"opening", "writing", "renaming"}
      BY <2>2 DEF Changing
    <3> QED
      BY <3>1, <3>2 DEF Changing
  <2>4. /\ file' = cmd[c].save
        /\ file = paired \ revoked /\ revoked \subseteq paired
    <3>1. file' = tmp
      BY <1>7 DEF Rename
    <3>2. file = paired \ revoked /\ revoked \subseteq paired
      BY <2>1 DEF RegistryInv
    <3> QED
      BY <2>2, <3>1, <3>2
  <2>5. CASE cmd[c].op = "pair"
    <3>1. /\ paired' = paired \cup cmd[c].about /\ revoked' = revoked
          /\ cmd[c].about \cap paired = {}
          /\ cmd[c].save = file \cup cmd[c].about
      BY <1>7, <2>2, <2>5 DEF Rename, ChangeInv
    <3> QED
      BY <2>3, <2>4, <3>1 DEF RegistryInv
  <2>6. CASE cmd[c].op = "revoke"
    <3>1. /\ paired' = paired /\ revoked' = revoked \cup cmd[c].about
          /\ cmd[c].about \subseteq file /\ cmd[c].save = file \ cmd[c].about
      BY <1>7, <2>2, <2>6 DEF Rename, ChangeInv
    <3> QED
      BY <2>3, <2>4, <3>1 DEF RegistryInv
  <2> QED
    BY <2>2, <2>5, <2>6 DEF ChangeInv
<1>8. CASE \/ RenameFails(c) \/ CommandFails(c) \/ CleanPid(c) \/ Kill(c)
  <2> DEFINE r == [Idle EXCEPT !.at = "done", !.about = cmd[c].about]
  <2>1. /\ cmd' = [cmd EXCEPT ![c] = r]
        /\ UNCHANGED <<paired, revoked, overlapped>>
        /\ cmd[c].at \notin {"opening", "writing", "renaming"} => UNCHANGED tmp
        /\ (cmd[c].at = "writing" /\ cmd[c].fd = "file") \/ UNCHANGED file
    BY <1>8 DEF RenameFails, CommandFails, CleanPid, Kill, Exit, fileVars
  <2>2. r.at = "done"
    BY DEF Idle
  <2>3. overlapped \/ ~(cmd[c].at = "writing" /\ cmd[c].fd = "file")
    BY DEF RegistryInv, Changing, ChangeInv
  <2> QED
    BY <2>1, <2>2, <2>3, RegistryLeave DEF Changing
<1>9. CASE \/ BeginReload(c) \/ BeginStatus(c) \/ ReadPid(c)
  <2>1. PICK r : /\ cmd' = [cmd EXCEPT ![c] = r]
                 /\ r.at \in {"saved", "killing", "cleaning", "done"}
    <3>1. CASE BeginReload(c) \/ BeginStatus(c)
      <4>1. \A o : [Idle EXCEPT !.at = "saved", !.op = o].at = "saved"
        BY DEF Idle
      <4> QED
        BY <3>1, <4>1 DEF BeginReload, BeginStatus
    <3>2. CASE ReadPid(c)
      <4>1. PICK at \in {"killing", "cleaning", "done"} :
               cmd' = [cmd EXCEPT ![c] = [@ EXCEPT !.at = at, !.pid = pidFile]]
        BY <3>2 DEF ReadPid
      <4>2. [cmd[c] EXCEPT !.at = at, !.pid = pidFile].at = at
        BY <1>1 DEF CommandState
      <4> QED
        BY <4>1, <4>2
    <3> QED
      BY <1>9, <3>1, <3>2
  <2>2. UNCHANGED fileVars
    BY <1>9 DEF BeginReload, BeginStatus, ReadPid
  <2> QED
    BY <2>1, <2>2, RegistryLeave DEF fileVars
<1> QED
  BY <1>3, <1>4, <1>5, <1>6, <1>7, <1>8, <1>9 DEF Command

\* The registry invariant is inductive.
LEMMA RegistryStep ==
    ASSUME TypeOK, RegistryInv, [Next]_vars
    PROVE  RegistryInv'
<1>1. ASSUME NEW c \in Commands, Command(c)
      PROVE  RegistryInv'
  BY <1>1, RegistryCommand
<1>2. CASE ~ \E c \in Commands : Command(c)
  <2>1. UNCHANGED <<fileVars, cmd>>
    BY <1>2 DEF Next, vars, Daemon, Start, LookAgain, CleanStale, WritePid,
       TrackDevices, Notify, ReadDevices, StartBroker, EnsureJetStream, Reload,
       ReloadAuth, FinishReload, Interrupt, ShutBroker, StopSignals, CheckOwner,
       RemovePid, Crash, Heartbeat
  <2> QED
    BY <2>1, RegistryFrame
<1> QED
  BY <1>1, <1>2

\* The registry invariant with the types, of every reachable state.
LEMMA RegistryInvariant == Spec => [](TypeOK /\ RegistryInv)
<1>1. Init => RegistryInv
  BY DEF Init, RegistryInv, Changing, Idle
<1>2. TypeOK /\ RegistryInv /\ [Next]_vars => RegistryInv'
  BY RegistryStep
<1> QED
  BY <1>1, <1>2, TypeCorrect, PTL DEF Spec

\* As long as no two commands change devices.json at a time, it holds exactly
\* the devices paired and not revoked, for any number of devices and commands
\* and at every point where a command may die.
THEOREM RegistryKept == Spec => []PairedUntilRevoked
<1>1. RegistryInv => PairedUntilRevoked
  BY DEF RegistryInv, PairedUntilRevoked
<1> QED
  BY <1>1, RegistryInvariant, PTL

-----------------------------------------------------------------------------
(* Revoked devices are cut off.                                            *)

\* What a daemon owes a device it was told to be revoked: to have no such
\* user, or to be about to lose it; and not to make it one out of what it
\* has read before.
Kept(p, d) ==
    /\ d \in mem[p].users => pending[p] \/ (pc[p] = "reload" /\ d \notin mem[p].read)
    /\ (pc[p] \in {"loaded", "reload"} /\ d \in mem[p].read) => pending[p]

PromiseInv ==
    (faults = 0 /\ ~overlapped) =>
       \A p \in Daemons, d \in Devices : <<p, d>> \in promised => Kept(p, d)

\* A step of one daemon has to be looked at for that daemon only.
LEMMA PromiseOne ==
    ASSUME TypeOK, PromiseInv, NEW p \in Daemons, UNCHANGED promised,
           faults' = 0 => faults = 0, overlapped' = overlapped,
           \A q \in Daemons \ {p} : /\ pc'[q] = pc[q] /\ mem'[q] = mem[q]
                                    /\ pending'[q] = pending[q],
           \A d \in Devices :
              (faults = 0 /\ ~overlapped /\ <<p, d>> \in promised) => Kept(p, d)'
    PROVE  PromiseInv'
BY DEF PromiseInv, Kept

\* As long as commands do not overlap, a revoked device is not in the file.
LEMMA RevokedIsOut ==
    ASSUME TypeOK, RegistryInv, ~overlapped
    PROVE  /\ Readable(file) /\ Loaded = file
           /\ \A p \in Daemons, d \in Devices : <<p, d>> \in promised => d \notin file
<1>1. file = paired \ revoked /\ file \in SUBSET Devices
  BY DEF RegistryInv, TypeOK, FileType
<1>2. Readable(file)
  BY <1>1, PairingAssumption DEF Readable
<1> QED
  BY <1>1, <1>2 DEF TypeOK, HistoryType, Loaded

\* A step of a daemon changes nothing of another.
LEMMA StepFrame ==
    ASSUME TypeOK, NEW p \in Daemons, NEW from, NEW to, Step(p, from, to)
    PROVE  /\ pc[p] = from /\ pc'[p] = to
           /\ \A q \in Daemons \ {p} : pc'[q] = pc[q]
BY DEF TypeOK, DaemonType, Step

\* Steps of a daemon that has no users before or after them.
LEMMA PromiseWithoutUsers ==
    ASSUME TypeOK, PromiseInv, NEW p \in Daemons, UNCHANGED <<promised, overlapped>>,
           faults' = 0 => faults = 0,
           \A q \in Daemons \ {p} : /\ pc'[q] = pc[q] /\ mem'[q] = mem[q]
                                    /\ pending'[q] = pending[q],
           mem'[p].users = {}, pc'[p] \notin {"loaded", "reload"}
    PROVE  PromiseInv'
BY PromiseOne DEF Kept

\* A fault counts.
LEMMA FaultCounts ==
    ASSUME HistoryType, Fault
    PROVE  faults' # 0
BY PairingAssumption DEF HistoryType, Fault

\* Every step of a daemon keeps the promise of a revoke.
LEMMA PromiseDaemon ==
    ASSUME TypeOK, RegistryInv, PromiseInv, NEW p \in Daemons,
           Start(p) \/ Daemon(p) \/ Interrupt(p) \/ Crash(p)
    PROVE  PromiseInv'
<1>1. /\ UNCHANGED <<promised, overlapped>>
      /\ faults' = 0 => faults = 0
      /\ Fault => faults' # 0
  <2>1. Fault => faults' # 0
    BY FaultCounts DEF TypeOK
  <2>2. UNCHANGED <<promised, overlapped>> /\ (Fault \/ UNCHANGED faults)
    BY DEF Start, Daemon, LookAgain, CleanStale, WritePid, TrackDevices, Notify,
       ReadDevices, StartBroker, EnsureJetStream, Reload, ReloadAuth,
       FinishReload, Interrupt, ShutBroker, StopSignals, CheckOwner, RemovePid,
       Crash, fileVars
  <2> QED
    BY <2>1, <2>2
<1>2. /\ mem[p] \in Memory /\ mem \in [Daemons -> Memory]
      /\ pc \in [Daemons -> Steps] /\ pending \in [Daemons -> BOOLEAN]
      /\ ~Serving(p) => mem[p].users = {}
  BY DEF TypeOK, DaemonType
<1>3. ~overlapped => /\ Readable(file) /\ Loaded = file
                     /\ \A d \in Devices : <<p, d>> \in promised => d \notin file
  BY RevokedIsOut
<1>4. (faults = 0 /\ ~overlapped) =>
         \A d \in Devices : <<p, d>> \in promised => Kept(p, d)
  BY DEF PromiseInv
<1>5. CASE \/ Start(p) \/ LookAgain(p) \/ CleanStale(p) \/ WritePid(p)
           \/ TrackDevices(p) \/ Notify(p) \/ StopSignals(p) \/ CheckOwner(p)
           \/ RemovePid(p)
  <2>1. PICK from \in {"off", "clear", "stale", "still stale", "fresh", "named",
                       "tracking", "down", "deaf", "owner"},
             to \in Steps \ {"loaded", "reload"} : Step(p, from, to)
    BY <1>5 DEF Start, LookAgain, CleanStale, WritePid, TrackDevices, Notify,
                StopSignals, CheckOwner, RemovePid, Steps
  <2>2. /\ mem' = mem \/ mem' = [mem EXCEPT ![p].known = Loaded]
        /\ pending' = pending \/ pending' = [pending EXCEPT ![p] = FALSE]
    BY <1>5 DEF Start, LookAgain, CleanStale, WritePid, TrackDevices, Notify,
                StopSignals, CheckOwner, RemovePid
  <2>3. mem[p].users = {}
    BY <1>2, <2>1 DEF Serving, Step
  <2>4. mem'[p].users = {}
    BY <1>2, <2>2, <2>3 DEF Memory
  <2>5. \A q \in Daemons \ {p} : mem'[q] = mem[q] /\ pending'[q] = pending[q]
    BY <1>2, <2>2
  <2>6. pc'[p] = to /\ \A q \in Daemons \ {p} : pc'[q] = pc[q]
    BY <2>1, StepFrame
  <2> QED
    BY <1>1, <2>4, <2>5, <2>6, PromiseWithoutUsers
<1>6. CASE ShutBroker(p) \/ Crash(p)
  <2>1. /\ mem'[p].users = {} /\ pc'[p] \in {"down", "dead"}
        /\ \A q \in Daemons \ {p} : /\ pc'[q] = pc[q] /\ mem'[q] = mem[q]
                                    /\ pending'[q] = pending[q]
    BY <1>2, <1>6 DEF ShutBroker, Crash, Die, Step, Blank
  <2> QED
    BY <1>1, <2>1, PromiseWithoutUsers
<1>7. ASSUME NEW from, NEW to, Step(p, from, to), NEW m,
             mem' = [mem EXCEPT ![p] = m],
             \A q \in Daemons \ {p} : pending'[q] = pending[q],
             \A d \in Devices :
                (faults = 0 /\ ~overlapped /\ <<p, d>> \in promised) =>
                   /\ d \in m.users => pending'[p] \/ (to = "reload" /\ d \notin m.read)
                   /\ (to \in {"loaded", "reload"} /\ d \in m.read) => pending'[p]
      PROVE  PromiseInv'
  <2>1. pc'[p] = to /\ \A q \in Daemons \ {p} : pc'[q] = pc[q]
    BY <1>7, StepFrame
  <2>2. mem'[p] = m /\ \A q \in Daemons \ {p} : mem'[q] = mem[q]
    BY <1>2, <1>7
  <2>3. \A d \in Devices :
           (faults = 0 /\ ~overlapped /\ <<p, d>> \in promised) => Kept(p, d)'
    BY <1>7, <2>1, <2>2 DEF Kept
  <2> QED
    BY <1>1, <1>7, <2>1, <2>2, <2>3, PromiseOne
<1>8. CASE ReadDevices(p)
  <2> DEFINE m == [mem[p] EXCEPT !.read = Loaded]
             to == IF Readable(file) THEN "loaded" ELSE "unwinding"
  <2>1. Step(p, "listening", to) /\ mem' = [mem EXCEPT ![p] = m] /\ pending' = pending
    BY <1>8 DEF ReadDevices
  <2>2. m.users = {} /\ m.read = Loaded
    BY <1>2, <2>1 DEF Memory, Step, Serving
  <2> QED
    BY <1>3, <1>7, <2>1, <2>2
<1>9. CASE StartBroker(p)
  <2>1. PICK users \in {mem[p].read, {}}, to \in {"serving", "unwinding"} :
           /\ Step(p, "loaded", to) /\ pending' = pending
           /\ mem' = [mem EXCEPT ![p] = [@ EXCEPT !.users = users, !.read = {}]]
    BY <1>9 DEF StartBroker
  <2> DEFINE m == [mem[p] EXCEPT !.users = users, !.read = {}]
  <2>2. m.users = users /\ m.read = {}
    BY <1>2 DEF Memory
  <2>3. pc[p] = "loaded"
    BY <2>1 DEF Step
  <2> QED
    BY <1>4, <1>7, <2>1, <2>2, <2>3 DEF Kept
<1>10. CASE EnsureJetStream(p) \/ Interrupt(p)
  <2>1. PICK consumers \in {mem[p].consumers, Loaded}, from \in {"serving", "up"},
             to \in {"up", "unwinding"} :
           /\ Step(p, from, to) /\ pending' = pending
           /\ mem' = [mem EXCEPT ![p] = [@ EXCEPT !.consumers = consumers]]
    <3>1. mem = [mem EXCEPT ![p] = [@ EXCEPT !.consumers = mem[p].consumers]]
      BY <1>2 DEF Memory
    <3> QED
      BY <1>10, <3>1 DEF EnsureJetStream, Interrupt
  <2> DEFINE m == [mem[p] EXCEPT !.consumers = consumers]
  <2>2. m.users = mem[p].users
    BY <1>2 DEF Memory
  <2>3. pc[p] \in {"serving", "up"}
    BY <2>1 DEF Step
  <2> QED
    BY <1>4, <1>7, <2>1, <2>2, <2>3 DEF Kept
<1>11. CASE Reload(p)
  <2>1. CASE overlapped
    BY <1>1, <2>1 DEF PromiseInv
  <2>2. CASE ~overlapped
    <3> DEFINE m == [mem[p] EXCEPT !.read = file]
    <3>1. Step(p, "up", "reload") /\ mem' = [mem EXCEPT ![p] = m]
      BY <1>3, <1>11, <2>2 DEF Reload
    <3>2. m.read = file
      BY <1>2 DEF Memory
    <3>3. \A q \in Daemons \ {p} : pending'[q] = pending[q]
      BY <1>2, <1>11 DEF Reload
    <3> QED
      BY <1>3, <1>7, <2>2, <3>1, <3>2, <3>3
  <2> QED
    BY <2>1, <2>2
<1>12. CASE ReloadAuth(p)
  <2>1. CASE Fault
    BY <1>1, <2>1 DEF PromiseInv
  <2>2. CASE Step(p, "reload", "applied") /\ mem' = [mem EXCEPT ![p].users = mem[p].read]
    <3> DEFINE m == [mem[p] EXCEPT !.users = mem[p].read]
    <3>1. m.users = mem[p].read /\ pc[p] = "reload" /\ pending' = pending
      BY <1>2, <1>12, <2>2 DEF Memory, Step, ReloadAuth
    <3>2. \A d \in Devices :
             (faults = 0 /\ ~overlapped /\ <<p, d>> \in promised) =>
                (d \in m.users => pending'[p])
      BY <1>4, <3>1 DEF Kept
    <3>3. Step(p, "reload", "applied") /\ mem' = [mem EXCEPT ![p] = m]
      BY <2>2
    <3>4. \A q \in Daemons \ {p} : pending'[q] = pending[q]
      BY <3>1
    <3> HIDE DEF m
    <3>5. \A d \in Devices :
             (faults = 0 /\ ~overlapped /\ <<p, d>> \in promised) =>
                /\ d \in m.users =>
                      pending'[p] \/ ("applied" = "reload" /\ d \notin m.read)
                /\ ("applied" \in {"loaded", "reload"} /\ d \in m.read) =>
                      pending'[p]
      BY <3>2
    <3> QED
      BY <1>7, <3>3, <3>4, <3>5
  <2> QED
    BY <1>12, <2>1, <2>2 DEF ReloadAuth
<1>13. CASE FinishReload(p)
  <2> DEFINE m == [Track(mem[p]) EXCEPT !.consumers = @ \cup mem[p].read]
  <2>1. CASE Fault
    BY <1>1, <2>1 DEF PromiseInv
  <2>2. CASE mem' = [mem EXCEPT ![p] = m]
    <3>1. m.users = mem[p].users
      BY <1>2 DEF Memory, Track
    <3>2. Step(p, "applied", "up") /\ pc[p] = "applied" /\ pending' = pending
      BY <1>13 DEF Step, FinishReload
    <3>3. \A d \in Devices :
             (faults = 0 /\ ~overlapped /\ <<p, d>> \in promised) =>
                (d \in m.users => pending'[p])
      BY <1>4, <3>1, <3>2 DEF Kept
    <3>4. mem' = [mem EXCEPT ![p] = m]
      BY <2>2
    <3>5. \A q \in Daemons \ {p} : pending'[q] = pending[q]
      BY <3>2
    <3> HIDE DEF m
    <3>6. \A d \in Devices :
             (faults = 0 /\ ~overlapped /\ <<p, d>> \in promised) =>
                /\ d \in m.users =>
                      pending'[p] \/ ("up" = "reload" /\ d \notin m.read)
                /\ ("up" \in {"loaded", "reload"} /\ d \in m.read) =>
                      pending'[p]
      BY <3>3
    <3> QED
      BY <1>7, <3>2, <3>4, <3>5, <3>6
  <2> QED
    BY <1>13, <2>1, <2>2 DEF FinishReload
<1> QED
  BY <1>5, <1>6, <1>8, <1>9, <1>10, <1>11, <1>12, <1>13 DEF Daemon

\* Neither faults nor overlapping commands are undone.
LEMMA CommandMonotone ==
    ASSUME TypeOK, NEW c \in Commands, Command(c)
    PROVE  (faults' = 0 => faults = 0) /\ (~overlapped' => ~overlapped)
<1>1. Fault => faults' # 0
  BY FaultCounts DEF TypeOK
<1>2. Fault \/ UNCHANGED faults
  BY DEF Command, BeginPair, BeginRevoke, Save, BeginReload, BeginStatus,
     OpenTmp, WriteTmp, Rename, RenameFails, CommandFails, ReadPid, CleanPid,
     Kill
<1>3. UNCHANGED overlapped \/ overlapped' = (overlapped \/ Changing # {})
  BY DEF Command, BeginPair, BeginRevoke, Save, BeginReload, BeginStatus,
     OpenTmp, WriteTmp, Rename, RenameFails, CommandFails, ReadPid, CleanPid,
     Kill, fileVars
<1>4. ~overlapped' => ~overlapped
  BY <1>3 DEF TypeOK, FileType
<1>5. faults' = 0 => faults = 0
  BY <1>1, <1>2
<1> QED
  BY <1>4, <1>5

\* Every step of a command does: the signal makes the promise and sets pending.
LEMMA PromiseCommand ==
    ASSUME TypeOK, PromiseInv, NEW c \in Commands, Command(c)
    PROVE  PromiseInv'
<1>1. (faults' = 0 => faults = 0) /\ (~overlapped' => ~overlapped)
  BY CommandMonotone
<1>2. CASE Kill(c)
  <2> DEFINE p == cmd[c].pid
  <2>1. p \in Daemons
    BY <1>2 DEF Kill, TypeOK, CommandType
  <2>2. /\ mem \in [Daemons -> Memory] /\ pc \in [Daemons -> Steps]
        /\ pending \in [Daemons -> BOOLEAN]
    BY DEF TypeOK, DaemonType
  <2>3. CASE Die(p) /\ UNCHANGED promised
    <3>1. /\ mem'[p].users = {} /\ pc'[p] = "dead"
          /\ \A q \in Daemons \ {p} : /\ pc'[q] = pc[q] /\ mem'[q] = mem[q]
                                      /\ pending'[q] = pending[q]
      BY <2>1, <2>2, <2>3 DEF Die, Blank
    <3>2. overlapped' = overlapped
      BY <1>2 DEF Kill, fileVars
    <3> QED
      BY <1>1, <2>1, <2>3, <3>1, <3>2, PromiseWithoutUsers
  <2>4. CASE /\ pending' = [pending EXCEPT ![p] = TRUE]
             /\ promised' = promised \cup
                   {<<p, d>> : d \in cmd[c].about \cap revoked}
             /\ UNCHANGED <<pc, mem>>
    <3>1. ASSUME NEW q \in Daemons, NEW d \in Devices, <<q, d>> \in promised',
                 faults' = 0, ~overlapped'
          PROVE  Kept(q, d)'
      <4>1. CASE q = p
        BY <2>1, <2>2, <2>4, <4>1 DEF Kept
      <4>2. CASE q # p
        <5>1. <<q, d>> \in promised /\ pending'[q] = pending[q]
          BY <2>2, <2>4, <3>1, <4>2
        <5> QED
          BY <1>1, <2>4, <3>1, <5>1 DEF Kept, PromiseInv
      <4> QED
        BY <4>1, <4>2
    <3> QED
      BY <3>1 DEF PromiseInv
  <2>5. CASE UNCHANGED <<pc, mem, pending, promised>>
    BY <1>1, <2>5 DEF PromiseInv, Kept
  <2> QED
    BY <1>2, <2>3, <2>4, <2>5 DEF Kill
<1>3. CASE ~Kill(c)
  <2>1. UNCHANGED <<pc, mem, pending, promised>>
    BY <1>3 DEF Command, BeginPair, BeginRevoke, Save, BeginReload, BeginStatus,
       OpenTmp, WriteTmp, Rename, RenameFails, CommandFails, ReadPid, CleanPid,
       daemonVars
  <2> QED
    BY <1>1, <2>1 DEF PromiseInv, Kept
<1> QED
  BY <1>2, <1>3

\* The promise is inductive.
LEMMA PromiseStep ==
    ASSUME TypeOK, RegistryInv, PromiseInv, [Next]_vars
    PROVE  PromiseInv'
<1>1. ASSUME NEW p \in Daemons, NEW d \in Devices, Heartbeat(p, d)
      PROVE  PromiseInv'
  <2>1. \A q \in Daemons : mem'[q].users = mem[q].users /\ mem'[q].read = mem[q].read
    BY <1>1 DEF Heartbeat, TypeOK, DaemonType, Memory
  <2> QED
    BY <1>1, <2>1 DEF Heartbeat, PromiseInv, Kept, fileVars
<1>2. CASE UNCHANGED vars
  BY <1>2 DEF vars, fileVars, daemonVars, PromiseInv, Kept
<1> QED
  BY <1>1, <1>2, PromiseDaemon, PromiseCommand DEF Next

\* A daemon that caught the signal of a revoke has the device not among its
\* users, or the reload that takes it out is on its way, at whatever point of
\* its start, of another reload or of its shutdown the signal came.
THEOREM RevokedAreCutOff == Spec => []CutOff
<1>1. Init => PromiseInv
  BY DEF Init, PromiseInv
<1>2. TypeOK /\ RegistryInv /\ PromiseInv /\ [Next]_vars => PromiseInv'
  BY PromiseStep
<1>3. PromiseInv => CutOff
  BY DEF PromiseInv, Kept, CutOff
<1> QED
  BY <1>1, <1>2, <1>3, RegistryInvariant, PTL DEF Spec

-----------------------------------------------------------------------------
(* A daemon that nobody is about to signal has what the registry has.      *)

\* A command that has saved will look for p, or has found it.
Tells(c, p) ==
    \/ cmd[c].at = "saved" /\ cmd[c].op # "status"
    \/ cmd[c].at = "killing" /\ cmd[c].pid = p

Due(p) == pending[p] \/ \E c \in Commands : Tells(c, p)

\* All that a daemon at a step has read so far is the registry as it is.
Fits(step, m) ==
    /\ step \in {"tracking", "listening", "loaded", "serving", "up"} => m.known = file
    /\ step \in {"loaded", "reload", "applied"} => m.read = file
    /\ step \in {"serving", "up", "applied"} => m.users = file
    /\ step = "up" => file \subseteq m.consumers

Current(p) == Fits(pc[p], mem[p])

AgreeInv ==
    (faults = 0 /\ ~overlapped) =>
       \A p \in Daemons : pidFile = p => Due(p) \/ Current(p)

\* A step of one daemon has to be looked at for that daemon only.
LEMMA AgreeOne ==
    ASSUME AgreeInv, NEW p \in Daemons, UNCHANGED <<cmd, file, overlapped>>,
           faults' = 0 => faults = 0,
           \A q \in Daemons \ {p} : /\ pc'[q] = pc[q] /\ mem'[q] = mem[q]
                                    /\ pending'[q] = pending[q]
                                    /\ pidFile' = q => pidFile = q,
           (faults = 0 /\ ~overlapped /\ pidFile' = p) => (Due(p) \/ Current(p))'
    PROVE  AgreeInv'
BY DEF AgreeInv, Due, Tells, Current, Fits

\* Every step of a daemon: it reads the registry as it is, and what it makes of
\* that has all been read since the last signal.
LEMMA AgreeDaemon ==
    ASSUME TypeOK, RegistryInv, AgreeInv, NEW p \in Daemons,
           Start(p) \/ Daemon(p) \/ Interrupt(p) \/ Crash(p)
    PROVE  AgreeInv'
<1>1. /\ UNCHANGED <<cmd, file, overlapped>>
      /\ faults' = 0 => faults = 0
      /\ Fault => faults' # 0
  <2>1. Fault => faults' # 0
    BY FaultCounts DEF TypeOK
  <2>2. UNCHANGED <<cmd, file, overlapped>> /\ (Fault \/ UNCHANGED faults)
    BY DEF Start, Daemon, LookAgain, CleanStale, WritePid, TrackDevices, Notify,
       ReadDevices, StartBroker, EnsureJetStream, Reload, ReloadAuth,
       FinishReload, Interrupt, ShutBroker, StopSignals, CheckOwner, RemovePid,
       Crash, fileVars
  <2> QED
    BY <2>1, <2>2
<1>2. /\ mem[p] \in Memory /\ mem \in [Daemons -> Memory]
      /\ pc \in [Daemons -> Steps] /\ pending \in [Daemons -> BOOLEAN]
  BY DEF TypeOK, DaemonType
<1>3. ~overlapped => Readable(file) /\ Loaded = file
  BY RevokedIsOut
<1>4. (faults = 0 /\ ~overlapped /\ pidFile = p) => Due(p) \/ Current(p)
  BY DEF AgreeInv
<1>5. ASSUME pending' = pending, Due(p) PROVE Due(p)'
  BY <1>1, <1>5 DEF Due, Tells
<1>6. CASE \/ Start(p) \/ LookAgain(p) \/ CleanStale(p) \/ WritePid(p) \/ Interrupt(p)
           \/ ShutBroker(p) \/ StopSignals(p) \/ CheckOwner(p) \/ RemovePid(p)
  <2>1. PICK from \in Steps, to \in {"clear", "stale", "dead", "still stale", "fresh", "named",
                                     "unwinding", "down", "deaf", "owner"} :
             Step(p, from, to)
    BY <1>6 DEF Start, LookAgain, CleanStale, WritePid, Interrupt, ShutBroker,
                StopSignals, CheckOwner, RemovePid, Steps
  <2>2. pc'[p] = to /\ \A q \in Daemons \ {p} : pc'[q] = pc[q]
    BY <2>1, StepFrame
  <2>3. Current(p)'
    BY <2>2 DEF Current, Fits
  <2>4. /\ mem' = mem \/ mem' = [mem EXCEPT ![p] = Blank]
        /\ pending' = pending \/ pending' = [pending EXCEPT ![p] = FALSE]
        /\ pidFile' \in {pidFile, NoPid, p}
    BY <1>6 DEF Start, LookAgain, CleanStale, WritePid, Interrupt, ShutBroker,
                StopSignals, CheckOwner, RemovePid
  <2>5. \A q \in Daemons \ {p} : /\ mem'[q] = mem[q] /\ pending'[q] = pending[q]
                                 /\ pidFile' = q => pidFile = q
    BY <1>2, <2>4, PairingAssumption
  <2> QED
    BY <1>1, <2>2, <2>3, <2>5, AgreeOne
<1>7. CASE Crash(p)
  <2>1. /\ pc'[p] = "dead" /\ UNCHANGED pidFile
        /\ \A q \in Daemons \ {p} : /\ pc'[q] = pc[q] /\ mem'[q] = mem[q]
                                    /\ pending'[q] = pending[q]
    BY <1>2, <1>7 DEF Crash, Die
  <2>2. Current(p)'
    BY <2>1 DEF Current, Fits
  <2> QED
    BY <1>1, <2>1, <2>2, AgreeOne
<1>8. ASSUME NEW from, NEW to, Step(p, from, to), NEW m,
             mem' = [mem EXCEPT ![p] = m], pidFile' = pidFile,
             \A q \in Daemons \ {p} : pending'[q] = pending[q],
             (faults = 0 /\ ~overlapped /\ pidFile = p) =>
                (pending' = pending /\ Due(p)) \/ Fits(to, m)
      PROVE  AgreeInv'
  <2>1. pc'[p] = to /\ \A q \in Daemons \ {p} : pc'[q] = pc[q]
    BY <1>8, StepFrame
  <2>2. mem'[p] = m /\ \A q \in Daemons \ {p} : mem'[q] = mem[q]
    BY <1>2, <1>8
  <2>3. (faults = 0 /\ ~overlapped /\ pidFile' = p) => (Due(p) \/ Current(p))'
    <3>1. Fits(to, m) => Current(p)'
      BY <1>1, <2>1, <2>2 DEF Current, Fits
    <3> QED
      BY <1>1, <1>5, <1>8, <3>1
  <2> QED
    BY <1>1, <1>8, <2>1, <2>2, <2>3, AgreeOne
<1>9. CASE TrackDevices(p)
  <2> DEFINE m == [mem[p] EXCEPT !.known = Loaded]
  <2>1. /\ Step(p, "named", "tracking") /\ mem' = [mem EXCEPT ![p] = m]
        /\ UNCHANGED <<pending, pidFile>>
    BY <1>9 DEF TrackDevices
  <2>2. m.known = Loaded
    BY <1>2 DEF Memory
  <2>3. ~overlapped => Fits("tracking", m)
    BY <1>3, <2>2 DEF Fits
  <2> HIDE DEF m
  <2> QED
    BY <1>8, <2>1, <2>3
<1>10. CASE Notify(p)
  <2>1. /\ Step(p, "tracking", "listening") /\ mem' = [mem EXCEPT ![p] = mem[p]]
        /\ UNCHANGED <<pending, pidFile>> /\ pc[p] = "tracking"
    BY <1>2, <1>10 DEF Notify, Step
  <2>2. Current(p) => Fits("listening", mem[p])
    BY <2>1 DEF Current, Fits
  <2> QED
    BY <1>4, <1>8, <2>1, <2>2
<1>11. CASE ReadDevices(p)
  <2> DEFINE m == [mem[p] EXCEPT !.read = Loaded]
             to == IF Readable(file) THEN "loaded" ELSE "unwinding"
  <2>1. /\ Step(p, "listening", to) /\ mem' = [mem EXCEPT ![p] = m]
        /\ UNCHANGED <<pending, pidFile>> /\ pc[p] = "listening"
    BY <1>11 DEF ReadDevices, Step
  <2>2. m.known = mem[p].known /\ m.read = Loaded
    BY <1>2 DEF Memory
  <2>3. to \in {"loaded", "unwinding"}
    OBVIOUS
  <2> HIDE DEF m, to
  <2>4. ~overlapped /\ Current(p) => Fits(to, m)
    BY <1>3, <2>1, <2>2, <2>3 DEF Current, Fits
  <2> QED
    BY <1>4, <1>8, <2>1, <2>4
<1>12. CASE StartBroker(p)
  <2>1. PICK users, to :
           /\ (to = "serving" /\ users = mem[p].read) \/ to = "unwinding"
           /\ Step(p, "loaded", to) /\ UNCHANGED <<pending, pidFile>>
           /\ mem' = [mem EXCEPT ![p] = [@ EXCEPT !.users = users, !.read = {}]]
    BY <1>12 DEF StartBroker
  <2> DEFINE m == [mem[p] EXCEPT !.users = users, !.read = {}]
  <2>2. m.users = users /\ m.known = mem[p].known
    BY <1>2 DEF Memory
  <2>3. pc[p] = "loaded" /\ mem' = [mem EXCEPT ![p] = m]
    BY <2>1 DEF Step
  <2> HIDE DEF m
  <2>4. Current(p) => Fits(to, m)
    BY <2>1, <2>2, <2>3 DEF Current, Fits
  <2> QED
    BY <1>4, <1>8, <2>1, <2>3, <2>4
<1>13. CASE EnsureJetStream(p)
  <2>1. CASE Fault
    BY <1>1, <2>1 DEF AgreeInv
  <2>2. CASE Step(p, "serving", "up") /\ mem' = [mem EXCEPT ![p].consumers = Loaded]
    <3> DEFINE m == [mem[p] EXCEPT !.consumers = Loaded]
    <3>1. m.consumers = Loaded /\ m.users = mem[p].users /\ m.known = mem[p].known
      BY <1>2 DEF Memory
    <3>2. pc[p] = "serving" /\ mem' = [mem EXCEPT ![p] = m] /\ UNCHANGED <<pending, pidFile>>
      BY <1>13, <2>2 DEF Step, EnsureJetStream
    <3> HIDE DEF m
    <3>3. ~overlapped /\ Current(p) => Fits("up", m)
      BY <1>3, <3>1, <3>2 DEF Current, Fits
    <3> QED
      BY <1>4, <1>8, <2>2, <3>2, <3>3
  <2> QED
    BY <1>13, <2>1, <2>2 DEF EnsureJetStream
<1>14. CASE Reload(p)
  <2>1. CASE overlapped
    BY <1>1, <2>1 DEF AgreeInv
  <2>2. CASE ~overlapped
    <3> DEFINE m == [mem[p] EXCEPT !.read = file]
    <3>1. Step(p, "up", "reload") /\ mem' = [mem EXCEPT ![p] = m] /\ UNCHANGED pidFile
      BY <1>3, <1>14, <2>2 DEF Reload
    <3>2. m.read = file
      BY <1>2 DEF Memory
    <3>3. \A q \in Daemons \ {p} : pending'[q] = pending[q]
      BY <1>2, <1>14 DEF Reload
    <3>4. Fits("reload", m)
      BY <3>2 DEF Fits
    <3> HIDE DEF m
    <3> QED
      BY <1>8, <3>1, <3>3, <3>4
  <2> QED
    BY <2>1, <2>2
<1>15. CASE ReloadAuth(p)
  <2>1. CASE Fault
    BY <1>1, <2>1 DEF AgreeInv
  <2>2. CASE Step(p, "reload", "applied") /\ mem' = [mem EXCEPT ![p].users = mem[p].read]
    <3> DEFINE m == [mem[p] EXCEPT !.users = mem[p].read]
    <3>1. m.users = mem[p].read /\ m.read = mem[p].read
      BY <1>2 DEF Memory
    <3>2. pc[p] = "reload" /\ mem' = [mem EXCEPT ![p] = m] /\ UNCHANGED <<pending, pidFile>>
      BY <1>15, <2>2 DEF Step, ReloadAuth
    <3> HIDE DEF m
    <3>3. Current(p) => Fits("applied", m)
      BY <3>1, <3>2 DEF Current, Fits
    <3> QED
      BY <1>4, <1>8, <2>2, <3>2, <3>3
  <2> QED
    BY <1>15, <2>1, <2>2 DEF ReloadAuth
<1>16. CASE FinishReload(p)
  <2> DEFINE m == [Track(mem[p]) EXCEPT !.consumers = @ \cup mem[p].read]
  <2>1. CASE Fault
    BY <1>1, <2>1 DEF AgreeInv
  <2>2. CASE mem' = [mem EXCEPT ![p] = m]
    <3>1. /\ m.users = mem[p].users /\ m.known = mem[p].read
          /\ mem[p].read \subseteq m.consumers
      BY <1>2 DEF Memory, Track
    <3>2. /\ Step(p, "applied", "up") /\ pc[p] = "applied" /\ UNCHANGED <<pending, pidFile>>
          /\ mem' = [mem EXCEPT ![p] = m]
      BY <1>16, <2>2 DEF Step, FinishReload
    <3> HIDE DEF m
    <3>3. Current(p) => Fits("up", m)
      BY <3>1, <3>2 DEF Current, Fits
    <3> QED
      BY <1>4, <1>8, <3>2, <3>3
  <2> QED
    BY <1>16, <2>1, <2>2 DEF FinishReload
<1> QED
  BY <1>6, <1>7, <1>9, <1>10, <1>11, <1>12, <1>13, <1>14, <1>15, <1>16 DEF Daemon

\* A process that is not there has read nothing.
LEMMA NotThere ==
    ASSUME TypeOK, NEW p \in Daemons, ~Alive(p)
    PROVE  Current(p)
BY DEF Alive, Current, Fits

\* Every step of a command: who saves looks for the daemon, and who has found it
\* tells it.
LEMMA AgreeCommand ==
    ASSUME TypeOK, RegistryInv, AgreeInv, NEW c \in Commands, Command(c)
    PROVE  AgreeInv'
<1> SUFFICES ASSUME faults' = 0, ~overlapped', NEW p \in Daemons, pidFile' = p
             PROVE  (Due(p) \/ Current(p))'
  BY DEF AgreeInv
<1>1. faults = 0 /\ ~overlapped
  BY CommandMonotone
<1>2. /\ cmd[c] \in CommandState /\ cmd \in [Commands -> CommandState]
      /\ mem \in [Daemons -> Memory] /\ pc \in [Daemons -> Steps]
      /\ pending \in [Daemons -> BOOLEAN]
  BY DEF TypeOK, CommandType, DaemonType
<1>3. ~Fault
  BY FaultCounts DEF TypeOK
<1>4. ~CleanPid(c)
  BY PairingAssumption DEF CleanPid
<1>5. pidFile = p /\ (Due(p) \/ Current(p))
  <2>1. pidFile' = pidFile
    BY <1>4 DEF Command, BeginPair, BeginRevoke, Save, BeginReload, BeginStatus,
       OpenTmp, WriteTmp, Rename, RenameFails, CommandFails, ReadPid, Kill, daemonVars
  <2> QED
    BY <1>1, <2>1 DEF AgreeInv
<1>6. ASSUME NEW e \in Commands, cmd'[e] = cmd[e], Tells(e, p)
      PROVE  Due(p)'
  BY <1>6 DEF Due, Tells
<1>7. CASE Rename(c)
  <2>1. cmd[c].at = "renaming" /\ c \in Changing
    BY <1>7 DEF Rename, Changing
  <2>2. cmd[c].op \in {"pair", "revoke"}
    BY <1>1, <2>1 DEF RegistryInv, ChangeInv
  <2>3. cmd'[c].at = "saved" /\ cmd'[c].op = cmd[c].op
    BY <1>2, <1>7 DEF Rename, CommandState
  <2> QED
    BY <2>2, <2>3 DEF Due, Tells
<1>8. CASE Kill(c)
  <2> DEFINE q == cmd[c].pid
  <2>1. /\ q \in Daemons /\ cmd[c].at = "killing" /\ file' = file
        /\ \A e \in Commands \ {c} : cmd'[e] = cmd[e]
    BY <1>2, <1>8 DEF Kill, Exit, TypeOK, CommandType, fileVars
  <2>2. CASE q = p
    <3>1. CASE Catches(p)
      <4>1. pending'[p]
        BY <1>2, <1>8, <2>1, <2>2, <3>1 DEF Kill, Catches, Alive
      <4> QED
        BY <4>1 DEF Due
    <3>2. CASE ~Catches(p) /\ Alive(p)
      <4>1. pc'[p] = "dead"
        BY <1>2, <1>8, <2>2, <3>2 DEF Kill, Die
      <4> QED
        BY <4>1 DEF Current, Fits
    <3>3. CASE ~Alive(p)
      <4>1. pc' = pc
        BY <1>8, <2>2, <3>3 DEF Kill, Catches, Alive
      <4> QED
        BY <3>3, <4>1 DEF Alive, Current, Fits
    <3> QED
      BY <3>1, <3>2, <3>3
  <2>3. CASE q # p
    <3>1. pc'[p] = pc[p] /\ mem'[p] = mem[p] /\ pending'[p] = pending[p]
      BY <1>2, <1>8, <2>1, <2>3 DEF Kill, Die
    <3>2. ~Tells(c, p)
      BY <2>1, <2>3 DEF Tells
    <3>3. Current(p) => Current(p)'
      BY <2>1, <3>1 DEF Current, Fits
    <3>4. Due(p) => Due(p)'
      BY <1>6, <2>1, <3>1, <3>2 DEF Due
    <3> QED
      BY <1>5, <3>3, <3>4
  <2> QED
    BY <2>2, <2>3
<1>9. CASE ReadPid(c)
  <2>1. UNCHANGED <<file, pc, mem, pending>> /\ \A e \in Commands \ {c} : cmd'[e] = cmd[e]
    BY <1>2, <1>9 DEF ReadPid, fileVars, daemonVars
  <2>2. CASE Current(p)
    BY <2>1, <2>2 DEF Current, Fits
  <2>3. CASE Due(p) /\ ~Tells(c, p)
    BY <1>6, <2>1, <2>3 DEF Due
  <2>4. CASE Tells(c, p)
    <3>1. cmd[c].at = "saved" /\ cmd[c].op # "status"
      BY <1>9, <2>4 DEF Tells, ReadPid
    <3>2. CASE Alive(p)
      <4>1. pidFile # NoPid
        BY <1>5, PairingAssumption
      <4>2. cmd' = [cmd EXCEPT ![c] = [@ EXCEPT !.at = "killing", !.pid = p]]
        BY <1>5, <1>9, <3>1, <3>2, <4>1 DEF ReadPid
      <4>3. cmd'[c].at = "killing" /\ cmd'[c].pid = p
        BY <1>2, <4>2 DEF CommandState
      <4> QED
        BY <4>3 DEF Due, Tells
    <3>3. CASE ~Alive(p)
      BY <2>1, <3>3 DEF Alive, Current, Fits
    <3> QED
      BY <3>2, <3>3
  <2> QED
    BY <1>5, <2>2, <2>3, <2>4
<1>10. CASE \/ \E d \in Devices : BeginPair(c, d)
            \/ \E gone \in SUBSET Loaded : BeginRevoke(c, gone)
            \/ BeginReload(c) \/ BeginStatus(c)
            \/ OpenTmp(c) \/ WriteTmp(c) \/ RenameFails(c)
  <2>1. UNCHANGED <<pc, mem, pending>>
    BY <1>10 DEF BeginPair, BeginRevoke, Save, BeginReload, BeginStatus, OpenTmp,
                 WriteTmp, RenameFails, daemonVars
  <2>2. cmd[c].at \notin {"saved", "killing"}
    BY <1>10 DEF BeginPair, BeginRevoke, Save, BeginReload, BeginStatus, Starts,
                 OpenTmp, WriteTmp, RenameFails
  <2>3. \A e \in Commands \ {c} : cmd'[e] = cmd[e]
    BY <1>2, <1>10 DEF BeginPair, BeginRevoke, Save, BeginReload, BeginStatus, OpenTmp,
                       WriteTmp, RenameFails, Exit
  <2>4. file' = file
    <3>1. CASE WriteTmp(c)
      <4>1. cmd[c].at = "writing" /\ c \in Changing
        BY <3>1 DEF WriteTmp, Changing
      <4>2. cmd[c].fd = "tmp"
        BY <1>1, <4>1 DEF RegistryInv, ChangeInv
      <4> QED
        BY <3>1, <4>2 DEF WriteTmp
    <3>2. CASE ~WriteTmp(c)
      BY <1>10, <3>2 DEF BeginPair, BeginRevoke, Save, BeginReload, BeginStatus, OpenTmp,
                         RenameFails, fileVars
    <3> QED
      BY <3>1, <3>2
  <2>5. ~Tells(c, p)
    BY <2>2 DEF Tells
  <2>6. Due(p) => Due(p)'
    BY <1>6, <2>1, <2>3, <2>5 DEF Due
  <2>7. Current(p) => Current(p)'
    BY <2>1, <2>4 DEF Current, Fits
  <2> QED
    BY <1>5, <2>6, <2>7
<1> QED
  BY <1>3, <1>4, <1>7, <1>8, <1>9, <1>10 DEF Command, CommandFails

LEMMA AgreeStep ==
    ASSUME TypeOK, RegistryInv, AgreeInv, [Next]_vars
    PROVE  AgreeInv'
<1>1. ASSUME NEW p \in Daemons, NEW d \in Devices, Heartbeat(p, d)
      PROVE  AgreeInv'
  <2>1. \A q \in Daemons : /\ mem'[q].users = mem[q].users /\ mem'[q].read = mem[q].read
                           /\ mem'[q].known = mem[q].known
                           /\ mem'[q].consumers = mem[q].consumers
    BY <1>1 DEF Heartbeat, TypeOK, DaemonType, Memory
  <2>2. UNCHANGED <<file, overlapped, cmd, pidFile, pc, pending, faults>>
    BY <1>1 DEF Heartbeat, fileVars
  <2> QED
    BY <2>1, <2>2 DEF AgreeInv, Due, Tells, Current, Fits
<1>2. CASE UNCHANGED vars
  BY <1>2 DEF vars, fileVars, daemonVars, AgreeInv, Due, Tells, Current, Fits
<1> QED
  BY <1>1, <1>2, AgreeDaemon, AgreeCommand DEF Next

\* Whichever of a command's save and a daemon's start comes first, at whatever
\* step of either, the daemon ends up with the registry's devices, for any
\* number of commands and daemons.
THEOREM DaemonAgrees == Spec => []Agreement
<1>1. Init => AgreeInv
  BY PairingAssumption DEF Init, AgreeInv
<1>2. TypeOK /\ RegistryInv /\ AgreeInv /\ [Next]_vars => AgreeInv'
  BY AgreeStep
<1>3. AgreeInv => Agreement
  BY DEF AgreeInv, Due, Tells, Current, Fits, Agreement
<1> QED
  BY <1>1, <1>2, <1>3, RegistryInvariant, PTL DEF Spec

-----------------------------------------------------------------------------
(* A reload forgets revoked devices only.                                  *)

\* The tracker knows devices that were paired, and those it does not find in
\* the registry any more were revoked.
SeenInv ==
    ~overlapped =>
       \A p \in Daemons :
          /\ mem[p].known \subseteq paired
          /\ pc[p] \in {"reload", "applied"} =>
                /\ mem[p].read \subseteq paired
                /\ mem[p].known \subseteq mem[p].read \cup revoked

\* What was paired or revoked stays so.
LEMMA HistoryGrows ==
    ASSUME TypeOK, [Next]_vars
    PROVE  /\ paired \subseteq paired' /\ revoked \subseteq revoked'
           /\ ~overlapped' => ~overlapped
<1>1. ASSUME NEW c \in Commands, Command(c)
      PROVE  paired \subseteq paired' /\ revoked \subseteq revoked'
  BY <1>1 DEF Command, BeginPair, BeginRevoke, Save, BeginReload, BeginStatus,
       OpenTmp, WriteTmp, Rename, RenameFails, CommandFails, ReadPid, CleanPid,
       Kill, fileVars
<1>2. CASE ~ \E c \in Commands : Command(c)
  <2>1. UNCHANGED <<fileVars, cmd>>
    BY <1>2 DEF Next, vars, Daemon, Start, LookAgain, CleanStale, WritePid,
       TrackDevices, Notify, ReadDevices, StartBroker, EnsureJetStream, Reload,
       ReloadAuth, FinishReload, Interrupt, ShutBroker, StopSignals, CheckOwner,
       RemovePid, Crash, Heartbeat
  <2> QED
    BY <2>1 DEF fileVars
<1> QED
  BY <1>1, <1>2, CommandMonotone

LEMMA SeenStep ==
    ASSUME TypeOK, RegistryInv, SeenInv, [Next]_vars
    PROVE  SeenInv'
<1> SUFFICES ASSUME ~overlapped', NEW p \in Daemons
             PROVE  /\ mem'[p].known \subseteq paired'
                    /\ pc'[p] \in {"reload", "applied"} =>
                          /\ mem'[p].read \subseteq paired'
                          /\ mem'[p].known \subseteq mem'[p].read \cup revoked'
  BY DEF SeenInv
<1>1. ~overlapped /\ paired \subseteq paired' /\ revoked \subseteq revoked'
  BY HistoryGrows
<1>2. /\ mem[p] \in Memory /\ mem \in [Daemons -> Memory]
      /\ pc \in [Daemons -> Steps]
  BY DEF TypeOK, DaemonType
<1>3. Loaded = file /\ file = paired \ revoked
  BY <1>1, RevokedIsOut DEF RegistryInv
<1>4. /\ mem[p].known \subseteq paired
      /\ pc[p] \in {"reload", "applied"} =>
            /\ mem[p].read \subseteq paired
            /\ mem[p].known \subseteq mem[p].read \cup revoked
  BY <1>1 DEF SeenInv
<1>5. CASE \/ UNCHANGED <<pc, mem>>
           \/ pc'[p] = pc[p] /\ mem'[p] = mem[p]
           \/ \E q \in Daemons : Die(q)
           \/ \E q \in Daemons, d \in Devices : Heartbeat(q, d)
  <2>1. /\ mem'[p].known \in {mem[p].known, {}}
        /\ \/ mem'[p].read = mem[p].read /\ mem'[p].known = mem[p].known /\ pc'[p] = pc[p]
           \/ pc'[p] = "dead"
    BY <1>2, <1>5 DEF Die, Heartbeat, Blank, TypeOK, DaemonType, Memory
  <2> QED
    BY <1>1, <1>4, <2>1
<1>6. CASE Start(p) \/ Daemon(p) \/ Interrupt(p)
  <2>1. CASE \/ Start(p) \/ LookAgain(p) \/ CleanStale(p) \/ WritePid(p) \/ Notify(p)
             \/ Interrupt(p) \/ StopSignals(p) \/ CheckOwner(p) \/ RemovePid(p)
    <3>1. mem' = mem
      BY <2>1 DEF Start, LookAgain, CleanStale, WritePid, Notify, Interrupt, StopSignals,
                  CheckOwner, RemovePid
    <3>2. pc'[p] \notin {"reload", "applied"}
      BY <1>2, <2>1 DEF Start, LookAgain, CleanStale, WritePid, Notify, Interrupt,
                        StopSignals, CheckOwner, RemovePid, Step
    <3> QED
      BY <1>1, <1>4, <3>1, <3>2
  <2>2. CASE \/ TrackDevices(p) \/ ReadDevices(p) \/ StartBroker(p) \/ EnsureJetStream(p)
             \/ ShutBroker(p)
    <3>1. mem'[p].known \in {mem[p].known, Loaded, {}}
      <4>1. CASE StartBroker(p)
        <5>1. PICK users :
                 mem' = [mem EXCEPT ![p] = [@ EXCEPT !.users = users, !.read = {}]]
          BY <4>1 DEF StartBroker
        <5> QED
          BY <1>2, <5>1 DEF Memory
      <4>2. CASE TrackDevices(p)
        BY <1>2, <4>2 DEF TrackDevices, Memory
      <4>3. CASE ReadDevices(p)
        BY <1>2, <4>3 DEF ReadDevices, Memory
      <4>4. CASE EnsureJetStream(p)
        BY <1>2, <4>4 DEF EnsureJetStream, Memory
      <4>5. CASE ShutBroker(p)
        BY <1>2, <4>5 DEF ShutBroker, Blank
      <4> QED
        BY <2>2, <4>1, <4>2, <4>3, <4>4, <4>5
    <3>2. pc'[p] \notin {"reload", "applied"}
      BY <1>2, <2>2 DEF TrackDevices, ReadDevices, StartBroker, EnsureJetStream,
                        ShutBroker, Step
    <3> QED
      BY <1>1, <1>3, <1>4, <3>1, <3>2
  <2>3. CASE Reload(p)
    <3>1. \/ mem'[p].read = file /\ mem'[p].known = mem[p].known
          \/ mem'[p] = mem[p] /\ pc'[p] = "up"
      BY <1>2, <2>3 DEF Reload, Memory, Step
    <3> QED
      BY <1>1, <1>3, <1>4, <3>1
  <2>4. CASE ReloadAuth(p)
    <3>1. /\ pc[p] = "reload" /\ mem'[p].known = mem[p].known
          /\ mem'[p].read = mem[p].read \/ pc'[p] = "up"
      BY <1>2, <2>4 DEF ReloadAuth, Memory, Step
    <3> QED
      BY <1>1, <1>4, <3>1
  <2>5. CASE FinishReload(p)
    <3>1. pc[p] = "applied" /\ pc'[p] = "up" /\ mem'[p].known = mem[p].read
      BY <1>2, <2>5 DEF FinishReload, Track, Memory, Step
    <3> QED
      BY <1>1, <1>4, <3>1
  <2> QED
    BY <1>6, <2>1, <2>2, <2>3, <2>4, <2>5 DEF Daemon
<1>7. ASSUME NEW q \in Daemons \ {p}, Start(q) \/ Daemon(q) \/ Interrupt(q)
      PROVE  pc'[p] = pc[p] /\ mem'[p] = mem[p]
  BY <1>2, <1>7 DEF Start, Daemon, LookAgain, CleanStale, WritePid, TrackDevices, Notify,
       ReadDevices, StartBroker, EnsureJetStream, Reload, ReloadAuth,
       FinishReload, Interrupt, ShutBroker, StopSignals, CheckOwner, RemovePid, Step
<1>8. ASSUME NEW c \in Commands, Command(c)
      PROVE  UNCHANGED <<pc, mem>> \/ \E q \in Daemons : Die(q)
  <2>1. CASE Kill(c)
    BY <2>1 DEF Kill, TypeOK, CommandType
  <2>2. CASE ~Kill(c)
    BY <1>8, <2>2 DEF Command, BeginPair, BeginRevoke, Save, BeginReload, BeginStatus,
       OpenTmp, WriteTmp, Rename, RenameFails, CommandFails, ReadPid, CleanPid, daemonVars
  <2> QED
    BY <2>1, <2>2
<1> QED
  BY <1>5, <1>6, <1>7, <1>8 DEF Next, Crash, vars, daemonVars

\* What one step may do to what was seen.
Forgets ==
    \A p \in Daemons : (Running(p) /\ Running(p)') =>
       overlapped \/ mem[p].seen \ mem'[p].seen \subseteq revoked

LEMMA ForgetsRevoked ==
    ASSUME TypeOK, SeenInv, [Next]_vars
    PROVE  Forgets
<1> SUFFICES ASSUME NEW p \in Daemons, Running(p), Running(p)', ~overlapped
             PROVE  mem[p].seen \ mem'[p].seen \subseteq revoked
  BY DEF Forgets
<1>1. /\ mem[p] \in Memory /\ mem \in [Daemons -> Memory]
      /\ pc \in [Daemons -> Steps] /\ mem[p].seen \subseteq mem[p].known
  BY DEF TypeOK, DaemonType
<1>2. pc[p] = "applied" => mem[p].known \subseteq mem[p].read \cup revoked
  BY DEF SeenInv
<1>3. CASE FinishReload(p)
  <2> DEFINE m == [Track(mem[p]) EXCEPT !.consumers = @ \cup mem[p].read]
  <2>1. /\ m.seen = mem[p].seen \cap mem[p].read
        /\ Track(mem[p]).seen = mem[p].seen \cap mem[p].read
    BY <1>1 DEF Memory, Track
  <2>2. mem'[p] = m \/ mem'[p] = Track(mem[p])
    BY <1>1, <1>3 DEF FinishReload
  <2>3. pc[p] = "applied" /\ mem'[p].seen = mem[p].seen \cap mem[p].read
    BY <1>3, <2>1, <2>2 DEF FinishReload, Step
  <2> QED
    BY <1>1, <1>2, <2>3
<1>4. CASE ~FinishReload(p)
  <2>1. ASSUME NEW q \in Daemons, Start(q) \/ Daemon(q) \/ Interrupt(q) \/ Crash(q)
        PROVE  mem'[p].seen = mem[p].seen
    <3>1. CASE q = p
      <4>1. ~(Start(p) \/ LookAgain(p) \/ CleanStale(p) \/ WritePid(p) \/ TrackDevices(p)
              \/ Notify(p) \/ ReadDevices(p) \/ StartBroker(p) \/ EnsureJetStream(p)
              \/ Interrupt(p) \/ ShutBroker(p) \/ StopSignals(p) \/ CheckOwner(p)
              \/ RemovePid(p) \/ Crash(p))
        BY <1>1 DEF Running, Start, LookAgain, CleanStale, WritePid, TrackDevices, Notify,
           ReadDevices, StartBroker, EnsureJetStream, Interrupt, ShutBroker,
           StopSignals, CheckOwner, RemovePid, Crash, Die, Step
      <4>2. Reload(p) \/ ReloadAuth(p)
        BY <1>4, <2>1, <3>1, <4>1 DEF Daemon
      <4> QED
        BY <1>1, <4>2 DEF Reload, ReloadAuth, Memory
    <3>2. CASE q # p
      BY <1>1, <2>1, <3>2 DEF Start, Daemon, LookAgain, CleanStale, WritePid,
         TrackDevices, Notify, ReadDevices, StartBroker, EnsureJetStream, Reload,
         ReloadAuth, FinishReload, Interrupt, ShutBroker, StopSignals, CheckOwner,
         RemovePid, Crash, Die
    <3> QED
      BY <3>1, <3>2
  <2>2. ASSUME NEW c \in Commands, Command(c)
        PROVE  mem'[p].seen = mem[p].seen
    <3>1. CASE Kill(c)
      <4>1. UNCHANGED mem \/ (Die(cmd[c].pid) /\ cmd[c].pid \in Daemons)
        BY <3>1 DEF Kill, TypeOK, CommandType
      <4>2. ASSUME Die(cmd[c].pid), cmd[c].pid \in Daemons PROVE cmd[c].pid # p
        BY <1>1, <4>2 DEF Die, Running
      <4> QED
        BY <1>1, <4>1, <4>2 DEF Die
    <3>2. CASE ~Kill(c)
      BY <2>2, <3>2 DEF Command, BeginPair, BeginRevoke, Save, BeginReload, BeginStatus,
         OpenTmp, WriteTmp, Rename, RenameFails, CommandFails, ReadPid, CleanPid, daemonVars
    <3> QED
      BY <3>1, <3>2
  <2>3. ASSUME NEW q \in Daemons, NEW d \in Devices, Heartbeat(q, d)
        PROVE  mem[p].seen \subseteq mem'[p].seen
    BY <1>1, <2>3 DEF Heartbeat, TypeOK, DaemonType, Memory
  <2>4. CASE UNCHANGED vars
    BY <2>4 DEF vars, daemonVars
  <2> QED
    BY <2>1, <2>2, <2>3, <2>4 DEF Next
<1> QED
  BY <1>3, <1>4

\* A running daemon keeps what it has seen of every device but the revoked, over
\* any reloads, and whatever is paired and revoked while one is in progress.
THEOREM SeenIsKept == Spec => KeepsSeen
<1>1. Init => SeenInv
  BY DEF Init, SeenInv, Blank
<1>2. TypeOK /\ RegistryInv /\ SeenInv /\ [Next]_vars => SeenInv'
  BY SeenStep
<1>3. TypeOK /\ SeenInv /\ [Next]_vars => [Forgets]_vars
  BY ForgetsRevoked
<1>4. KeepsSeen <=> [][Forgets]_vars
  BY DEF KeepsSeen, Forgets
<1> QED
  BY <1>1, <1>2, <1>3, <1>4, RegistryInvariant, PTL DEF Spec
=============================================================================
