------------------------------- MODULE Pairing -------------------------------
(***************************************************************************)
(* Pairing and revoking devices next to daemons that start, reload, stop   *)
(* and die, with an embedded broker.                                       *)
(*                                                                         *)
(*   devices.json     read, changed and rewritten by `pair` and `revoke`   *)
(*                    (cli/internal/state), each a process of its own,   *)
(*                    without a lock                                       *)
(*   the PID file     names the daemon these commands send SIGHUP to       *)
(*                    (cli/internal/command)                               *)
(*   the daemon       reads devices.json three times as it starts and once *)
(*                    per SIGHUP; its broker's users, its JetStream        *)
(*                    consumers and its presence tracker follow            *)
(*                                                                         *)
(* A device stands for its ID and token, which every pairing makes anew.   *)
(* A process stands for its PID: a PID is not used again.  Left out: the   *)
(* certificate, the single-token file of older versions, the shared        *)
(* broker.                                                                 *)
(***************************************************************************)
EXTENDS Integers, FiniteSets

CONSTANTS
    Devices,        \* device IDs
    \* Processes, numbered in the order they start in:
    Commands,       \* of pair, revoke, daemon reload, status and stop
    Daemons,        \* of daemon start
    Empty, Broken,  \* contents of a file that do not parse: none, and other
    NoFile, NoPid,  \* no temporary file; no or an unreadable PID file
    MaxFaults       \* bound: faults of commands and daemons

ASSUME PairingAssumption ==
    /\ \A x \in {Empty, Broken, NoFile}, D \in SUBSET Devices : x # D
    /\ NoFile \notin {Empty, Broken} /\ NoPid \notin Daemons
    /\ Commands \subseteq Nat /\ Daemons \subseteq Nat
    /\ MaxFaults \in Nat

VARIABLES
    file,           \* devices.json
    tmp,            \* devices.json.tmp
    cmd,            \* per command: where it is and what it has in hand
    pidFile,        \* the process the PID file names
    pc,             \* where each daemon process is
    mem,            \* what it has in memory
    pending,        \* reloadCh: a SIGHUP waits in the channel of size one
    \* Histories:
    paired,         \* devices that were ever saved
    revoked,        \* devices whose removal was saved
    promised,       \* <<p, d>>: p got the SIGHUP after the removal of d
    overlapped,     \* two commands were changing devices.json at a time
    faults          \* number of faults so far (bound)

fileVars == <<file, tmp, paired, revoked, overlapped>>
daemonVars == <<pidFile, pc, mem, pending>>
vars == <<fileVars, cmd, daemonVars, promised, faults>>

Contents == {Empty, Broken} \cup SUBSET Devices
Readable(content) == content \notin {Empty, Broken}

\* LoadDevices where its error is ignored.
Loaded == IF Readable(file) THEN file ELSE {}

Blank == [users |-> {}, consumers |-> {}, known |-> {}, seen |-> {},
          read |-> {}]

Idle == [at |-> "idle", op |-> "none", about |-> {}, save |-> {},
         fd |-> "none", pid |-> NoPid]

Alive(p) == pc[p] \notin {"off", "dead"}
\* Between signal.Notify and signal.Stop SIGHUP is caught, else it kills.
Catches(p) == pc[p] \in {"listening", "loaded", "serving", "up", "reload",
                         "applied", "unwinding", "down"}
Serving(p) == pc[p] \in {"serving", "up", "reload", "applied", "unwinding"}
Running(p) == pc[p] \in {"up", "reload", "applied"}

Init ==
    /\ file \in SUBSET Devices /\ tmp = NoFile
    /\ cmd = [c \in Commands |-> Idle]
    /\ pidFile = NoPid
    /\ pc = [p \in Daemons |-> "off"]
    /\ mem = [p \in Daemons |-> Blank]
    /\ pending = [p \in Daemons |-> FALSE]
    /\ paired = file /\ revoked = {} /\ promised = {}
    /\ overlapped = FALSE /\ faults = 0

Fault == faults < MaxFaults /\ faults' = faults + 1

(***************************************************************************)
(* Commands.                                                               *)
(***************************************************************************)
Exit(c) == cmd' = [cmd EXCEPT ![c] =
                      [Idle EXCEPT !.at = "done", !.about = cmd[c].about]]

\* c is the next command that starts.
Starts(c) ==
    /\ cmd[c].at = "idle"
    /\ \A e \in Commands : e < c => cmd[e].at # "idle"

Changing == {c \in Commands : cmd[c].at \in {"opening", "writing", "renaming"}}

\* What a command that has read devices.json is about to save.
Save(c, op, about, devices) ==
    /\ Starts(c) /\ Readable(file)
    /\ overlapped' = (overlapped \/ Changing # {})
    /\ cmd' = [cmd EXCEPT ![c] = [Idle EXCEPT !.at = "opening", !.op = op,
                                      !.about = about, !.save = devices]]
    /\ UNCHANGED <<file, tmp, paired, revoked, daemonVars, promised, faults>>

\* AddDevice appends: the devices that are paired stay so.
BeginPair(c, d) ==
    /\ d \notin paired /\ \A e \in Commands : d \notin cmd[e].about
    /\ Save(c, "pair", {d}, file \cup {d})

\* One device that is in the registry, or with --all every one.
BeginRevoke(c, gone) ==
    /\ gone # {} /\ (Cardinality(gone) = 1 \/ gone = file)
    /\ Save(c, "revoke", gone, file \ gone)

\* Mutant: devices.json itself is truncated and written.
OpenInPlace(c) ==
    /\ cmd[c].at = "opening"
    /\ file' = Empty /\ tmp' = Empty
    /\ cmd' = [cmd EXCEPT ![c] = [@ EXCEPT !.at = "writing", !.fd = "tmp"]]
    /\ UNCHANGED <<paired, revoked, overlapped, daemonVars, promised, faults>>

\* O_CREATE and O_TRUNC on a name all commands share.
OpenTmp(c) ==
    /\ cmd[c].at = "opening"
    /\ tmp' = Empty
    /\ cmd' = [cmd EXCEPT ![c] = [@ EXCEPT !.at = "writing", !.fd = "tmp"]]
    /\ UNCHANGED <<file, paired, revoked, overlapped, daemonVars, promised, faults>>

\* A write at offset 0 leaves the end of what is longer.
Overwritten(old, new) ==
    IF old = Empty \/ (Readable(old) /\ Cardinality(old) < Cardinality(new))
    THEN {new} ELSE {new, Broken}

\* The open file may have been renamed, or replaced, since.
WriteTmp(c) ==
    /\ cmd[c].at = "writing"
    /\ tmp' \in IF cmd[c].fd = "tmp" THEN Overwritten(tmp, cmd[c].save) ELSE {tmp}
    /\ file' \in IF cmd[c].fd = "file" THEN Overwritten(file, cmd[c].save) ELSE {file}
    /\ cmd' = [cmd EXCEPT ![c] = [@ EXCEPT !.at = "renaming", !.fd = "none"]]
    /\ UNCHANGED <<paired, revoked, overlapped, daemonVars, promised, faults>>

\* What an open file is after a rename over devices.json.
Moved(fd) == CASE fd = "tmp" -> "file" [] fd = "file" -> "gone" [] OTHER -> fd

Rename(c) ==
    /\ cmd[c].at = "renaming" /\ tmp # NoFile
    /\ file' = tmp /\ tmp' = NoFile
    /\ cmd' = [e \in Commands |-> [cmd[e] EXCEPT !.fd = Moved(@),
                 !.at = IF e = c THEN "saved" ELSE @]]
    /\ paired' = paired \cup (IF cmd[c].op = "pair" THEN cmd[c].about ELSE {})
    /\ revoked' = revoked \cup (IF cmd[c].op = "revoke" THEN cmd[c].about ELSE {})
    /\ UNCHANGED <<overlapped, daemonVars, promised, faults>>

\* Another command has renamed the file; there is nothing left to remove.
RenameFails(c) ==
    /\ cmd[c].at = "renaming" /\ tmp = NoFile
    /\ Exit(c)
    /\ UNCHANGED <<fileVars, daemonVars, promised, faults>>

\* Killed, or an error of a write or of the output: nothing is undone, and
\* nobody is signalled.
CommandFails(c) ==
    /\ cmd[c].at \notin {"idle", "done"} /\ Fault
    /\ tmp' \in IF cmd[c].at = "writing" /\ cmd[c].fd = "tmp"
                THEN {tmp, Broken} ELSE {tmp}
    /\ file' \in IF cmd[c].at = "writing" /\ cmd[c].fd = "file"
                 THEN {file, Broken} ELSE {file}
    /\ Exit(c)
    /\ UNCHANGED <<paired, revoked, overlapped, daemonVars, promised>>

BeginReload(c) ==
    /\ Starts(c)
    /\ cmd' = [cmd EXCEPT ![c] = [Idle EXCEPT !.at = "saved", !.op = "reload"]]
    /\ UNCHANGED <<fileVars, daemonVars, promised, faults>>

\* `daemon status`; a `daemon stop` that finds no process does the same.
BeginStatus(c) ==
    /\ Starts(c)
    /\ cmd' = [cmd EXCEPT ![c] = [Idle EXCEPT !.at = "saved", !.op = "status"]]
    /\ UNCHANGED <<fileVars, daemonVars, promised, faults>>

\* Reads the PID file and asks with signal 0 whether the process lives.
ReadPid(c) ==
    /\ cmd[c].at = "saved"
    /\ LET runs == pidFile # NoPid /\ Alive(pidFile)
           at == IF runs /\ cmd[c].op # "status" THEN "killing"
                 ELSE IF pidFile # NoPid /\ ~runs /\ cmd[c].op \in {"reload", "status"}
                 THEN "cleaning" ELSE "done"
       IN  cmd' = [cmd EXCEPT ![c] = [@ EXCEPT !.at = at, !.pid = pidFile]]
    /\ UNCHANGED <<fileVars, daemonVars, promised, faults>>

\* "stale PID removed", whatever the file names by now.
CleanPid(c) ==
    /\ cmd[c].at = "cleaning"
    /\ pidFile' = NoPid
    /\ Exit(c)
    /\ UNCHANGED <<fileVars, pc, mem, pending, promised, faults>>

Die(p) ==
    /\ pc' = [pc EXCEPT ![p] = "dead"]
    /\ mem' = [mem EXCEPT ![p] = Blank]
    /\ pending' = [pending EXCEPT ![p] = FALSE]

\* SIGHUP.
Kill(c) ==
    /\ cmd[c].at = "killing"
    /\ LET p == cmd[c].pid
       IN  \/ /\ Catches(p)
              /\ pending' = [pending EXCEPT ![p] = TRUE]
              /\ promised' = promised \cup
                    {<<p, d>> : d \in cmd[c].about \cap revoked}
              /\ UNCHANGED <<pc, mem>>
           \/ Alive(p) /\ ~Catches(p) /\ Die(p) /\ UNCHANGED promised
           \/ ~Alive(p) /\ UNCHANGED <<pc, mem, pending, promised>>
    /\ Exit(c)
    /\ UNCHANGED <<fileVars, pidFile, faults>>

Command(c) ==
    \/ \E d \in Devices : BeginPair(c, d)
    \/ \E gone \in SUBSET Loaded : BeginRevoke(c, gone)
    \/ BeginReload(c) \/ BeginStatus(c)
    \/ OpenTmp(c) \/ WriteTmp(c) \/ Rename(c) \/ RenameFails(c)
    \/ CommandFails(c) \/ ReadPid(c) \/ CleanPid(c) \/ Kill(c)

(***************************************************************************)
(* Daemons.                                                                *)
(***************************************************************************)
Step(p, from, to) == pc[p] = from /\ pc' = [pc EXCEPT ![p] = to]

NamesDead == pidFile # NoPid /\ ~Alive(pidFile)

\* daemon start, of the process that stays (the one that re-executes itself in
\* the background has looked before, as `status` does): refused while the PID file names a
\* live process.
Start(p) ==
    /\ \A q \in Daemons : q < p => pc[q] # "off"
    /\ \/ pidFile = NoPid /\ Step(p, "off", "clear")
       \/ NamesDead /\ Step(p, "off", "stale")
       \/ pidFile # NoPid /\ Alive(pidFile) /\ Step(p, "off", "dead")
    /\ UNCHANGED <<fileVars, cmd, pidFile, mem, pending, promised, faults>>

\* runDaemon looks again, and goes on in either case.
LookAgain(p) ==
    /\ Step(p, "clear", IF NamesDead THEN "still stale" ELSE "fresh")
    /\ UNCHANGED <<fileVars, cmd, pidFile, mem, pending, promised, faults>>

CleanStale(p) ==
    /\ Step(p, "stale", "clear") \/ Step(p, "still stale", "fresh")
    /\ pidFile' = NoPid
    /\ UNCHANGED <<fileVars, cmd, mem, pending, promised, faults>>

\* A PID file that cannot be written is only warned about.
WritePid(p) ==
    /\ Step(p, "fresh", "named")
    /\ \/ pidFile' = p /\ UNCHANGED faults
       \/ Fault /\ UNCHANGED pidFile
    /\ UNCHANGED <<fileVars, cmd, mem, pending, promised>>

TrackDevices(p) ==
    /\ Step(p, "named", "tracking")
    /\ mem' = [mem EXCEPT ![p].known = Loaded]
    /\ UNCHANGED <<fileVars, cmd, pidFile, pending, promised, faults>>

Notify(p) ==
    /\ Step(p, "tracking", "listening")
    /\ UNCHANGED <<fileVars, cmd, pidFile, mem, pending, promised, faults>>

ReadDevices(p) ==
    /\ Step(p, "listening", IF Readable(file) THEN "loaded" ELSE "unwinding")
    /\ mem' = [mem EXCEPT ![p].read = Loaded]
    /\ UNCHANGED <<fileVars, cmd, pidFile, pending, promised, faults>>

\* The port of the broker is free, or it is not.
StartBroker(p) ==
    /\ LET free == \A q \in Daemons : ~Serving(q)
       IN  /\ Step(p, "loaded", IF free THEN "serving" ELSE "unwinding")
           /\ mem' = [mem EXCEPT ![p] =
                        [@ EXCEPT !.users = IF free THEN mem[p].read ELSE {},
                                  !.read = {}]]
    /\ UNCHANGED <<fileVars, cmd, pidFile, pending, promised, faults>>

\* The consumers, and then the subsystems.
EnsureJetStream(p) ==
    /\ \/ /\ Step(p, "serving", "up")
          /\ mem' = [mem EXCEPT ![p].consumers = Loaded]
          /\ UNCHANGED faults
       \/ Step(p, "serving", "unwinding") /\ Fault /\ UNCHANGED mem
    /\ UNCHANGED <<fileVars, cmd, pidFile, pending, promised>>

\* reloadAuth: an unreadable registry leaves everything as it was.
Reload(p) ==
    /\ pending[p] /\ pending' = [pending EXCEPT ![p] = FALSE]
    /\ Step(p, "up", IF Readable(file) THEN "reload" ELSE "up")
    /\ mem' = [mem EXCEPT ![p].read = IF Readable(file) THEN file ELSE @]
    /\ UNCHANGED <<fileVars, cmd, pidFile, promised, faults>>

\* Mutant: a reload only adds users.
ReloadAdds(p) ==
    /\ Step(p, "reload", "applied")
    /\ mem' = [mem EXCEPT ![p].users = @ \cup mem[p].read]
    /\ UNCHANGED <<fileVars, cmd, pidFile, pending, promised, faults>>

\* The broker disconnects those who are no longer its users.
ReloadAuth(p) ==
    /\ \/ /\ Step(p, "reload", "applied")
          /\ mem' = [mem EXCEPT ![p].users = mem[p].read]
          /\ UNCHANGED faults
       \/ /\ Step(p, "reload", "up") /\ Fault
          /\ mem' = [mem EXCEPT ![p].read = {}]
    /\ UNCHANGED <<fileVars, cmd, pidFile, pending, promised>>

\* Mutant: the tracker starts over.
TrackAnew(m) == [m EXCEPT !.known = m.read, !.seen = {}, !.read = {}]

\* Mutant: what was seen of a revoked device stays.
TrackOnly(m) == [m EXCEPT !.known = m.read, !.read = {}]

\* ReloadDevices of the presence tracker: the others keep what was seen.
Track(m) == [m EXCEPT !.known = m.read, !.seen = @ \cap m.read, !.read = {}]

\* Mutant: signals that came during a reload count as handled.
FinishAndDrain(p) ==
    /\ Step(p, "applied", "up")
    /\ mem' = [mem EXCEPT ![p] =
                [Track(mem[p]) EXCEPT !.consumers = @ \cup mem[p].read]]
    /\ pending' = [pending EXCEPT ![p] = FALSE]
    /\ UNCHANGED <<fileVars, cmd, pidFile, promised, faults>>

\* Consumers are made and never deleted; an error of that is only logged.
FinishReload(p) ==
    /\ Step(p, "applied", "up")
    /\ \/ /\ mem' = [mem EXCEPT ![p] =
                        [Track(mem[p]) EXCEPT !.consumers = @ \cup mem[p].read]]
          /\ UNCHANGED faults
       \/ mem' = [mem EXCEPT ![p] = Track(@)] /\ Fault
    /\ UNCHANGED <<fileVars, cmd, pidFile, pending, promised>>

\* SIGTERM or SIGINT, seen between two reloads or in start-up.
Interrupt(p) ==
    /\ Step(p, "serving", "unwinding") \/ Step(p, "up", "unwinding")
    /\ UNCHANGED <<fileVars, cmd, pidFile, mem, pending, promised, faults>>

\* The deferred calls: broker and its memory stream, signals, PID file.
ShutBroker(p) ==
    /\ Step(p, "unwinding", "down")
    /\ mem' = [mem EXCEPT ![p] = Blank]
    /\ UNCHANGED <<fileVars, cmd, pidFile, pending, promised, faults>>

StopSignals(p) ==
    /\ Step(p, "down", "deaf")
    /\ pending' = [pending EXCEPT ![p] = FALSE]
    /\ UNCHANGED <<fileVars, cmd, pidFile, mem, promised, faults>>

\* removePIDIfOwned reads the file, and then removes it.
CheckOwner(p) ==
    /\ Step(p, "deaf", IF pidFile = p THEN "owner" ELSE "dead")
    /\ UNCHANGED <<fileVars, cmd, pidFile, mem, pending, promised, faults>>

RemovePid(p) ==
    /\ Step(p, "owner", "dead")
    /\ pidFile' = NoPid
    /\ UNCHANGED <<fileVars, cmd, mem, pending, promised, faults>>

Crash(p) ==
    /\ Alive(p) /\ Die(p)
    /\ UNCHANGED <<fileVars, cmd, pidFile, promised, faults>>

Daemon(p) ==
    \/ LookAgain(p) \/ CleanStale(p) \/ WritePid(p) \/ TrackDevices(p)
    \/ Notify(p) \/ ReadDevices(p) \/ StartBroker(p) \/ EnsureJetStream(p)
    \/ Reload(p) \/ ReloadAuth(p) \/ FinishReload(p)
    \/ ShutBroker(p) \/ StopSignals(p) \/ CheckOwner(p) \/ RemovePid(p)

(***************************************************************************)
(* Phones.                                                                 *)
(***************************************************************************)
\* Every user of the broker may be connected and send heartbeats; those of a
\* device the tracker does not know are only warned about.
Heartbeat(p, d) ==
    /\ Running(p) /\ d \in (mem[p].users \cap mem[p].known) \ mem[p].seen
    /\ mem' = [mem EXCEPT ![p].seen = @ \cup {d}]
    /\ UNCHANGED <<fileVars, cmd, pidFile, pc, pending, promised, faults>>

Next ==
    \/ \E c \in Commands : Command(c)
    \/ \E p \in Daemons : Start(p) \/ Daemon(p) \/ Interrupt(p) \/ Crash(p)
    \/ \E p \in Daemons, d \in Devices : Heartbeat(p, d)

Spec == Init /\ [][Next]_vars

(***************************************************************************)
(* Properties.                                                             *)
(***************************************************************************)
FileType ==
    /\ file \in Contents /\ tmp \in {NoFile} \cup Contents
    /\ paired \subseteq Devices /\ revoked \subseteq Devices
    /\ overlapped \in BOOLEAN

CommandState ==
    [at : {"idle", "opening", "writing", "renaming", "saved", "killing",
           "cleaning", "done"},
     op : {"none", "pair", "revoke", "reload", "status"},
     about : SUBSET Devices, save : SUBSET Devices,
     fd : {"none", "tmp", "file", "gone"}, pid : Daemons \cup {NoPid}]

CommandType ==
    /\ cmd \in [Commands -> CommandState]
    /\ \A c \in Commands : cmd[c].at = "killing" => cmd[c].pid \in Daemons

Steps == {"off", "stale", "clear", "still stale", "fresh", "named", "tracking",
          "listening", "loaded", "serving", "up", "reload", "applied",
          "unwinding", "down", "deaf", "owner", "dead"}

Memory == [users : SUBSET Devices, consumers : SUBSET Devices,
           known : SUBSET Devices, seen : SUBSET Devices, read : SUBSET Devices]

DaemonType ==
    /\ pidFile \in Daemons \cup {NoPid}
    /\ pc \in [Daemons -> Steps]
    /\ mem \in [Daemons -> Memory]
    /\ pending \in [Daemons -> BOOLEAN]
    /\ \A p \in Daemons : mem[p].seen \subseteq mem[p].known
    /\ \A p \in Daemons :
          ~Serving(p) => mem[p].users = {} /\ mem[p].seen = {}

HistoryType ==
    /\ promised \subseteq Daemons \X revoked
    /\ faults \in 0..MaxFaults

\* Values of the right kind; whom a command signals it has found; in every
\* daemon who was seen is known, and only one that serves has users or sees any.
TypeOK == FileType /\ CommandType /\ DaemonType /\ HistoryType

\* As long as no two commands change devices.json at a time, it is at every
\* moment the registry of the devices paired and not revoked, those of earlier
\* pairings included (state.AddDevice), though commands are killed or fail
\* between any two steps (state.writeAtomicBytes).
PairedUntilRevoked == ~overlapped => file = paired \ revoked

\* A daemon that has the PID file and no reload before it, while no command
\* is about to signal, has the devices of the registry: as its users, as
\* those it tracks, and among its consumers.  A command saves and then looks
\* for the daemon, a daemon writes its PID and then looks at the registry, so
\* that one of the two sees the other (command/pair.go, command/daemon.go).
Agreement ==
    \A p \in Daemons :
       (/\ pc[p] = "up" /\ pidFile = p /\ ~pending[p]
        /\ faults = 0 /\ ~overlapped
        /\ \A c \in Commands : cmd[c].at \notin {"saved", "killing"})
       => /\ mem[p].users = file /\ mem[p].known = file
          /\ file \subseteq mem[p].consumers

\* A reload forgets when it last saw a device only if the device was revoked
\* (Tracker.ReloadDevices: "Existing devices retain their last-seen state").
KeepsSeen ==
    [][\A p \in Daemons : (Running(p) /\ Running(p)') =>
          overlapped \/ mem[p].seen \ mem'[p].seen \subseteq revoked]_vars

\* When a revoke has told the daemon, the device is not a user of its broker,
\* or the reload that takes it out is on its way (command/revoke.go: "device
\* will be disconnected"), unless something fails.
CutOff ==
    (faults = 0 /\ ~overlapped) =>
       \A p \in Daemons, d \in Devices :
          (<<p, d>> \in promised /\ d \in mem[p].users) =>
             pending[p] \/ (pc[p] = "reload" /\ d \notin mem[p].read)
=============================================================================
