---------------------------- MODULE HostStartup ----------------------------
(***************************************************************************)
(* The host process from start to stop and what it keeps on disk: main.rs  *)
(* (log, portable mode), config.rs, run_service of service/windows.rs up   *)
(* to Running, and the stores of storage/, system call by system call.     *)
(*                                                                         *)
(* The file system is external.  What the process reads back (files) can   *)
(* be ahead of what a power failure leaves (disk).  A file that has not    *)
(* been written back comes out of a power failure with its old contents or *)
(* torn.  MOVEFILE_WRITE_THROUGH puts the move itself on the disk, not the *)
(* data of the moved file, which nobody has flushed.                       *)
(***************************************************************************)
EXTENDS Integers

CONSTANTS
    Ids,            \* host ids
    Codes,          \* pairing codes
    NoCode,         \* pairing_code: None
    Configs,        \* contents of the configuration file
    MaxPort         \* u16::MAX

VARIABLES
    mode,           \* --service or --dev
    pc,             \* how far the process is
    port,           \* the port to listen on
    identity,       \* HostIdentity in memory
    job,            \* the save in progress, and where to go on after it
    files,          \* the identity file and its temporary, as they are read
    disk,           \* the same, as a power failure leaves them
    config,         \* the configuration file
    log,            \* the service log is full; there is an archive of it
    taken,          \* the host ids of every identity it has had in memory
    saved,          \* the identity that was saved last
    powerLost

vars == <<mode, pc, port, identity, job, files, disk, config, log,
          taken, saved, powerLost>>

HostIdentity ==
    [id : Ids, paired : BOOLEAN, code : Codes \cup {NoCode}]

Absent == [id |-> "absent"]
Torn == [id |-> "torn"]

NoJob == [to |-> Absent, next |-> "down"]

processVars == <<pc, port, identity, job>>
storeVars == <<files, disk, taken, saved, powerLost>>
-----------------------------------------------------------------------------
(* Helpers *)

DEFAULT_PORT == 1

InvalidPort == 0

\* HostConfig::load: no file and no port mean the default port, and a port is
\* a nonzero u16.
load(file) ==
    CASE file.kind \in {"absent", "no port"} -> DEFAULT_PORT
      [] file.kind = "port" /\ file.port \in 1..MaxPort -> file.port
      [] OTHER -> InvalidPort

\* The process ends.  After a crash or a power failure it is down, and the
\* service control manager starts the service again.  It has ended after a stop,
\* and after an error of run_service: one behind the bind is even reported as
\* Stopped with exit code 0, which no recovery action answers.
Exits(how) ==
    /\ pc' = how
    /\ port' = 0
    /\ identity' = Absent
    /\ job' = NoJob

\* A save that fails ends a start, and is reported by a running host.
SaveFails ==
    IF job.next = "up"
      THEN pc' = "up" /\ job' = NoJob /\ UNCHANGED <<port, identity>>
      ELSE Exits("ended")

\* Faulty variant: the service writes the file itself, too.
Target_in_place == "path"

\* The file that save writes: the service's temporary or the file itself.
Target == IF mode = "service" THEN "temp" ELSE "path"

\* Faulty variant: the target must not exist yet.
SaveBegins_exclusive(to, next) ==
    /\ files[Target] = Absent
    /\ pc' = "truncated"
    /\ job' = [to |-> to, next |-> next]
    /\ files' = [files EXCEPT ![Target] = Torn]
    /\ UNCHANGED <<port, disk, taken, saved, powerLost>>

\* save begins: the target is created or truncated.
SaveBegins(to, next) ==
    /\ pc' = "truncated"
    /\ job' = [to |-> to, next |-> next]
    /\ files' = [files EXCEPT ![Target] = Torn]
    /\ UNCHANGED <<port, disk, taken, saved, powerLost>>

\* save returns Ok.
SaveReturns ==
    /\ pc' = job.next
    /\ identity' = job.to
    /\ taken' = taken \cup {job.to.id}
    /\ saved' = job.to
    /\ job' = NoJob
-----------------------------------------------------------------------------
(* The start of the process *)

\* The service control manager starts the service, or somebody the portable
\* host.  The portable host keeps no log.
start ==
    /\ pc \in {"down", "ended"}
    /\ pc' = IF mode = "service" THEN "log" ELSE "config"
    /\ UNCHANGED <<mode, port, identity, job, config, log, storeVars>>

\* rotate_log_if_needed, in its two steps; opening the log may fail.
log_opened ==
    /\ pc = "log" /\ ~log.full
    /\ pc' = "config"
    /\ UNCHANGED <<mode, port, identity, job, config, log, storeVars>>

archive_removed ==
    /\ pc = "log" /\ log.full /\ log.archived
    /\ log' = [log EXCEPT !.archived = FALSE]
    /\ UNCHANGED <<mode, processVars, config, storeVars>>

log_archived ==
    /\ pc = "log" /\ log.full /\ ~log.archived
    /\ log' = [full |-> FALSE, archived |-> TRUE]
    /\ pc' = "config"
    /\ UNCHANGED <<mode, port, identity, job, config, storeVars>>

\* A failure to rotate the log ends the start.
rotation_failed ==
    /\ pc = "log" /\ log.full
    /\ Exits("ended")
    /\ UNCHANGED <<mode, config, log, storeVars>>

\* With --ephemeral-port, the portable host leaves the port to the system.
config_loaded ==
    /\ pc = "config"
    /\ load(config) # InvalidPort
    /\ \/ port' = load(config)
       \/ mode = "portable" /\ port' = 0
    /\ pc' = "load"
    /\ UNCHANGED <<mode, identity, job, config, log, storeVars>>

config_rejected ==
    /\ pc = "config"
    /\ load(config) = InvalidPort
    /\ Exits("ended")
    /\ UNCHANGED <<mode, config, log, storeVars>>

\* Faulty variant: a file that cannot be read is taken for a missing one.
Missing_or_unreadable(file) == file \in {Absent, Torn}

\* load_or_create looks for the file before it reads it.
Missing(file) == file = Absent

\* HostIdentity::default()
identity_created(id, c) ==
    /\ pc = "load" /\ Missing(files.path)
    /\ id \notin taken
    /\ SaveBegins([id |-> id, paired |-> FALSE, code |-> c], "code")
    /\ UNCHANGED <<mode, identity, config, log>>

identity_loaded ==
    /\ pc = "load" /\ files.path \in HostIdentity
    /\ identity' = files.path
    /\ taken' = taken \cup {files.path.id}
    /\ pc' = "code"
    /\ UNCHANGED <<mode, port, job, config, log, files, disk, saved, powerLost>>

\* unprotect or serde_json fails, or the read, or create_dir_all.
load_failed ==
    /\ pc = "load"
    /\ Exits("ended")
    /\ UNCHANGED <<mode, config, log, storeVars>>
-----------------------------------------------------------------------------
(* save, from its second step on *)

\* fs::write has written everything; the service goes on to replace_file.
file_written ==
    /\ pc = "truncated"
    /\ files' = [files EXCEPT ![Target] = job.to]
    /\ \/ /\ mode = "service"
          /\ pc' = "written"
          /\ UNCHANGED <<port, identity, job, taken, saved>>
       \/ /\ mode = "portable"
          /\ SaveReturns
          /\ UNCHANGED port
    /\ UNCHANGED <<mode, config, log, disk, powerLost>>

\* The move is on the disk when MoveFileExW returns; the data of the file is
\* there if it happens to have been written back before.
Moved ==
    [path |-> IF disk.temp = files.temp THEN files.temp ELSE Torn,
     temp |-> Absent]

replace_file ==
    /\ pc = "written"
    /\ files' = [path |-> files.temp, temp |-> Absent]
    /\ disk' = Moved
    /\ SaveReturns
    /\ UNCHANGED <<mode, port, config, log, powerLost>>

\* The disk is full, or the destination is in use.
save_failed ==
    /\ pc \in {"truncated", "written"}
    /\ SaveFails
    /\ UNCHANGED <<mode, config, log, storeVars>>
-----------------------------------------------------------------------------
(* The rest of the start, and the running host *)

\* The stored code, or a generated one that is not stored.
code_ready ==
    /\ pc = "code"
    /\ pc' = "bind"
    /\ UNCHANGED <<mode, port, identity, job, config, log, storeVars>>

\* --pairing-code-value
code_requested(c) ==
    /\ pc = "code" /\ mode = "portable"
    /\ SaveBegins([identity EXCEPT !.code = c], "bind")
    /\ UNCHANGED <<mode, identity, config, log>>

\* --pairing-code-value is not a code, or the stored one is not.
code_rejected ==
    /\ pc = "code"
    /\ Exits("ended")
    /\ UNCHANGED <<mode, config, log, storeVars>>

bound ==
    /\ pc = "bind"
    /\ pc' = "up"
    /\ UNCHANGED <<mode, port, identity, job, config, log, storeVars>>

bind_failed ==
    /\ pc = "bind"
    /\ Exits("ended")
    /\ UNCHANGED <<mode, config, log, storeVars>>

\* generate_pairing_code, and pair with its final request.
save(to) ==
    /\ pc = "up"
    /\ SaveBegins(to, "up")
    /\ UNCHANGED <<mode, identity, config, log>>

saved_by_host ==
    \/ \E c \in Codes : save([identity EXCEPT !.code = c])
    \/ save([identity EXCEPT !.paired = TRUE, !.code = NoCode])

log_grows ==
    /\ pc = "up" /\ mode = "service" /\ ~log.full
    /\ log' = [log EXCEPT !.full = TRUE]
    /\ UNCHANGED <<mode, processVars, config, storeVars>>

\* A stop or a shutdown control, or the management pipe fails.
stopped ==
    /\ pc = "up"
    /\ Exits("ended")
    /\ UNCHANGED <<mode, config, log, storeVars>>

crash ==
    /\ pc \notin {"down", "ended"}
    /\ Exits("down")
    /\ UNCHANGED <<mode, config, log, storeVars>>
-----------------------------------------------------------------------------
(* The machine *)

config_edited(file) ==
    /\ config' = file
    /\ UNCHANGED <<mode, processVars, log, storeVars>>

write_back ==
    /\ disk # files
    /\ disk' = files
    /\ UNCHANGED <<mode, processVars, config, log, files, taken, saved,
                   powerLost>>

\* What a power failure leaves of a file.
Survivors(f) ==
    IF disk[f] = files[f] THEN {disk[f]} ELSE {disk[f], Torn}

power_lost ==
    /\ \E p \in Survivors("path"), t \in Survivors("temp") :
          files' = [path |-> p, temp |-> t]
    /\ disk' = files'
    /\ powerLost' = TRUE
    /\ Exits("down")
    /\ UNCHANGED <<mode, config, log, taken, saved>>
-----------------------------------------------------------------------------
Init ==
    /\ mode \in {"service", "portable"}
    /\ pc = "down"
    /\ port = 0
    /\ identity = Absent
    /\ job = NoJob
    /\ files = [path |-> Absent, temp |-> Absent]
    /\ disk = files
    /\ config \in Configs
    /\ log = [full |-> FALSE, archived |-> FALSE]
    /\ taken = {}
    /\ saved = Absent
    /\ powerLost = FALSE

\* What the process does if nothing fails.
Proceeds ==
    \/ log_opened
    \/ archive_removed
    \/ log_archived
    \/ config_loaded
    \/ \E id \in Ids, c \in Codes : identity_created(id, c)
    \/ identity_loaded
    \/ file_written
    \/ replace_file
    \/ code_ready
    \/ bound

\* Why a start may end early.
Fails ==
    \/ rotation_failed
    \/ config_rejected
    \/ load_failed
    \/ save_failed
    \/ code_rejected
    \/ bind_failed
    \/ crash
    \/ power_lost

Next ==
    \/ start
    \/ Proceeds
    \/ Fails
    \/ \E c \in Codes : code_requested(c)
    \/ saved_by_host
    \/ log_grows
    \/ stopped
    \/ \E file \in Configs : config_edited(file)
    \/ write_back

Spec == Init /\ [][Next]_vars

\* The service control manager starts the service after boot and after a crash,
\* and the process goes on.  Nobody has to start a service that has ended.
FairSpec ==
    /\ Spec
    /\ WF_vars(mode = "service" /\ pc = "down" /\ start)
    /\ WF_vars(\/ Proceeds
               \/ config_rejected
               \/ files.path = Torn /\ load_failed)
-----------------------------------------------------------------------------
(* Properties *)

\* The store of the service is atomic, as HostPairing and RequestAuth take it
\* to be: wherever a save stops, by a failure or a crash, the file holds the
\* identity that was saved last, and so does the process, if it runs (save,
\* replace_file).  Only a power failure can tear the file.
FileHoldsIdentity ==
    (mode = "service" /\ ~powerLost)
        => /\ files.path = saved
           /\ identity # Absent => identity = saved

\* A host never takes a new host_id once it has had one, so a
\* paired Deck never takes it for another PC: a file that cannot be read ends
\* the start (load_or_create).  The service keeps to it even through power
\* failures, because its move is written through (replace_file).
HostIdNeverChanges ==
    (mode = "service" \/ ~powerLost)
        => \A id \in taken : identity = Absent \/ identity.id = id

\* Whatever a crash or a power failure left behind, a half-rotated log or an old
\* temporary file, the service comes up again, unless its starts go on failing
\* for reasons of their own, a power failure tore the file, or the service has
\* ended and nobody starts it (init_logging, run_service, load_or_create).
ServiceComesUp ==
    \/ []<><<Fails>>_vars
    \/ <>(mode # "service" \/ files.path = Torn)
    \/ <>[](pc = "ended")
    \/ []<>(pc = "up")
=============================================================================
