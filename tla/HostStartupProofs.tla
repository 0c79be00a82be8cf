-------------------------- MODULE HostStartupProofs --------------------------
(***************************************************************************)
(* Proofs for HostStartup: the store of the service is atomic, and a host  *)
(* keeps its host id, for any ids, codes and configuration files.          *)
(***************************************************************************)
EXTENDS HostStartup, TLAPS

-----------------------------------------------------------------------------
(* The inductive invariant *)

Contents == HostIdentity \cup {Absent, Torn}

\* A host id that does not contradict the ones that the host has had.
Agrees(x) == x \in HostIdentity => \A id \in taken : id = x.id

Saving == pc \in {"truncated", "written"}

StartTypeOK ==
    /\ mode \in {"service", "portable"}
    /\ files \in [path : Contents, temp : Contents]
    /\ disk \in [path : Contents, temp : Contents]
    /\ identity \in HostIdentity \cup {Absent}
    /\ Saving => job.to \in HostIdentity
    /\ pc = "written" => files.temp = job.to /\ mode = "service"
    /\ pc \in {"code", "bind", "up"} => identity \in HostIdentity
    /\ (Saving /\ job.next \in {"bind", "up"}) => identity \in HostIdentity
    /\ Saving => job.next \in {"code", "bind", "up"}

\* Once there is a host id the file is there, with this id if it is whole.
FileAgrees(store) ==
    /\ store.path = Absent => taken = {}
    /\ store.path \in HostIdentity => taken = {store.path.id}

IdsAgree ==
    (mode = "service" \/ ~powerLost) =>
        /\ FileAgrees(files)
        /\ mode = "service" => FileAgrees(disk)
        /\ Agrees(identity)
        /\ Saving => Agrees(job.to)

StartInvariant == StartTypeOK /\ IdsAgree /\ FileHoldsIdentity

\* What stands for no identity is none, and no two of them are the same.
LEMMA NoneFacts ==
    /\ Absent \notin HostIdentity
    /\ Torn \notin HostIdentity
    /\ Absent # Torn
<1>1. ASSUME NEW x \in HostIdentity PROVE x # Absent /\ x # Torn
  <2>1. "code" \in DOMAIN x
    BY DEF HostIdentity
  <2>2. "code" \notin DOMAIN Absent /\ "code" \notin DOMAIN Torn
    BY DEF Absent, Torn
  <2> QED
    BY <2>1, <2>2
<1>2. Absent.id # Torn.id
  BY DEF Absent, Torn
<1> QED
  BY <1>1, <1>2

\* The invariant holds before the first start.
LEMMA StartInit == Init => StartInvariant
  BY NoneFacts
  DEF Init, StartInvariant, StartTypeOK, IdsAgree, FileAgrees, Agrees,
      FileHoldsIdentity, Saving, Contents
-----------------------------------------------------------------------------
(* The steps *)

\* The process ends, and the store is left as it is.
LEMMA ExitStep ==
    ASSUME StartInvariant, NEW how \in {"down", "ended"}, Exits(how),
           UNCHANGED <<mode, storeVars>>
    PROVE  StartInvariant'
  BY NoneFacts
  DEF StartInvariant, StartTypeOK, IdsAgree, FileAgrees, Agrees,
      FileHoldsIdentity, Saving, Exits, storeVars

\* A step that leaves the identity, the store and the saves alone.
LEMMA QuietStep ==
    ASSUME StartInvariant, UNCHANGED <<mode, identity, job, storeVars>>,
           ~Saving', pc' \in {"code", "bind", "up"} => identity \in HostIdentity
    PROVE  StartInvariant'
  BY DEF StartInvariant, StartTypeOK, IdsAgree, FileAgrees, Agrees,
         FileHoldsIdentity, Saving, storeVars

\* save truncates a file that the service does not read from.
LEMMA BeginStep ==
    ASSUME StartInvariant, NEW to \in HostIdentity,
           NEW next \in {"code", "bind", "up"}, SaveBegins(to, next),
           UNCHANGED <<mode, identity>>,
           next \in {"bind", "up"} => identity \in HostIdentity,
           mode = "service" \/ ~powerLost => Agrees(to)
    PROVE  StartInvariant'
<1> USE DEF StartInvariant
<1>1. /\ pc' = "truncated"
      /\ job'.to = to /\ job'.next = next
      /\ UNCHANGED <<disk, taken, saved, powerLost>>
  BY DEF SaveBegins
<1>2. /\ files' \in [path : Contents, temp : Contents]
      /\ mode = "service" => files'.path = files.path
      /\ files'.path \in {files.path, Torn}
  <2>1. CASE mode = "service"
    <3>1. files' = [files EXCEPT !.temp = Torn]
      BY <2>1, Zenon DEF SaveBegins, Target
    <3> QED
      BY <3>1 DEF StartTypeOK, Contents
  <2>2. CASE mode # "service"
    <3>1. files' = [files EXCEPT !.path = Torn]
      BY <2>2, Zenon DEF SaveBegins, Target
    <3> QED
      BY <2>2, <3>1 DEF StartTypeOK, Contents
  <2> QED
    BY <2>1, <2>2
<1>3. StartTypeOK'
  BY <1>1, <1>2 DEF StartTypeOK, Saving
<1>4. IdsAgree'
  BY <1>1, <1>2, NoneFacts DEF IdsAgree, FileAgrees, Agrees, Saving
<1>5. FileHoldsIdentity'
  BY <1>1, <1>2 DEF FileHoldsIdentity
<1> QED
  BY <1>3, <1>4, <1>5

\* save returns: the file that the host reads holds the new identity.
LEMMA ReturnStep ==
    ASSUME StartInvariant, Saving, SaveReturns,
           UNCHANGED <<mode, powerLost>>,
           files'.path = job.to,
           files' \in [path : Contents, temp : Contents],
           disk' \in [path : Contents, temp : Contents],
           mode = "service" => disk'.path \in {job.to, Torn}
    PROVE  StartInvariant'
<1> USE DEF StartInvariant
<1>1. /\ pc' = job.next /\ identity' = job.to
      /\ taken' = taken \cup {job.to.id} /\ saved' = job.to
  BY DEF SaveReturns
<1>2. job.to \in HostIdentity /\ job.next \in {"code", "bind", "up"}
  BY DEF StartTypeOK
<1>3. StartTypeOK'
  BY <1>1, <1>2 DEF StartTypeOK, Saving
<1>4. IdsAgree'
  <2>1. CASE mode = "service" \/ ~powerLost
    <3>1. taken' = {job.to.id}
      BY <1>1, <1>2, <2>1 DEF IdsAgree, Agrees
    <3> QED
      BY <1>1, <1>2, <3>1, NoneFacts DEF IdsAgree, FileAgrees, Agrees, Saving
  <2> QED
    BY <2>1 DEF IdsAgree
<1>5. FileHoldsIdentity'
  BY <1>1 DEF FileHoldsIdentity
<1> QED
  BY <1>3, <1>4, <1>5

\* What the process does if nothing fails.
LEMMA ProceedsStep ==
    ASSUME StartInvariant, Proceeds
    PROVE  StartInvariant'
<1> USE DEF StartInvariant
<1>1. CASE log_opened \/ archive_removed \/ log_archived \/ config_loaded
  BY <1>1, QuietStep
  DEF log_opened, archive_removed, log_archived, config_loaded, Saving,
      processVars
<1>2. ASSUME NEW id \in Ids, NEW c \in Codes, identity_created(id, c)
      PROVE  StartInvariant'
  <2> DEFINE to == [id |-> id, paired |-> FALSE, code |-> c]
  <2>1. to \in HostIdentity
    BY DEF HostIdentity
  <2>2. mode = "service" \/ ~powerLost => Agrees(to)
    <3>1. files.path = Absent
      BY <1>2 DEF identity_created, Missing
    <3> QED
      BY <3>1 DEF IdsAgree, FileAgrees, Agrees
  <2>3. SaveBegins(to, "code") /\ UNCHANGED <<mode, identity>>
    BY <1>2 DEF identity_created
  <2> QED
    BY <2>1, <2>2, <2>3, BeginStep
<1>3. CASE identity_loaded
  <2>1. /\ files.path \in HostIdentity /\ pc' = "code" /\ ~Saving'
        /\ identity' = files.path /\ taken' = taken \cup {files.path.id}
        /\ UNCHANGED <<mode, job, files, disk, saved, powerLost>>
    BY <1>3 DEF identity_loaded, Saving
  <2>2. StartTypeOK'
    BY <2>1 DEF StartTypeOK
  <2>3. IdsAgree'
    <3>1. mode = "service" \/ ~powerLost => taken' = taken
      BY <2>1 DEF IdsAgree, FileAgrees
    <3> QED
      BY <2>1, <3>1 DEF IdsAgree, FileAgrees, Agrees
  <2>4. FileHoldsIdentity'
    BY <2>1 DEF FileHoldsIdentity
  <2> QED
    BY <2>2, <2>3, <2>4
<1>4. CASE file_written
  <2>1. Saving /\ pc = "truncated"
    BY <1>4 DEF file_written, Saving
  <2>2. job.to \in HostIdentity /\ job.to \in Contents
    BY <2>1 DEF StartTypeOK, Contents
  <2>3. CASE mode = "service"
    <3>1. files' = [files EXCEPT !.temp = job.to]
      BY <1>4, <2>3, Zenon DEF file_written, Target
    <3>2. /\ pc' = "written"
          /\ UNCHANGED <<mode, identity, job, taken, saved, disk, powerLost>>
      BY <1>4, <2>3 DEF file_written
    <3>3. /\ files' \in [path : Contents, temp : Contents]
          /\ files'.path = files.path /\ files'.temp = job.to
      BY <2>2, <3>1 DEF StartTypeOK
    <3> QED
      BY <2>1, <2>2, <2>3, <3>2, <3>3
      DEF StartTypeOK, IdsAgree, FileAgrees, Agrees, FileHoldsIdentity, Saving
  <2>4. CASE mode # "service"
    <3>1. files' = [files EXCEPT !.path = job.to]
      BY <1>4, <2>4, Zenon DEF file_written, Target
    <3>2. SaveReturns /\ UNCHANGED <<mode, disk, powerLost>>
      BY <1>4, <2>4 DEF file_written
    <3>3. /\ files' \in [path : Contents, temp : Contents]
          /\ files'.path = job.to
      BY <2>2, <3>1 DEF StartTypeOK
    <3> QED
      BY <2>1, <2>4, <3>2, <3>3, ReturnStep DEF StartTypeOK
  <2> QED
    BY <2>3, <2>4
<1>5. CASE replace_file
  <2>1. /\ Saving /\ files.temp = job.to
        /\ files' = [path |-> job.to, temp |-> Absent]
        /\ SaveReturns /\ UNCHANGED <<mode, powerLost>>
    BY <1>5 DEF replace_file, Saving, StartTypeOK
  <2>2. job.to \in Contents
    BY <2>1 DEF StartTypeOK, Contents
  <2>3. /\ disk'.path \in {job.to, Torn}
        /\ disk' \in [path : Contents, temp : Contents]
    BY <1>5, <2>1, <2>2 DEF replace_file, Moved, Contents
  <2>4. files' \in [path : Contents, temp : Contents] /\ files'.path = job.to
    BY <2>1, <2>2 DEF Contents
  <2> QED
    BY <2>1, <2>3, <2>4, ReturnStep
<1>6. CASE code_ready \/ bound
  BY <1>6, QuietStep DEF code_ready, bound, Saving, StartTypeOK
<1> QED
  BY <1>1, <1>2, <1>3, <1>4, <1>5, <1>6 DEF Proceeds

\* A start or a save that fails, a crash and a power failure.
LEMMA FailsStep ==
    ASSUME StartInvariant, Fails
    PROVE  StartInvariant'
<1> USE DEF StartInvariant
<1>1. CASE \/ rotation_failed \/ config_rejected \/ load_failed
           \/ code_rejected \/ bind_failed \/ crash
  BY <1>1, ExitStep
  DEF rotation_failed, config_rejected, load_failed, code_rejected,
      bind_failed, crash
<1>2. CASE save_failed
  <2>1. CASE job.next = "up"
    BY <1>2, <2>1
    DEF save_failed, SaveFails, storeVars, StartTypeOK, IdsAgree, FileAgrees,
        Agrees, FileHoldsIdentity, Saving
  <2>2. CASE job.next # "up"
    BY <1>2, <2>2, ExitStep DEF save_failed, SaveFails
  <2> QED
    BY <2>1, <2>2
<1>3. CASE power_lost
  <2>1. PICK p \in Survivors("path"), t \in Survivors("temp") :
          files' = [path |-> p, temp |-> t]
    BY <1>3 DEF power_lost
  <2>2. /\ pc' = "down" /\ identity' = Absent /\ disk' = files'
        /\ powerLost' = TRUE /\ UNCHANGED <<mode, taken>>
    BY <1>3 DEF power_lost, Exits
  <2>3. p \in {disk.path, Torn} /\ t \in {disk.temp, Torn}
    BY DEF Survivors
  <2>4. StartTypeOK'
    BY <2>1, <2>2, <2>3 DEF StartTypeOK, Contents, Saving
  <2>5. IdsAgree'
    BY <2>1, <2>2, <2>3, NoneFacts DEF IdsAgree, FileAgrees, Agrees, Saving
  <2> QED
    BY <2>2, <2>4, <2>5 DEF FileHoldsIdentity
<1> QED
  BY <1>1, <1>2, <1>3 DEF Fails

\* Every step keeps the invariant.
LEMMA StartStep ==
    ASSUME StartInvariant, [Next]_vars
    PROVE  StartInvariant'
<1> USE DEF StartInvariant
<1>1. CASE start \/ stopped \/ log_grows \/ \E file \in Configs : config_edited(file)
  <2>1. CASE start
    BY <2>1, QuietStep DEF start, Saving
  <2>2. CASE stopped
    BY <2>2, ExitStep DEF stopped
  <2>3. CASE log_grows \/ \E file \in Configs : config_edited(file)
    BY <2>3
    DEF log_grows, config_edited, processVars, storeVars, StartTypeOK,
        IdsAgree, FileAgrees, Agrees, FileHoldsIdentity, Saving
  <2> QED
    BY <1>1, <2>1, <2>2, <2>3
<1>2. ASSUME NEW to \in HostIdentity, NEW next \in {"bind", "up"},
             SaveBegins(to, next), UNCHANGED <<mode, identity>>,
             identity \in HostIdentity, to.id = identity.id
      PROVE  StartInvariant'
  <2>1. mode = "service" \/ ~powerLost => Agrees(to)
    BY <1>2 DEF IdsAgree, Agrees
  <2> QED
    BY <1>2, <2>1, BeginStep
<1>3. ASSUME NEW c \in Codes, code_requested(c) PROVE StartInvariant'
  <2>1. identity \in HostIdentity
    BY <1>3 DEF code_requested, StartTypeOK
  <2>2. /\ [identity EXCEPT !.code = c] \in HostIdentity
        /\ [identity EXCEPT !.code = c].id = identity.id
    BY <2>1 DEF HostIdentity
  <2> QED
    BY <1>2, <1>3, <2>1, <2>2, Zenon DEF code_requested
<1>4. CASE saved_by_host
  <2>1. PICK to : save(to) /\ \/ \E c \in Codes : to = [identity EXCEPT !.code = c]
                              \/ to = [identity EXCEPT !.paired = TRUE,
                                                       !.code = NoCode]
    BY <1>4, Zenon DEF saved_by_host
  <2>2. identity \in HostIdentity
    BY <2>1 DEF save, StartTypeOK
  <2>3. to \in HostIdentity /\ to.id = identity.id
    BY <2>1, <2>2, Zenon DEF HostIdentity
  <2> QED
    BY <1>2, <2>1, <2>2, <2>3 DEF save
<1>5. CASE write_back
  BY <1>5
  DEF write_back, processVars, StartTypeOK, IdsAgree, FileAgrees, Agrees,
      FileHoldsIdentity, Saving
<1>6. CASE UNCHANGED vars
  BY <1>6
  DEF vars, StartTypeOK, IdsAgree, FileAgrees, Agrees, FileHoldsIdentity,
      Saving
<1> QED
  BY <1>1, <1>3, <1>4, <1>5, <1>6, ProceedsStep, FailsStep DEF Next

\* The invariant holds in every reachable state.
LEMMA StartInvariance == Spec => []StartInvariant
  BY StartInit, StartStep, PTL DEF Spec
-----------------------------------------------------------------------------
(* The theorems *)

\* Wherever a save of the service stops, the file holds what was saved last,
\* and the process agrees with it, as long as the power does not fail (save,
\* replace_file).
THEOREM StoreIsAtomic == Spec => []FileHoldsIdentity
<1>1. StartInvariant => FileHoldsIdentity
  BY DEF StartInvariant
<1> QED
  BY <1>1, StartInvariance, PTL

\* A host that has had a host id never takes another one; the service not even
\* after a power failure (load_or_create, replace_file).
THEOREM HostIdIsKept == Spec => []HostIdNeverChanges
<1>1. StartInvariant => HostIdNeverChanges
  BY DEF StartInvariant, StartTypeOK, IdsAgree, Agrees, HostIdNeverChanges
<1> QED
  BY <1>1, StartInvariance, PTL
=============================================================================
