----------------------------- MODULE AuditExport -----------------------------
(***************************************************************************)
(* Exports of audit data for the regulator (audit-export): runs and their  *)
(* files, the log of accesses to them, and the scheduler.  A history is    *)
(* about one of the three: the flags "exports", "accesses" and "schedules" *)
(* say which.                                                              *)
(***************************************************************************)
EXTENDS Histories, Integers, FiniteSets, Sequences

CONSTANTS
    Exports,       \* rows of runs, each with the call that creates it
    Cancels,       \* calls of cancelExportRun
    LastHour,      \* the clock stops here (bound)
    MaxRange,      \* maxRangeDays of the template, in hours
    PdfRows,       \* how many records a PDF shows
    Accesses,      \* requests that are logged
    Schedules,
    ScheduleCalls  \* calls of the scheduler

ASSUME AuditExportAssumption ==
    /\ LastHour \in Nat /\ MaxRange \in Nat /\ PdfRows \in Nat
    /\ None \notin Exports \cup {"DAILY", "WEEKLY"}

VARIABLES
    now,        \* the clock, in hours
    records,    \* past hours in which an auditable record was written; a session is taken
                \* to have begun an hour before its record
    run,        \* rows of runs
    maker,      \* calls of createExportRun
    files,      \* rows of files that are not marked deleted
    bucket,     \* objects in the storage bucket (external)
    cancel,     \* calls of cancelExportRun, with the run each has read
    cleanup,    \* the run whose files deleteExportFiles (no caller) is at, and how far
    access,     \* requests to read a run's file or to create the run
    object,     \* what the bucket holds for a run
    chain,      \* access_logs, each row with its run, its request and prev_hash
    schedule,   \* rows of schedules
    registry,   \* cron jobs that run, by schedule
    activeJobs, \* the scheduler's own map of jobs
    change      \* calls of the scheduler

runVars == <<now, records, run, maker, files, bucket, cancel, cleanup>>
chainVars == <<access, object, chain>>
scheduleVars == <<schedule, registry, activeJobs, change>>
exportVars == <<runVars, chainVars, scheduleVars>>

Hours == 0..LastHour
ExportRunStatus == {"none", "PENDING", "PROCESSING", "COMPLETED", "FAILED", "CANCELLED"}
Sources == {"usage_records", "created"}   \* by session_start; the others, by created_at
ExportFormats == {"csv", "pdf", "all"}
Parts == {"zip", "single"}
AuditExportRun == [status : ExportRunStatus, source : Sources, format : ExportFormats,
                   from : Int, to : Int, bundle : SUBSET Hours, began : Int]
NoRun == [status |-> "none", source |-> "created", format |-> "csv", from |-> 0, to |-> 0,
          bundle |-> {}, began |-> 0]
Maker == [pc : {"idle", "log", "start", "fetch", "upload", "record", "complete", "fail", "done",
                "died"},
          data : SUBSET Hours, part : Parts]
IdleMaker == [pc |-> "idle", data |-> {}, part |-> "zip"]
Request == [pc : {"idle", "last", "insert", "fetch", "done"},
            kind : {"create", "download", "url"}, of : Exports \cup {None},
            prev : Exports \cup {"GENESIS"}, got : {"nothing", "plain", "cipher", "altered"}]
Frequencies == {"DAILY", "WEEKLY"}
AuditExportSchedule == [state : {"none", "active", "inactive"}, frequency : Frequencies]
Change == [pc : {"idle", "apply"}, kind : {"create", "update", "deactivate", "load"},
           of : SUBSET Schedules, rows : [Schedules -> AuditExportSchedule]]
NoSchedules == [s \in Schedules |-> [state |-> "none", frequency |-> "DAILY"]]
IdleChange == [pc |-> "idle", kind |-> "load", of |-> {}, rows |-> NoSchedules]

ExportInit ==
    /\ now = 0 /\ records = {}
    /\ run = [e \in Exports |-> NoRun]
    /\ maker = [e \in Exports |-> IdleMaker]
    /\ files = {} /\ bucket = {}
    /\ cancel = [c \in Cancels |-> None]
    /\ cleanup = [pc |-> "idle", run |-> None, paths |-> {}]
    /\ access = [x \in Accesses |-> [pc |-> "idle", kind |-> "create", of |-> None,
                                     prev |-> "GENESIS", got |-> "nothing"]]
    /\ object = [e \in Exports |-> IF May("encrypted") THEN "cipher" ELSE "plain"]
    /\ chain = <<>>
    /\ schedule = NoSchedules
    /\ registry = [s \in Schedules |-> None]
    /\ activeJobs = {}
    /\ change = [c \in ScheduleCalls |-> IdleChange]

-----------------------------------------------------------------------------
(* createExportRun.                                                        *)

\* PtaComplianceGuard, AuditExportRoleGuard with ROLE_PERMISSIONS.
AuditExportRoles == {"SUPER_ADMIN", "PTA_COMPLIANCE_OFFICER", "NOC_MANAGER", "VIEW_ONLY_AUDIT"}
PtaCompliance(role) == role \in {"SUPER_ADMIN", "PTA_COMPLIANCE_OFFICER"}
MayDownload(role) == PtaCompliance(role) \/ role = "NOC_MANAGER"

\* The end may lie an hour ahead of the clock.
Valid(from, to) == from < to /\ to - from <= MaxRange /\ to <= now + 1

MakerAt(e, pc) == maker' = [maker EXCEPT ![e].pc = pc]
SetStatus(e, status) == run' = [run EXCEPT ![e].status = status]

CreateRun(e, source, format, from, to) ==
    /\ run[e].status = "none" /\ Valid(from, to)
    /\ run' = [run EXCEPT ![e] = [status |-> "PENDING", source |-> source, format |-> format,
                                  from |-> from, to |-> to, bundle |-> {}, began |-> now]]
    /\ MakerAt(e, "log")
    /\ UNCHANGED <<now, records, files, bucket, cancel, cleanup>>

\* Runs do not touch one another: the second run of a history is a retry (bound).
CreateExportRun(e) ==
    /\ \A f \in Exports : run[f].status = "none"
    /\ \E role \in AuditExportRoles, source \in Sources, format \in ExportFormats,
          from, to \in Hours :
          PtaCompliance(role) /\ CreateRun(e, source, format, from, to)

\* Another run with the parameters of one that failed.
RetryExportRun(e, f) ==
    /\ run[f].status = "FAILED"
    /\ CreateRun(e, run[f].source, run[f].format, run[f].from, run[f].to)

\* Not covered by the try: a run whose creation cannot be logged stays PENDING.
LogCreation(e) ==
    /\ maker[e].pc = "log"
    /\ MakerAt(e, "start") \/ (May("writes") /\ MakerAt(e, "died"))
    /\ UNCHANGED <<now, records, run, files, bucket, cancel, cleanup>>

MarkProcessing(e) ==
    /\ maker[e].pc = "start"
    /\ \/ SetStatus(e, "PROCESSING") /\ MakerAt(e, "fetch")
       \/ May("writes") /\ MakerAt(e, "fail") /\ UNCHANGED run
    /\ UNCHANGED <<now, records, files, bucket, cancel, cleanup>>

\* What a source has in a range: fetchIpdrData goes by the beginning of a session, the other
\* fetchers by the time of the record.  Mutated form: the end of the range is left out.
SourceRecordsOpen(source, from, to) ==
    LET shift == IF source = "usage_records" THEN 1 ELSE 0 IN
    {h \in records : from <= h - shift /\ h - shift < to}
IpdrRecords(from, to) == {h \in records : from <= h - 1 /\ h - 1 <= to}
LoggedRecords(from, to) == {h \in records : from <= h /\ h <= to}
SourceRecords(source, from, to) ==
    IF source = "usage_records" THEN IpdrRecords(from, to) ELSE LoggedRecords(from, to)

FetchExportData(e) ==
    /\ maker[e].pc = "fetch"
    /\ \/ LET data == SourceRecords(run[e].source, run[e].from, run[e].to) IN
          maker' = [maker EXCEPT ![e] = [pc |-> IF data = {} THEN "complete" ELSE "upload",
                                         data |-> data, part |-> "zip"]]
       \/ May("reads") /\ MakerAt(e, "fail")
    /\ UNCHANGED <<now, records, run, files, bucket, cancel, cleanup>>

\* What each file shows: a PDF the first PdfRows records.
GeneratePdf(data) == {h \in data : Cardinality({g \in data : g < h}) < PdfRows}
GenerateCsv(data) == data
GenerateExportBundle(format, data) ==
    IF format = "pdf" THEN GeneratePdf(data)
    ELSE GenerateCsv(data) \cup (IF format = "all" THEN GeneratePdf(data) ELSE {})

\* storeFile: an object of its own name, then its row.  Mutated form: the upload's error
\* is not looked at.
UploadUnchecked(e) ==
    /\ maker[e].pc = "upload"
    /\ bucket' = bucket \cup {<<e, maker[e].part>>} \/ (May("writes") /\ UNCHANGED bucket)
    /\ MakerAt(e, "record")
    /\ UNCHANGED <<now, records, run, files, cancel, cleanup>>
Upload(e) ==
    /\ maker[e].pc = "upload"
    /\ \/ bucket' = bucket \cup {<<e, maker[e].part>>} /\ MakerAt(e, "record")
       \/ May("writes") /\ MakerAt(e, "fail") /\ UNCHANGED bucket
    /\ UNCHANGED <<now, records, run, files, cancel, cleanup>>

\* storeExportBundle: the ZIP, then the file of an export in one format.
AfterPart(e) == IF maker[e].part = "zip" /\ run[e].format # "all" THEN "upload" ELSE "complete"
RecordFile(e) ==
    /\ maker[e].pc = "record"
    /\ \/ /\ files' = files \cup {<<e, maker[e].part>>}
          /\ maker' = [maker EXCEPT ![e].pc = AfterPart(e), ![e].part = "single"]
       \/ May("writes") /\ MakerAt(e, "fail") /\ UNCHANGED files
    /\ UNCHANGED <<now, records, run, bucket, cancel, cleanup>>

\* Whatever the status has become meanwhile.  bundle is what the files show (history).
Complete(e) ==
    /\ maker[e].pc = "complete"
    /\ \/ /\ run' = [run EXCEPT ![e].status = "COMPLETED",
                       ![e].bundle = GenerateExportBundle(run[e].format, maker[e].data)]
          /\ MakerAt(e, "done")
       \/ May("writes") /\ MakerAt(e, "fail") /\ UNCHANGED run
    /\ UNCHANGED <<now, records, files, bucket, cancel, cleanup>>

\* Mutated form: the failure is reported and not written.
MarkFailedNot(e) ==
    /\ maker[e].pc = "fail" /\ MakerAt(e, "done")
    /\ UNCHANGED <<now, records, run, files, bucket, cancel, cleanup>>
MarkFailed(e) ==
    /\ maker[e].pc = "fail"
    /\ SetStatus(e, "FAILED") \/ (May("writes") /\ UNCHANGED run)
    /\ MakerAt(e, "done")
    /\ UNCHANGED <<now, records, files, bucket, cancel, cleanup>>

ExportStep(e) ==
    LogCreation(e) \/ MarkProcessing(e) \/ FetchExportData(e) \/ Upload(e) \/ RecordFile(e)
      \/ Complete(e) \/ MarkFailed(e)

-----------------------------------------------------------------------------
(* Meanwhile: cancelExportRun, deleteExportFiles, the clock, a crash.      *)

CancelRead(c, e) ==
    /\ May("cancels") /\ cancel[c] = None /\ run[e].status \in {"PENDING", "PROCESSING"}
    /\ cancel' = [cancel EXCEPT ![c] = e]
    /\ UNCHANGED <<now, records, run, maker, files, bucket, cleanup>>
CancelWrite(c) ==
    /\ cancel[c] # None
    /\ SetStatus(cancel[c], "CANCELLED")
    /\ cancel' = [cancel EXCEPT ![c] = None]
    /\ UNCHANGED <<now, records, maker, files, bucket, cleanup>>

Of(e, S) == {f \in S : f[1] = e}
ListFiles(e) ==
    /\ May("cleanup") /\ cleanup.pc = "idle" /\ run[e].status # "none"
    /\ cleanup' = [pc |-> "remove", run |-> e, paths |-> Of(e, files)]
    /\ UNCHANGED <<now, records, run, maker, files, bucket, cancel>>
\* Objects that cannot be removed are logged.
RemoveObjects ==
    /\ cleanup.pc = "remove"
    /\ bucket' = bucket \ cleanup.paths \/ (May("writes") /\ UNCHANGED bucket)
    /\ cleanup' = [cleanup EXCEPT !.pc = "mark"]
    /\ UNCHANGED <<now, records, run, maker, files, cancel>>
\* Mutated form: nothing is marked.
MarkDeletedNot ==
    /\ cleanup.pc = "mark"
    /\ cleanup' = [pc |-> "idle", run |-> None, paths |-> {}]
    /\ UNCHANGED <<now, records, run, maker, files, bucket, cancel>>
MarkDeleted ==
    /\ cleanup.pc = "mark"
    /\ files' = files \ Of(cleanup.run, files) \/ (May("writes") /\ UNCHANGED files)
    /\ cleanup' = [pc |-> "idle", run |-> None, paths |-> {}]
    /\ UNCHANGED <<now, records, run, maker, bucket, cancel>>

\* An hour ends, with a record or without.
HourPasses ==
    /\ now < LastHour /\ now' = now + 1
    /\ records' \in {records, records \cup {now}}
    /\ UNCHANGED <<run, maker, files, bucket, cancel, cleanup>>

ExporterDies ==
    /\ May("crash")
    /\ maker' = [e \in Exports |-> IF maker[e].pc \in {"idle", "done", "died"} THEN maker[e]
                                   ELSE [maker[e] EXCEPT !.pc = "died"]]
    /\ cancel' = [c \in Cancels |-> None]
    /\ cleanup' = [pc |-> "idle", run |-> None, paths |-> {}]
    /\ <<maker, cancel, cleanup>>' # <<maker, cancel, cleanup>>
    /\ UNCHANGED <<now, records, run, files, bucket>>

-----------------------------------------------------------------------------
(* The log of accesses.                                                    *)

AtRest(x) == access[x].pc \in {"idle", "done"}

\* logExportCreated of a run, downloadFile, getSignedDownloadUrl: the last two have found
\* the file's row.
BeginAccess(x, kind, e) ==
    /\ access[x].pc = "idle"
    /\ May("serial") => \A y \in Accesses : AtRest(y)
    /\ \E role \in AuditExportRoles : IF kind = "download" THEN MayDownload(role)
                                                           ELSE PtaCompliance(role)
    /\ access' = [access EXCEPT ![x].pc = "last", ![x].kind = kind, ![x].of = e]
    /\ UNCHANGED <<object, chain>>

\* 64 characters of the base64 of a row's JSON hold the run and nothing after it.
RecordHash(row) == row.run
\* getLastAccessLog; an error counts as no row.  Mutated form: it is asked for, and not used.
LastHashNone == "GENESIS"
LastHash == IF chain = <<>> THEN "GENESIS" ELSE RecordHash(chain[Len(chain)])
ReadLastAccess(x) ==
    /\ access[x].pc = "last"
    /\ \E prev \in {LastHash} \cup (IF May("reads") THEN {"GENESIS"} ELSE {}) :
          access' = [access EXCEPT ![x].pc = "insert", ![x].prev = prev]
    /\ UNCHANGED <<object, chain>>

Logged(x, ends) ==
    [access EXCEPT ![x].pc = IF ends THEN "done" ELSE "fetch", ![x].prev = "GENESIS"]
\* Mutated form: a failing insert is tolerated.
InsertAccessTolerant(x) ==
    /\ access[x].pc = "insert"
    /\ \/ chain' = Append(chain, [run |-> access[x].of, by |-> x, prev |-> access[x].prev])
       \/ May("writes") /\ UNCHANGED chain
    /\ access' = Logged(x, access[x].kind = "create")
    /\ UNCHANGED object
InsertAccess(x) ==
    /\ access[x].pc = "insert"
    /\ \/ /\ chain' = Append(chain, [run |-> access[x].of, by |-> x, prev |-> access[x].prev])
          /\ access' = Logged(x, access[x].kind = "create")
       \/ May("writes") /\ access' = Logged(x, TRUE) /\ UNCHANGED chain
    /\ UNCHANGED object

\* A download compares the object with sha256_hash, the hash of the plain content; a signed
\* URL gives what there is.  Mutated form: nothing is compared.
HandOverUnchecked(x) == object[access[x].of]
HandOver(x) == IF access[x].kind = "download" /\ object[access[x].of] # "plain" THEN "nothing"
               ELSE object[access[x].of]
FetchObject(x) ==
    /\ access[x].pc = "fetch"
    /\ \E got \in {HandOver(x)} \cup (IF May("reads") THEN {"nothing"} ELSE {}) :
          access' = [access EXCEPT ![x].pc = "done", ![x].got = got]
    /\ UNCHANGED <<object, chain>>

\* Somebody else writes to the bucket, at the latest when the object is about to be fetched.
ObjectAltered(x) ==
    /\ May("altered") /\ access[x].pc = "fetch" /\ object[access[x].of] # "altered"
    /\ object' = [object EXCEPT ![access[x].of] = "altered"]
    /\ UNCHANGED <<access, chain>>

\* verifyHashChainIntegrity of a run: its rows alone, each against the one before.
RowsOf(e) == {i \in DOMAIN chain : chain[i].run = e}
ChainValid(e) ==
    \A i, j \in RowsOf(e) : i < j /\ (\A k \in RowsOf(e) : k <= i \/ j <= k) =>
       chain[j].prev = RecordHash(chain[i])

-----------------------------------------------------------------------------
(* The scheduler.                                                          *)

IsActive(row) == row.state = "active"
\* A call writes or reads its rows, then changes the jobs by what it has been answered.
BeginChange(c, kind, S, rows) ==
    /\ change[c].pc = "idle"
    /\ May("serial") => \A d \in ScheduleCalls : change[d].pc # "apply"
    /\ schedule' = rows
    /\ change' = [change EXCEPT ![c] = [pc |-> "apply", kind |-> kind, of |-> S, rows |-> rows]]
    /\ UNCHANGED <<registry, activeJobs>>
Row(s, state, f) == [schedule EXCEPT ![s] = [state |-> state, frequency |-> f]]

CreateSchedule(c, s, f) ==
    schedule[s].state = "none" /\ BeginChange(c, "create", {s}, Row(s, "active", f))
UpdateSchedule(c, s, f) ==
    /\ schedule[s].state # "none"
    /\ \E state \in {"active", "inactive"} : BeginChange(c, "update", {s}, Row(s, state, f))
DeactivateSchedule(c, s) ==
    /\ schedule[s].state # "none"
    /\ BeginChange(c, "deactivate", {s}, Row(s, "inactive", schedule[s].frequency))
\* loadActiveSchedules, at the reload and every day.
LoadActiveSchedules(c) ==
    BeginChange(c, "load", {s \in Schedules : IsActive(schedule[s])}, schedule)

\* unregisterSchedule, then registerSchedule: a name the registry has is refused, and the job
\* that runs goes on.  Mutated form: an update only registers.
UnregisteredLate(c, s) == change[c].kind = "deactivate" /\ s \in activeJobs
Unregistered(c, s) == change[c].kind \in {"update", "deactivate"} /\ s \in activeJobs
Enlisted(c, s) == s \in change[c].of /\ IsActive(change[c].rows[s])
ApplyChange(c) ==
    /\ change[c].pc = "apply"
    /\ registry' = [s \in Schedules |->
         IF s \notin change[c].of THEN registry[s]
         ELSE LET kept == IF Unregistered(c, s) THEN None ELSE registry[s] IN
              IF Enlisted(c, s) /\ kept = None THEN change[c].rows[s].frequency ELSE kept]
    /\ activeJobs' = {s \in Schedules : \/ Enlisted(c, s)
                                        \/ s \in activeJobs /\ (s \in change[c].of =>
                                                                  ~Unregistered(c, s))}
    /\ change' = [change EXCEPT ![c] = IdleChange]
    /\ UNCHANGED schedule

\* onModuleInit, before requests are taken.  Mutated form: the map is not filled.
Loaded == [s \in Schedules |-> IF IsActive(schedule[s]) THEN schedule[s].frequency ELSE None]
RestartSchedulerUnmapped ==
    /\ May("crash")
    /\ registry' = Loaded /\ activeJobs' = {}
    /\ change' = [c \in ScheduleCalls |-> IdleChange]
    /\ UNCHANGED schedule
RestartScheduler ==
    /\ May("crash")
    /\ registry' = Loaded
    /\ activeJobs' = {s \in Schedules : IsActive(schedule[s])}
    /\ change' = [c \in ScheduleCalls |-> IdleChange]
    /\ UNCHANGED schedule

-----------------------------------------------------------------------------

RunsNext ==
    \/ \E e \in Exports : CreateExportRun(e) \/ ExportStep(e) \/ ListFiles(e)
    \/ \E e, f \in Exports : RetryExportRun(e, f)
    \/ \E c \in Cancels, e \in Exports : CancelRead(c, e)
    \/ \E c \in Cancels : CancelWrite(c)
    \/ RemoveObjects \/ MarkDeleted \/ HourPasses \/ ExporterDies

AccessesNext ==
    \/ \E x \in Accesses, kind \in {"create", "download", "url"}, e \in Exports :
          BeginAccess(x, kind, e)
    \/ \E x \in Accesses :
          ReadLastAccess(x) \/ InsertAccess(x) \/ FetchObject(x) \/ ObjectAltered(x)

SchedulesNext ==
    \/ \E c \in ScheduleCalls, s \in Schedules, f \in Frequencies :
          CreateSchedule(c, s, f) \/ UpdateSchedule(c, s, f)
    \/ \E c \in ScheduleCalls, s \in Schedules : DeactivateSchedule(c, s)
    \/ \E c \in ScheduleCalls : LoadActiveSchedules(c) \/ ApplyChange(c)
    \/ RestartScheduler

ExportNext ==
    \/ May("exports") /\ RunsNext /\ UNCHANGED <<chainVars, scheduleVars>>
    \/ May("accesses") /\ AccessesNext /\ UNCHANGED <<runVars, scheduleVars>>
    \/ May("schedules") /\ SchedulesNext /\ UNCHANGED <<runVars, chainVars>>

\* Round trips end.
ExportFairness ==
    \A e \in Exports : WF_exportVars(May("exports") /\ ExportStep(e)
                                       /\ UNCHANGED <<chainVars, scheduleVars>>)

-----------------------------------------------------------------------------
(* Properties.                                                             *)

RunsTypeOK ==
    /\ now \in Hours /\ records \subseteq Hours
    /\ run \in [Exports -> AuditExportRun]
    /\ maker \in [Exports -> Maker]
    /\ files \subseteq Exports \X Parts /\ bucket \subseteq Exports \X Parts
    /\ cancel \in [Cancels -> Exports \cup {None}]
    /\ cleanup \in [pc : {"idle", "remove", "mark"}, run : Exports \cup {None},
                    paths : SUBSET (Exports \X Parts)]
AccessesTypeOK ==
    /\ access \in [Accesses -> Request]
    /\ object \in [Exports -> {"plain", "cipher", "altered"}]
    /\ chain \in Seq([run : Exports, by : Accesses, prev : Exports \cup {"GENESIS"}])
SchedulesTypeOK ==
    /\ schedule \in [Schedules -> AuditExportSchedule]
    /\ registry \in [Schedules -> Frequencies \cup {None}]
    /\ activeJobs \subseteq Schedules
    /\ change \in [ScheduleCalls -> Change]
ExportTypeOK == RunsTypeOK /\ AccessesTypeOK /\ SchedulesTypeOK

\* A file that is listed can be fetched, wherever the storing of a run fails or dies and
\* even while files are cleaned up, unless that clean-up cannot mark what it has removed or
\* is under way.
FilesAreStored ==
    allowed \cap {"crash", "writes"} = {} \/ ~May("cleanup") =>
       \A f \in files : f \in bucket \/ f[1] = cleanup.run

\* A completed run with records has all its files, unless they are cleaned up: the ZIP, and
\* in one format the file itself (createExportRun, storeExportBundle).
CompletedIsStored ==
    ~May("cleanup") => \A e \in Exports :
       run[e].status = "COMPLETED" /\ run[e].bundle # {} =>
          <<e, "zip">> \in files /\ (run[e].format # "all" => <<e, "single">> \in files)

\* The files of a completed run show every record of its range for good, if the range had
\* ended when the run was created, the source is dated by its records and the format is not
\* PDF alone.  Ranges may end an hour ahead, and sessions are recorded after they begin.
ExportIsComplete ==
    \A e \in Exports :
       run[e].status = "COMPLETED" /\ run[e].to < run[e].began
         /\ run[e].source = "created" /\ run[e].format # "pdf" =>
            run[e].bundle = LoggedRecords(run[e].from, run[e].to)

\* Every run ends, unless it dies or its rows cannot be written.
Ends(e) == run[e].status \in {"COMPLETED", "FAILED", "CANCELLED"}
RunsEnd == \A e \in Exports :
    run[e].status = "PENDING" ~> Ends(e) \/ allowed \cap {"crash", "writes"} # {}

\* Nobody gets a file or a URL for it without a row in access_logs, whatever fails; what is
\* downloaded is what was exported, also if the object was altered (downloadFile,
\* getSignedDownloadUrl).
HandedOverIsLogged ==
    \A x \in Accesses : access[x].got # "nothing" =>
       /\ \E i \in DOMAIN chain : chain[i].by = x /\ chain[i].run = access[x].of
       /\ access[x].kind = "download" => access[x].got = "plain"

\* The verification of a run reports no break where accesses come one after the other,
\* none to another run comes between those to this one, and the last row can be read.
Unmixed(e) == \A i, k \in RowsOf(e), j \in DOMAIN chain : i < j /\ j < k => j \in RowsOf(e)
NoBreakIsReported ==
    May("serial") /\ ~May("reads") => \A e \in Exports : Unmixed(e) => ChainValid(e)

\* Whatever calls overlap, every job that runs is in the map by which it is stopped.
JobsCanBeStopped == \A s \in Schedules : registry[s] # None <=> s \in activeJobs

\* Where calls come one after the other, the jobs that run are those of the active schedules,
\* at their frequency, once no call is under way.
SchedulesAreServed ==
    May("serial") /\ (\A c \in ScheduleCalls : change[c].pc # "apply") => registry = Loaded
=============================================================================
