------------------------------- MODULE Doctor -------------------------------
(***************************************************************************)
(* dani doctor beside a live server: it reads the storage files one after  *)
(* the other, without a lock, and looks for sessions that are launched     *)
(* while their job is terminal ("drift").  A suspicion is checked once     *)
(* more against a second reading.  The writer is JobLifecycle; doctor      *)
(* writes nothing, and runs once.                                          *)
(*                                                                         *)
(* Ages are chosen when doctor starts, which is the moment they are        *)
(* counted to: the sessions past the grace period, those past the limit of *)
(* a long run, and the jobs past the age of a stuck one (of the last two,    *)
(* none or all).  What changes later is young.                             *)
(***************************************************************************)
EXTENDS JobLifecycle

CONSTANTS
  MaxUnreadable  \* bound: files of one reading that cannot be read

ASSUME DoctorAssumption == MaxUnreadable \in Nat

VARIABLES
  doctor,        \* "idle", "first", "pause", "second", "done"
  files,         \* the files still to read
  old, ancient, oldJobs,
  jobsRead,      \* jobs.json as it was read: the statuses; no row when unreadable
  sessionsRead,  \* sessions.json as it was read: the launched sessions
  errors,        \* snapshot_errors of the reading under way
  results,       \* the checks' statuses
  suspects,      \* drift in the first reading
  reported,      \* drift in the report
  \* history: sessions in drift at some moment of a reading, sessions in drift from the
  \* start on, whether the second reading missed a file
  seen, lasting, blind

readVars == <<files, jobsRead, sessionsRead, errors, blind>>
ageVars == <<old, ancient, oldJobs>>
reportVars == <<results, suspects, reported>>
historyVars == <<seen, lasting>>
doctorVars == <<doctor, readVars, ageVars, reportVars, historyVars>>

Readings == {"first", "second"}
NoJobs == [j \in Jobs |-> "absent"]

\* Mutant of SnapshotFiles: the sessions before the jobs.
SessionsFirst ==
  <<"registry", "sessions", "jobs", "processed_events", "terminal_targets", "events_jsonl">>

SnapshotFiles ==
  <<"registry", "jobs", "sessions", "processed_events", "terminal_targets", "events_jsonl">>
Required == {"registry", "jobs", "sessions"}

(***************************************************************************)
(* Reading.                                                                *)
(***************************************************************************)
\* The ages count to the moment at which doctor starts.
Start ==
  /\ doctor = "idle" /\ doctor' = "first" /\ files' = SnapshotFiles
  /\ old' \in SUBSET (1..nsess) /\ ancient' \in {{}, old'} /\ oldJobs' \in {{}, 1..njobs}
  /\ UNCHANGED <<jobsRead, sessionsRead, errors, blind, reportVars>>

\* Rows are replaced as a whole file, so a reading sees one state of it.
ReadFile ==
  /\ doctor \in Readings /\ files # <<>>
  /\ files' = Tail(files)
  /\ jobsRead' = IF Head(files) = "jobs" THEN status ELSE jobsRead
  /\ sessionsRead' = IF Head(files) = "sessions"
                     THEN {s \in 1..nsess : sessStatus[s] = "launched"} ELSE sessionsRead
  /\ UNCHANGED <<doctor, errors, blind, ageVars, reportVars>>

\* A file that cannot be read, or whose retry finds no JSON either, counts as empty.
FileFails ==
  /\ doctor \in Readings /\ files # <<>>
  /\ Cardinality(errors) < MaxUnreadable
  /\ Head(files) # "events_jsonl"
  /\ files' = Tail(files) /\ errors' = errors \cup {Head(files)}
  /\ blind' = (blind \/ (doctor = "second" /\ Head(files) \in {"jobs", "sessions"}))
  /\ UNCHANGED <<doctor, jobsRead, sessionsRead, ageVars, reportVars>>

\* events.jsonl is appended to: its last line may be cut short, at the retry as well.
EventsCutShort ==
  /\ doctor = "first" /\ files = <<"events_jsonl">>
  /\ files' = <<>> /\ errors' = errors \cup {"events_jsonl"}
  /\ UNCHANGED <<doctor, jobsRead, sessionsRead, blind, ageVars, reportVars>>

(***************************************************************************)
(* The checks.                                                             *)
(***************************************************************************)
\* Mutant of StorageFiles: a file that does not parse is a warning.
StorageFilesLenient == IF errors # {} THEN "warn" ELSE "ok"

StorageFiles ==
  IF errors \cap Required # {} THEN "fail" ELSE IF errors # {} THEN "warn" ELSE "ok"

ActiveJobs == {"queued", "launched", "retrying", "recovering"}
StuckJobs == IF \E j \in oldJobs : jobsRead[j] \in ActiveJobs THEN "warn" ELSE "ok"

\* _classify_sessions: no row for the job, a terminal job, a long run.
Orphaned(s) == jobsRead[sessJob[s]] = "absent"
Drift == {s \in sessionsRead \cap old : jobsRead[sessJob[s]] \in Terminal}
LongRunning == {s \in sessionsRead \cap ancient : jobsRead[sessJob[s]] \notin Terminal}
Doubtful == LongRunning # {} \/ \E s \in sessionsRead : Orphaned(s)

Verdict(drift) ==
  IF drift # {} THEN "fail" ELSE results.stuck_sessions

\* Mutant of Check: everything is read again.
CheckTwice ==
  /\ doctor = "first" /\ files = <<>>
  /\ suspects' = Drift
  /\ results' = [storage_files |-> StorageFiles, stuck_jobs |-> StuckJobs,
                 stuck_sessions |-> IF Doubtful THEN "warn" ELSE "ok"]
  /\ doctor' = "pause"
  /\ jobsRead' = NoJobs /\ sessionsRead' = {} /\ errors' = {}
  /\ UNCHANGED <<files, blind, ageVars, reported>>

\* What the checks make of the first reading; drift is read again after a pause.
Check ==
  /\ doctor = "first" /\ files = <<>>
  /\ suspects' = Drift
  /\ results' = [storage_files |-> StorageFiles, stuck_jobs |-> StuckJobs,
                 stuck_sessions |-> IF Doubtful THEN "warn" ELSE "ok"]
  /\ doctor' = IF Drift = {} THEN "done" ELSE "pause"
  /\ jobsRead' = NoJobs /\ sessionsRead' = {} /\ errors' = {}
  /\ UNCHANGED <<files, blind, ageVars, reported>>

ReadAgain ==
  /\ doctor = "pause" /\ doctor' = "second" /\ files' = SnapshotFiles
  /\ UNCHANGED <<jobsRead, sessionsRead, errors, blind, ageVars, reportVars>>

\* The second reading's errors are not looked at.
Confirm ==
  /\ doctor = "second" /\ files = <<>> /\ doctor' = "done"
  /\ reported' = suspects \cap Drift
  /\ results' = [results EXCEPT !.stuck_sessions = Verdict(suspects \cap Drift)]
  /\ jobsRead' = NoJobs /\ sessionsRead' = {} /\ errors' = {}
  /\ UNCHANGED <<files, blind, ageVars, suspects>>

\* compute_overall, of these checks and any other; and the exit code without --strict.
Rank(s) == CASE s = "warn" -> 1 [] s = "fail" -> 2 [] OTHER -> 0
Overall(others) ==
  LET ranks == {Rank(results[c]) : c \in DOMAIN results} \cup {Rank(s) : s \in others}
  IN IF 2 \in ranks THEN "fail" ELSE IF 1 \in ranks THEN "warn" ELSE "ok"
ExitCode(others, strict) ==
  IF Overall(others) = "fail" THEN 2 ELSE IF Overall(others) = "warn" /\ strict THEN 1 ELSE 0

DoctorStep == Start \/ ReadFile \/ FileFails \/ EventsCutShort \/ Check \/ ReadAgain \/ Confirm

(***************************************************************************)
(* Doctor and the server.  What the server does after the report does not  *)
(* matter here.                                                            *)
(***************************************************************************)
DriftNow == {s \in old : sessStatus[s] = "launched" /\ status[sessJob[s]] \in Terminal}

Watch ==
  /\ seen' = [r \in Readings |-> IF doctor' = r THEN seen[r] \cup DriftNow' ELSE seen[r]]
  /\ lasting' = IF doctor = "idle" THEN DriftNow' ELSE lasting \cap DriftNow'

ServerStep == doctor # "done" /\ Next /\ UNCHANGED <<doctor, readVars, ageVars, reportVars>>

DoctorInit ==
  /\ Init
  /\ doctor = "idle" /\ files = <<>> /\ old = {} /\ ancient = {} /\ oldJobs = {}
  /\ jobsRead = NoJobs /\ sessionsRead = {} /\ errors = {} /\ blind = FALSE
  /\ results = [storage_files |-> "ok", stuck_jobs |-> "ok", stuck_sessions |-> "ok"]
  /\ suspects = {} /\ reported = {}
  /\ seen = [r \in Readings |-> {}] /\ lasting = {}

DoctorNext ==
  /\ \/ ServerStep
     \/ DoctorStep /\ UNCHANGED vars
  /\ Watch

DoctorSpec == DoctorInit /\ [][DoctorNext]_<<vars, doctorVars>>

(***************************************************************************)
(* Properties.                                                             *)
(***************************************************************************)
\* Types; the second reading is for suspicions only, and what is reported was suspected
\* (_check_stuck_sessions).
DoctorTypeOK ==
  /\ doctor \in {"idle", "first", "pause", "second", "done"}
  /\ files \in Seq(Required \cup {"processed_events", "terminal_targets", "events_jsonl"})
  /\ old \subseteq Sessions /\ ancient \subseteq old /\ oldJobs \subseteq Jobs
  /\ jobsRead \in [Jobs -> Statuses] /\ sessionsRead \subseteq Sessions
  /\ errors \subseteq Required \cup {"processed_events", "terminal_targets", "events_jsonl"}
  /\ results \in [storage_files : {"ok", "warn", "fail"}, stuck_jobs : {"ok", "warn"},
                  stuck_sessions : {"ok", "warn", "fail"}]
  /\ reported \subseteq suspects /\ suspects \subseteq old
  /\ doctor \in {"pause", "second"} => suspects # {}
  /\ seen \in [Readings -> SUBSET old] /\ lasting \subseteq old /\ blind \in BOOLEAN

\* A session that doctor reports was in drift at some moment of the first reading and at
\* some moment of the second, although the files are read one by one beside a server that
\* writes them: what closes a session writes it before its job, and doctor reads the jobs
\* before the sessions.
ReportedDriftIsReal == reported \subseteq seen["first"] \cap seen["second"]

\* A session past the grace period that is in drift from the start of the run to its end
\* makes it end with exit code 2, whatever the other checks say: it is reported, or a file
\* that could not be read is.  Only files that the second reading misses can hide it.
LastingDriftIsReported ==
  doctor = "done" /\ lasting # {} /\ ~blind
    => \A others \in SUBSET {"ok", "warn", "fail", "skip"}, strict \in BOOLEAN :
         ExitCode(others, strict) = 2

=============================================================================
