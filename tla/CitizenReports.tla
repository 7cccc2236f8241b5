---------------------------- MODULE CitizenReports ----------------------------
(***************************************************************************)
(* Citizen flood reports: app/api/reports.py over the repositories of      *)
(* app/ingestion/report_repository.py and the photo storages of            *)
(* app/services/photo_storage.py.  Submissions run the handler             *)
(* submit_report, moderators review what they have on screen, readers ask  *)
(* for the photo of a public report.                                       *)
(*                                                                         *)
(* Every await that waits is the boundary of an action.  Over MongoDB a    *)
(* database operation may be lost, or take effect while its answer is      *)
(* lost, and then the request fails; nothing undoes what it did before.    *)
(* The dictionaries of the dry-run backend never wait and never fail; the  *)
(* model follows one life of its process, at whose end they are empty.     *)
(* A submission whose body is invalid or whose location is outside the     *)
(* basin is answered before it touches anything and is left out.           *)
(***************************************************************************)
EXTENDS Naturals, FiniteSets

CONSTANTS
  Submission,     \* requests of submit_report, which also name their report
  Ip,             \* salted hashes of the submitters' addresses
  Moderator,
  Reader,         \* requests of get_report_photo
  Nothing,        \* no report
  MaxPerWindow,   \* reports_rate_limit_per_hour
  Hour,           \* RATE_LIMIT_WINDOW, in units of the clock
  MaxClock        \* bound on the clock

Time == 0 .. MaxClock

\* The hours of the clock that rate-limit documents are keyed by.
Bucket == 0 .. MaxClock \div Hour

ASSUME SubmissionAssumption == IsFiniteSet(Submission) /\ Nothing \notin Submission
ASSUME WindowAssumption == MaxPerWindow \in Nat /\ Hour \in Nat \ {0}
ASSUME MaxClockAssumption == MaxClock \in Nat

VARIABLES
  clock,           \* wall clock
  backend,         \* "mongo" or "memory": forecast_repository_backend
  stage,           \* where each submission is
  ip,              \* the address of each submission
  photo,           \* its photo
  now,             \* the handler's "now"
  registered_at,   \* when register_submission took effect
  counted,         \* submissions the rate limiter counted
  rate_limits,     \* report_rate_limits: per address and hour, its count
  recent,          \* in memory, per address: the submissions whose stamps are kept
  photos,          \* photo storage: submissions whose photo is stored
  reports,         \* citizen_reports: status of the report of a submission
  verdicts,        \* decisions ever applied to a report
  screen,          \* the report each moderator looks at
  reading          \* the report whose photo each reader was granted

submissions == <<stage, ip, photo, now, registered_at, counted>>
memory == <<backend, recent>>
review == <<verdicts, screen, reading>>
vars == <<clock, submissions, rate_limits, memory, photos, reports, review>>

\* Answered: 201, 429, 400 or a server error.
Ended == {"created", "refused", "rejected", "failed"}

Stage == {"idle", "register", "photo", "create"} \cup Ended

TypeOK ==
  /\ clock \in Time
  /\ stage \in [Submission -> Stage]
  /\ ip \in [Submission -> Ip]
  /\ photo \in [Submission -> {"none", "valid", "invalid"}]
  /\ now \in [Submission -> Time]
  /\ registered_at \in [Submission -> Time]
  /\ counted \subseteq Submission
  /\ backend \in {"mongo", "memory"}
  /\ rate_limits \in [Ip -> [Bucket -> Nat]]
  /\ recent \in [Ip -> SUBSET Submission]
  /\ photos \subseteq Submission
  /\ reports \in [Submission -> {"absent", "pending", "approved", "rejected"}]
  /\ verdicts \in [Submission -> SUBSET {"approved", "rejected"}]
  /\ screen \in [Moderator -> Submission \cup {Nothing}]
  /\ reading \in [Reader -> Submission \cup {Nothing}]
  /\ \A s \in Submission : stage[s] = "photo" => photo[s] # "none"

Init ==
  /\ clock = 0
  /\ stage = [s \in Submission |-> "idle"]
  /\ ip \in [Submission -> Ip]
  /\ photo = [s \in Submission |-> "none"]
  /\ now = [s \in Submission |-> 0]
  /\ registered_at = [s \in Submission |-> 0]
  /\ counted = {}
  /\ backend \in {"mongo", "memory"}
  /\ rate_limits = [i \in Ip |-> [b \in Bucket |-> 0]]
  /\ recent = [i \in Ip |-> {}]
  /\ photos = {}
  /\ reports = [s \in Submission |-> "absent"]
  /\ verdicts = [s \in Submission |-> {}]
  /\ screen = [m \in Moderator |-> Nothing]
  /\ reading = [r \in Reader |-> Nothing]

-----------------------------------------------------------------------------
(* submit_report over MongoDB. *)

\* The answer of the database arrives, or is lost: the request then fails
\* although the operation took effect.
Proceed(s, next) == \E n \in {next, "failed"} : stage' = [stage EXCEPT ![s] = n]

Submit(s, p) ==
  /\ backend = "mongo"
  /\ stage[s] = "idle"
  /\ stage' = [stage EXCEPT ![s] = "register"]
  /\ photo' = [photo EXCEPT ![s] = p]
  /\ now' = [now EXCEPT ![s] = clock]
  /\ UNCHANGED <<clock, ip, registered_at, counted, rate_limits, memory, photos,
                 reports, review>>

\* What a counted submission does next: the photo, if there is one, is read and
\* sanitized before the report is inserted.
AfterRegistration(s, allowed) ==
  Proceed(s, CASE ~allowed -> "refused"
               [] allowed /\ photo[s] = "none" -> "create"
               [] allowed /\ photo[s] # "none" -> "photo")

\* register_submission: one find_one_and_update increments the counter of the
\* address and of the hour of "now", and returns it.
Count(s) ==
  /\ stage[s] = "register"
  /\ rate_limits' = [rate_limits EXCEPT ![ip[s]][now[s] \div Hour] = @ + 1]
  /\ counted' = counted \cup {s}
  /\ registered_at' = [registered_at EXCEPT ![s] = clock]
  /\ UNCHANGED <<clock, ip, photo, now, memory, photos, reports, review>>

MutRegisterOneTooMany(s) ==
  /\ Count(s)
  /\ AfterRegistration(s, rate_limits[ip[s]][now[s] \div Hour] <= MaxPerWindow)

MutRegisterNoPhotoStep(s) ==
  /\ Count(s)
  /\ Proceed(s, IF rate_limits'[ip[s]][now[s] \div Hour] <= MaxPerWindow
                THEN "photo" ELSE "refused")

\* The submission is counted whether it is allowed or not.
Register(s) ==
  /\ Count(s)
  /\ AfterRegistration(s, rate_limits'[ip[s]][now[s] \div Hour] <= MaxPerWindow)

MutRejectPhoto(s) ==
  /\ stage[s] = "photo" /\ photo[s] = "invalid"
  /\ photos' = photos \cup {s}
  /\ stage' = [stage EXCEPT ![s] = "rejected"]
  /\ UNCHANGED <<clock, ip, photo, now, registered_at, counted, rate_limits, memory,
                 reports, review>>

\* sanitize_photo raised: 400.
RejectPhoto(s) ==
  /\ stage[s] = "photo" /\ photo[s] = "invalid"
  /\ stage' = [stage EXCEPT ![s] = "rejected"]
  /\ UNCHANGED <<clock, ip, photo, now, registered_at, counted, rate_limits, memory,
                 photos, reports, review>>

MutSavePhoto(s) ==
  /\ backend = "mongo"
  /\ stage[s] = "photo" /\ photo[s] = "valid"
  /\ photos' \in {photos, photos \cup {s}}
  /\ stage' = [stage EXCEPT ![s] = "create"]
  /\ UNCHANGED <<clock, ip, photo, now, registered_at, counted, rate_limits, memory,
                 reports, review>>

\* storage.save.
SavePhoto(s) ==
  /\ backend = "mongo"
  /\ stage[s] = "photo" /\ photo[s] = "valid"
  /\ photos' = photos \cup {s}
  /\ Proceed(s, "create")
  /\ UNCHANGED <<clock, ip, photo, now, registered_at, counted, rate_limits, memory,
                 reports, review>>

\* create_report inserts a pending report.
Create(s) ==
  /\ stage[s] = "create"
  /\ reports' = [reports EXCEPT ![s] = "pending"]
  /\ Proceed(s, "created")
  /\ UNCHANGED <<clock, ip, photo, now, registered_at, counted, rate_limits, memory,
                 photos, review>>

\* A database operation that had no effect, or the end of the API process.
Fail(s) ==
  /\ backend = "mongo"
  /\ stage[s] \in {"register", "photo", "create"}
  /\ stage' = [stage EXCEPT ![s] = "failed"]
  /\ UNCHANGED <<clock, ip, photo, now, registered_at, counted, rate_limits, memory,
                 photos, reports, review>>

\* The TTL index removes the counter of an hour once the hour is over.
Expire(i, b) ==
  /\ rate_limits[i][b] > 0
  /\ clock >= (b + 1) * Hour
  /\ rate_limits' = [rate_limits EXCEPT ![i][b] = 0]
  /\ UNCHANGED <<clock, submissions, memory, photos, reports, review>>

-----------------------------------------------------------------------------
(* submit_report over the dictionaries: only sanitize_photo, on its thread, waits. *)

MutSlidingWindow(i) == recent[i]

\* The stamps that register_submission keeps: those of the trailing window.
SlidingWindow(i) == {r \in recent[i] : clock < now[r] + Hour}

\* A refused submission leaves no stamp; an allowed one without a photo is stored
\* at once.
SubmitInMemory(s, p) ==
  /\ backend = "memory"
  /\ stage[s] = "idle"
  /\ photo' = [photo EXCEPT ![s] = p]
  /\ now' = [now EXCEPT ![s] = clock]
  /\ registered_at' = [registered_at EXCEPT ![s] = clock]
  /\ IF Cardinality(SlidingWindow(ip[s])) < MaxPerWindow
     THEN /\ recent' = [recent EXCEPT ![ip[s]] = SlidingWindow(ip[s]) \cup {s}]
          /\ counted' = counted \cup {s}
          /\ stage' = [stage EXCEPT ![s] = IF p = "none" THEN "created" ELSE "photo"]
          /\ reports' = IF p = "none" THEN [reports EXCEPT ![s] = "pending"] ELSE reports
     ELSE /\ recent' = [recent EXCEPT ![ip[s]] = SlidingWindow(ip[s])]
          /\ stage' = [stage EXCEPT ![s] = "refused"]
          /\ UNCHANGED <<counted, reports>>
  /\ UNCHANGED <<clock, backend, ip, rate_limits, photos, review>>

\* The photo is sanitized: it and its report are stored in one step.
StoreInMemory(s) ==
  /\ backend = "memory"
  /\ stage[s] = "photo" /\ photo[s] = "valid"
  /\ photos' = photos \cup {s}
  /\ reports' = [reports EXCEPT ![s] = "pending"]
  /\ stage' = [stage EXCEPT ![s] = "created"]
  /\ UNCHANGED <<clock, ip, photo, now, registered_at, counted, rate_limits, memory, review>>

-----------------------------------------------------------------------------
(* Moderation and public reads. *)

MutOpen(m, s) ==
  /\ reports[s] # "absent"
  /\ screen' = [screen EXCEPT ![m] = s]
  /\ UNCHANGED <<clock, submissions, rate_limits, memory, photos, reports, verdicts, reading>>

\* A moderator opens a report of list_pending_reports, or a public one of
\* list_reports to take it down.
Open(m, s) ==
  /\ reports[s] \in {"pending", "approved"}
  /\ screen' = [screen EXCEPT ![m] = s]
  /\ UNCHANGED <<clock, submissions, rate_limits, memory, photos, reports, verdicts, reading>>

\* approve_report and reject_report: set_status replaces whatever status the
\* report has by now.  When the answer is lost the moderator may decide again.
Decide(m, d) ==
  LET s == screen[m] IN
  /\ s # Nothing
  /\ reports' = [reports EXCEPT ![s] = d]
  /\ verdicts' = [verdicts EXCEPT ![s] = @ \cup {d}]
  /\ screen' \in {screen, [screen EXCEPT ![m] = Nothing]}
  /\ UNCHANGED <<clock, submissions, rate_limits, memory, photos, reading>>

MutCheckPhoto(r, s) ==
  /\ backend = "mongo"
  /\ reading[r] = Nothing
  /\ reports[s] # "absent" /\ photo[s] = "valid"
  /\ reading' = [reading EXCEPT ![r] = s]
  /\ UNCHANGED <<clock, submissions, rate_limits, memory, photos, reports, verdicts, screen>>

\* get_report_photo reads the report and checks it; over MongoDB the photo is read
\* after that, in memory in the same step, which changes nothing.
CheckPhoto(r, s) ==
  /\ backend = "mongo"
  /\ reading[r] = Nothing
  /\ reports[s] = "approved" /\ photo[s] = "valid"
  /\ reading' = [reading EXCEPT ![r] = s]
  /\ UNCHANGED <<clock, submissions, rate_limits, memory, photos, reports, verdicts, screen>>

\* _stream_photo: streamed, or answered with 404 when storage has no such photo.
StreamPhoto(r) ==
  /\ reading[r] # Nothing
  /\ reading' = [reading EXCEPT ![r] = Nothing]
  /\ UNCHANGED <<clock, submissions, rate_limits, memory, photos, reports, verdicts, screen>>

Tick ==
  /\ clock < MaxClock
  /\ clock' = clock + 1
  /\ UNCHANGED <<submissions, rate_limits, memory, photos, reports, review>>

Next ==
  \/ Tick
  \/ \E s \in Submission :
       \/ \E p \in {"none", "valid", "invalid"} : Submit(s, p)
       \/ Register(s)
       \/ RejectPhoto(s)
       \/ SavePhoto(s)
       \/ Create(s)
       \/ Fail(s)
       \/ \E p \in {"none", "valid", "invalid"} : SubmitInMemory(s, p)
       \/ StoreInMemory(s)
  \/ \E i \in Ip, b \in Bucket : Expire(i, b)
  \/ \E m \in Moderator :
       \/ \E s \in Submission : Open(m, s)
       \/ \E d \in {"approved", "rejected"} : Decide(m, d)
  \/ \E r \in Reader :
       \/ \E s \in Submission : CheckPhoto(r, s)
       \/ StreamPhoto(r)

Spec == Init /\ [][Next]_vars

-----------------------------------------------------------------------------
(* Properties. *)

\* The submissions of address i whose "now" falls in hour b.
InHour(i, b) == {s \in Submission : ip[s] = i /\ now[s] \div Hour = b}

\* Those within the hour that ends at instant t.
Trailing(i, t) == {s \in Submission : ip[s] = i /\ now[s] <= t /\ t < now[s] + Hour}

\* The rate limit, however submissions interleave.  Over MongoDB: of those of one
\* address and one clock hour that reach the limiter before the hour is over, at
\* most MaxPerWindow leave anything behind.  (One that reaches it later may find
\* its counter expired and start it afresh.)  In memory: of those of any trailing
\* hour at most MaxPerWindow are let through.
QuotaPerHour ==
  \A i \in Ip :
    /\ backend = "mongo" => \A b \in Bucket :
         Cardinality({s \in InHour(i, b) \cap counted :
                        /\ registered_at[s] < (b + 1) * Hour
                        /\ s \in photos \/ reports[s] # "absent"}) <= MaxPerWindow
    /\ backend = "memory" => \A t \in Time :
         Cardinality(Trailing(i, t) \ {s \in Submission : stage[s] \in {"idle", "refused"}})
           <= MaxPerWindow

\* The submissions that may count against s.
Beside(s) ==
  IF backend = "mongo" THEN InHour(ip[s], now[s] \div Hour) ELSE Trailing(ip[s], now[s])

\* Nobody is refused for what others did, or for another hour: a refused
\* submission has MaxPerWindow counted ones of its address and hour beside it.
RefusalJustified ==
  \A s \in Submission : stage[s] = "refused" =>
    Cardinality((Beside(s) \cap counted) \ {s}) >= MaxPerWindow

\* A stored report that promises a photo has it in storage, so a photo request
\* that passed the check is never answered 404, whatever failed or was lost.
PromisedPhotoStored ==
  \A s \in Submission : reports[s] # "absent" /\ photo[s] = "valid" => s \in photos

\* A photo that belongs to no report is the trace of a request that failed
\* between storage.save and create_report, and of nothing else; in memory there is
\* none.
OrphanNeedsFailure ==
  \A s \in photos : reports[s] = "absent" =>
    backend = "mongo" /\ stage[s] \in {"create", "failed"}

\* Taken down, on no moderator's screen and in no photo request under way.
Withdrawn(s) ==
  /\ reports[s] = "rejected"
  /\ s \notin {screen[m] : m \in Moderator} \cup {reading[r] : r \in Reader}

\* A take-down settles.  A moderator whose screen is older than the rejection may
\* still approve the report (set_status asks for no status), and a photo that passed
\* the check is still streamed; once those are over nothing shows the report again,
\* not even the late insert or answer of the request that submitted it.
TakeDownSettles == [][\A s \in Submission : Withdrawn(s) => Withdrawn(s)']_vars

\* Between the check and the stream the report may be taken down, but a photo is
\* only ever streamed to the public for a report a moderator approved.
PublicPhotoWasApproved ==
  \A r \in Reader : reading[r] # Nothing => "approved" \in verdicts[reading[r]]
===============================================================================
