# Hat Yai flood tracker backend: verification project

This directory holds TLA+ models of the flood tracker's backend, the TLC
configurations that check them on small instances, and theorems about them that
TLAPS checks for every value of the constants. `PROJECT.json` maps every
definition of the models to the lines of `src/` it stands for and lists the
runs, the mutants, the hazards and the theorems.

    tlc -config alert_overlap.cfg MCAlertDispatch    # model-check one run
    tlapm AlertDispatchProofs.tla                    # check the proofs of a module

Contents: 1 the system; 2 modules; 3 runs; 4 fairness; 5 proofs; 6 what the
code does not provide; 7 what is not modelled; 8 plan.

## 1. The system

Two kinds of processes share one MongoDB database and nothing else.

* The **API** (`app/main.py`, FastAPI): one event loop per process, any number
  of requests in progress. A handler runs alone between two `await`s.
* The **scheduled job** (`app/ingestion/forecast_cli.py`): a container started
  at 00:05, 06:05, 12:05 and 18:05 UTC (`deploy/`), with one platform retry
  after a failure and a task timeout of ten minutes. Operators start it by hand
  too (`docs/ops-runbook.md`). Nothing keeps two executions from overlapping.

The components, the state each keeps, its operations, what is hard about it and
what makes it correct:

| component | state | operations | hard | correct when |
|---|---|---|---|---|
| Alert rule and alert phase (`services/alert_dispatch.py`, `forecast_cli._evaluate_and_dispatch_alert`) | `alert_state`: one document per channel (LINE, Web Push) with the last announced level and its instant | read the state, decide, push, write the state, once per channel | several executions read before one writes; a push that raises but arrived; a death between the push and the write | an alert is never lost without a reason, never repeated within the cooldown except after a fault or beside an overlap, and the state never claims a push that raised |
| Web Push broadcast (`send_web_push_alerts`, `ingestion/subscription_repository.py`, `api/alerts.py`) | `push_subscriptions` | subscribe, unsubscribe; list, send to each, delete what is gone | browsers come and go during a broadcast; a send may fail, time out or arrive without an answer | nobody who wants pushes is pruned or passed over; every further push of an alert is paid for by a fault or an overlap |
| Delivery audit (`ingestion/delivery_repository.py`) | `alert_deliveries`, append only | append, recent first | appended after the event, its error swallowed | it never contradicts the alert state |
| Forecast ingestion (`forecast_cli.run_mongo_ingestion`, `ingestion/mongo_repository.py`) | `forecast_runs`, `forecast_frames` | discover a cycle, download, replace the run document, delete its frames, insert them; record a failed run | four separate writes per provider; retries and manual re-runs; death in between | frames have a run; re-runs are idempotent; the alert phase sees whole cycles |
| Data quality and operator notices (`services/data_quality.py`, `services/ops_notifier.py`) | none: derived from runs and observations | classify each pipeline, notify each breach over LINE | runs inside the job between ingestion and alert; its errors are not caught | every failure of a provider reaches the operators |
| Citizen reports (`api/reports.py`, `ingestion/report_repository.py`, `services/photo_storage.py`) | `citizen_reports`, `report_rate_limits` (with a TTL index), photos in GridFS; or dictionaries of the process | submit (count, check, sanitize, store photo, insert), moderate, serve photos | several operations without a transaction; concurrent submissions at the quota; two backends that count differently; two moderators | the quota holds, per clock hour or sliding hour; nobody is refused for others; a report never promises a missing photo; only approved photos are public, and a rejected report stays so once those who acted on it before are done |
| Water levels (`services/water_levels.py`, ThaiWater client, station repository) | `station_observations` | fetch live, persist, fall back to what is stored | responses are late, partial or missing; persisting takes two calls; stored data is old; requests overlap | at most one fresh reading per station, labelled by what it is; no station goes back in time; remembered stations are not lost without a reason |
| Risk rules and ensemble (`services/risk_rules.py`, `services/water_level_contribution.py`, `ingestion/station_thresholds.py`, `api/risk.py`) | `station_thresholds`, seeded at start-up | score the rainfall windows and the water levels, combine the providers, classify each station by its threshold; answer `GET /api/risk/current`; give the alert phase its level | partial availability, two providers that disagree, a store that changes between the reads | no false all-clear, no false alarm, no hidden danger; the alert phase never below the public level |
| Forecast providers (`ingestion/providers.py`, GFS and ECMWF clients) | none | probe cycles from the newest back, download with bounded retries, turn file contents into rainfall windows | cycles appear hour by hour while they are read; probes and downloads fail; files hold overlapping accumulations | a cycle in the window is found; all requested hours or none; retries end; no rain is counted twice |
| Forecast reads and export (`api/forecast.py`, `api/freshness.py`, `api/health.py`, `api/export.py`) | none | list frames with a freshness block; find the latest run of a scope; classify the pipelines; export a range of dates | the parts of an answer are read in several awaits while executions write; a failure and a success are named by different clocks; a closed range of instants for a half-open range of dates | a freshness block is not behind its frames; a failure surfaces; adjacent exports share and lose nothing |
| Shelters, map layers, events, wiring, offline scripts | none of their own | projections and formatting of the above | nothing beyond what they read | see section 7 |

Interaction: the job writes `forecast_runs` and `forecast_frames`, then runs
the data-quality check over them and over `station_observations` (which only
the API writes, when it serves water levels), then the alert phase over the
stored frames, which reads and writes `alert_state` and the subscriptions the
API maintains. The public risk request reads the same runs and frames, provider
after provider, and the station readings; so do the forecast, freshness, health
and export endpoints. Citizen reports touch none of this.

## 2. Modules

| module | models | extended by |
|---|---|---|
| `AlertRule` | the level order and `should_send_alert` | `AlertLedger`, `AlertDispatch` |
| `AlertLedger` | what the alert state promises without overlap (abstract) | refined by `AlertDispatch` |
| `AlertDispatch` | the alert phase of any number of executions, both channels | `MCAlertDispatch`, `AlertDispatchProofs` |
| `WebPushBroadcast` | the Web Push channel with its subscribers, one alert episode | `MCWebPushBroadcast`, `WebPushBroadcastProofs` |
| `ModelCycles` | the cycles a provider client may return: one operator | `ForecastIngestion`, `ProviderFetch` |
| `ForecastIngestion` | executions from discovery to the start of the alert phase | `ForecastReads`, `IngestionStore` |
| `ForecastStore` | the run and frame collections as their readers know them (abstract) | refined by `ForecastIngestion`; `CurrentRisk` |
| `IngestionStore` | the refinement mapping from `ForecastIngestion` to `ForecastStore` | `MCForecastIngestion`, `ForecastIngestionProofs` |
| `ForecastReads` | the composition of `ForecastIngestion` with the API's readers of runs and frames | `MCForecastReads`, `ForecastIngestionProofs` |
| `CitizenReports` | submissions, moderation, public photo reads | `MCCitizenReports`, `CitizenReportsProofs` |
| `RiskRules` | the rule engine: operators, no state | `CurrentRisk` |
| `CurrentRisk` | the public risk request and the alert phase's level over a changing store | `MCCurrentRisk`, `CurrentRiskProofs` |
| `ProviderFetch` | one discovery and download of a network client | `MCProviderFetch`, `ProviderFetchProofs` |
| `WaterLevels` | requests for water levels over either station repository | `MCWaterLevels`, `WaterLevelsProofs` |
| `OrderFacts` | a lemma on the naturals that five proof modules use | `WebPushBroadcastProofs`, `ForecastIngestionProofs`, `CurrentRiskProofs`, `ProviderFetchProofs`, `WaterLevelsProofs` |

Operators whose name starts with `Mut` are not part of a model. Each one stands
before a definition it varies by one plausible bug, and `PROJECT.json`
("mutants") names the property that notices it.

Every `await` of the code is the boundary of an action. What the code does
between two awaits is one action, and so is a call that MongoDB performs
atomically on one document.

**AlertDispatch.** A member of `Job` is an execution. `Evaluate` is
`_evaluate_and_dispatch_alert` up to the first dispatch: it may start whenever
the execution is idle and picks any level the rainfall can lead to. The LINE
dispatch comes first and Web Push second; `channel[j]` says which of the two
calls an execution is in. `Suppress`, `SkipUnconfigured` and `Decide` are the
read of the state document together with the decision made before the next
await. The transport answers (`SendAnswered`: any HTTP status) or raises
(`LineSendRaised`, `WebSendRaised`); a raise may hide a delivery ("late").
`SaveState` is `write_alert_state`, with the locals of the call, whatever
another execution wrote meanwhile. `_log_delivery` is folded into the action it
follows: it cannot fail visibly. `DatabaseError` ends the phase through the
blanket handler and `Crash` ends the process. `saved` and `outcome` are history:
no guard reads them.

**WebPushBroadcast.** The state behind one "send" of `AlertDispatch` on Web
Push. An endpoint is a number because `list_subscriptions` sorts. `PushGone` and
`Prune` are two actions, because the deletion is awaited and not guarded by the
`try` around the send. A member of `Job` is an execution, and several may run at one
time: each has its own `stage`, its own list (`pending`) and reads `announced` only
at its `Start`. `Step(j)` is whatever a running execution does next. `wanted`, `tried`,
`received`, `faults` and `overlaps` (the executions that started beside a running one)
are history; of these only the two counts bound anything, through `MaxFaults` and
`MaxOverlaps`. The module keeps one level and no clock: the episode during which the
cooldown has not elapsed, so a saved alert is suppressed until the end.

**ForecastIngestion.** `RecordRun` is `_ingest_one_provider` with `upsert_run`;
`DeleteFrames` and `InsertFrame` are the two halves of `upsert_frames`; a run
document is named by its cycle when stored and by the execution's wall clock
when failed, as in the code. The clock's unit is six hours. An instant is the
hour it follows, and a failed run of hour *t* is later than the cycle of hour
*t*. `ReadQuality` computes the snapshot, `Notify` sends one notice, and both
can raise through `main`. `BeginAlert` hands over to `AlertDispatch`. `RecordRun` takes any
cycle of `Discoverable`, the operator of `ModelCycles` that `ProviderFetch` shows its
clients to return a cycle of (`AllHoursOrNone`).

**ForecastStore** and **IngestionStore.** A `ForecastStore` is what a reader may assume
of the two collections: the clock moves, the frames of one run are replaced together
with its document (`StoreRun`), or a failed run is recorded at the time its execution
began (`FailRun`); the latest document of a provider changes only for a later or equal
one. `IngestionStore` maps the state of `ForecastIngestion` to it: a frame is found or
not, however many copies of it there are, and the latest document is the one a query
sorted by `runTime` returns. Several steps of an execution (`RecordRun`,
`DeleteFrames`, each `InsertFrame`) are each a `StoreRun` with a part of the run.
`CurrentRisk` extends the same module, so its requests are asked over every store the
executions can make.

**ForecastReads.** Everything `ForecastIngestion` does, with readers beside it. A
frames request is two awaits (`ListFrames`, then `FindLatest`), a freshness
request one, a health check three (`CheckProvider` twice, `CheckStations`);
executions write in between. `InScope` is the filter by provider or by model name,
where `ifs` selects stored ECMWF runs only. `CheckStations` models that a stored
observation cannot be decoded: the pipelines block is then left out. An export is a
single read, so it is an operator (`ExportedFrames`). `unmended` and `known` are
history, kept by `Remember` beside the steps of the executions: the failed runs of a
provider since which no run of it was stored, and those of them that were so when the
request was made and still are. The theorem `ReadersOnlyRead`
says that the composition implements `ForecastIngestion`.

**CitizenReports.** A submission also names its report. `Register` is the atomic
`find_one_and_update`; its hour is that of the handler's `now`, which may lie
before the hour in which it takes effect. `Proceed` gives every database
operation the two outcomes "answered" and "took effect, answer lost"; `Fail` is
the third, "no effect". With `backend = "memory"` no database is awaited:
`SubmitInMemory` is the handler up to the sanitizing thread, or to its end without a
photo, and `StoreInMemory` the rest; `recent` holds the stamps of the sliding
window. The dictionaries live and die with the process, so the model follows one
life of it. `Decide` is `set_status`, which ignores the present
status; `screen` is what a moderator believes. `CheckPhoto` and `StreamPhoto`
are the two awaits of `get_report_photo`.

**RiskRules** and **CurrentRisk.** `RiskRules` follows `services/risk_rules.py`
function by function: `RainfallInputs` clips each frame to the basin,
`CalculateCurrentRisk` scores windows and stations, `CombineEnsembleRisk` takes
the frames of the usable providers together. Levels are their scores 0..3, a
frame's rain is a function from cells to millimetres, a ratio is a percentage.
`CurrentRisk` is `read_current_risk`: `Begin` fixes `generated_at`, `FindRun` and
`ReadFrames` are the two awaits per provider of
`get_latest_frames_per_provider`, `ReadStations` takes any readings
`get_water_levels` may serve, and `Answer` follows the last await, the read of the
station thresholds, computes the response and adds one contribution per reading
(`ClassifyThreshold`, `Contribution`). In between, `Store` and `Fail` do to the
store what an ingestion does, by the actions of `ForecastStore`: any part of a run may
be there, and a failed run carries the wall clock at which its execution began.
`Served` includes readings that ThaiWater dates in the future. `Seed` is one document
of `seed_station_thresholds`, which every API process writes at its start.
`RequestFails` is an error in any await: nothing catches one.
`AlertRisk` is what the alert phase would compute at that moment from
`list_frames`. `answer` keeps the inputs beside the response, so that the
properties can say what a level rests on.

**ProviderFetch.** The two clients differ in their periods, windows and files and
share the rest, so one module has both. The clock counts hours and stands still
during a call, which reads it once. `CandidateRunTimes` and `Fresh` are the list
and the age test of `discover_latest_run`; the order of its loop is in
`NextCandidate`. A probe or download of a published file may be refused as well
as one of a missing file (`ProbeRefused`, `DownloadRefused`): the client sees no
difference. `File` is what the provider puts in a file, `Decode` the record the
client picks, `Difference` the windows ECMWF's run totals become. Rain is that of
one grid point in whole millimetres. `glitch`, `undecodable` and `at_start` are
history.

**WaterLevels.** `Begin` is the request up to the await of ThaiWater, `Respond`
the moment ThaiWater answers with some of its readings, and the delivery comes
any time later. With the dictionary everything after the delivery is one action
(`DeliverDryRun`), because none of its calls waits; with MongoDB the deletion,
the insertion and the read of the cache are actions. Over MongoDB `Cached` is
empty: the datetimes Motor returns have no zone and `StationObservation` refuses
them, so the read either finds nothing or raises, and both are logged and leave
no stations. `Restart` is the end of the API process. `shown`, `base`, `known`
and `overlap` are history, `answer` is what the last step returned. `MaxAhead` bounds
how far in the future ThaiWater may date a reading: such a reading is fresh by the
code's age test until its time has come and the limit has passed.

## 3. Runs

| run | instance | shows |
|---|---|---|
| `alert_overlap` | 2 overlapping executions, 3 levels, cooldown 1, clock 0..2, both channels | `SuppressionJustified`, `RepeatNeedsCooldown`, `AuditAgreesWithState` with failures and deaths at every await |
| `alert_serial` | 3 executions in sequence, cooldown 2, LINE only | `SavedSpacing`, and the refinement of `AlertLedger` |
| `alert_delivered` | 1 execution | counterexample, section 6 |
| `web_push` | 2 executions, 2 browsers, 1 overlap, 1 fault | `LiveSubscribersKept`, `DuplicatesNeedFaultOrOverlap`, and the liveness property `StandingSubscriberTried` |
| `ingest` | 2 overlapping executions, both providers, 2 forecast hours, clock 0..2 | `HolesNeedAnUnfinishedWriter`, `DuplicatesNeedOverlap`, `AlertSeesWholeCycles`, `FailureIsNotified`, and the refinement of `ForecastStore` (`StoreImplemented`) |
| `ingest_pipelines` | 2 executions, GFS, 1 hour | counterexample, section 6 |
| `reads` | 1 client of the API, 2 overlapping ECMWF executions, 1 forecast hour, clock 0..1, a day of 2 instants | `BlockNotBehindFrames`, `FailureSurfaces`, `ExportsTile` |
| `risk` | 2 providers, 1 station, 2 cycles, 2 writes, clock 0..2, 7 contents of a run, 2 fixtures of thresholds | `GreenIsEarned`, `WarningIsEarned`, `DangerIsShown`, `LowUncertaintyIsEarned`, `NoMissedAlert` |
| `risk_alert` | the same | counterexample, section 6 |
| `reports` | 2 submissions, 2 addresses, 2 moderators, 1 reader, quota 1, an hour of 2 instants, clock 0..2, both backends | `QuotaPerHour`, `RefusalJustified`, `PromisedPhotoStored`, `OrphanNeedsFailure`, `PublicPhotoWasApproved`, and the action property `TakeDownSettles` |
| `fetch` | both clients with their periods and windows, any of the hours 6, 9, 12, one retry, clock 0..14 | `DiscoveryOverlooksNothing`, `AllHoursOrNone`, `RainCountedOnce` |
| `water` | 2 requests, one station measured at every instant and one once, age limit 1, dates up to 1 ahead, clock 0..2, both repositories | `AnswerJustified`, `NeverStepsBack`, `PairsUniqueWithoutOverlap` |

Why the bounds are enough:

* *Executions.* Two are needed for every race on a state document (read, read,
  write, write) and for a retry after a failure. Three are needed for "a lower
  level between two equal ones", which `alert_serial` has. With the cooldown at
  2 and the clock up to 2 there are repeats exactly at the boundary and one
  before it. `alert_overlap` takes the cooldown as 1 so that an execution can
  read before and write after it has elapsed.
* *Web Push.* Two endpoints give one at the endpoint that fails and one before or
  after it. Two executions overlap in every way two can; with one overlap and one
  fault the bound `1 + faults + overlaps` reaches 1, 2 and 3. The theorem covers more
  of each.
* *Ingestion.* Two forecast hours make a half-written cycle possible, and a
  clock of three instants spans two GFS cycles and two ECMWF cycles. The windows
  and ages keep the proportions of the code: the GFS window is one cycle, the
  ECMWF window two units.
* *Reports.* A quota of 1 and two submissions of one address reach the quota and
  pass it. Three instants with an hour of two span two clock hours, so that a
  submission reaches the limiter after its hour, when the TTL index may have removed
  the counter, and a sliding hour that crosses the full hour.
* *Reads.* One client suffices, as readers change nothing. The one provider that is
  ingested has stored, failed, overlapping and dying executions while the client
  reads; the other pipeline has none, which is the case "no run". The frame of hour
  1 of cycle 1 is valid at midnight, the boundary of two exports.
* *Risk.* One unit is six hours: fresh is an age of 0, aging 1, stale 2, so the
  clock reaches each. Two writes give each provider a run, or one provider two,
  or a run that is replaced while a request reads it. The contents have rain
  exactly at the yellow, orange and red thresholds, just below yellow, only beyond the
  basin, in a window without thresholds, and in half of the expected cells; the
  heights are just below and at the watch level, at the warning level and at the
  critical one, and at or one below the levels of the two threshold fixtures, whose
  danger level is below the engine's critical level in one and equal to it in the
  other.
* *Providers.* Fourteen hours see three GFS cycles and two ECMWF cycles, ages just
  at and just past each window, and every order of publishing. The hours 6, 9 and
  12 make GFS intervals that follow each other (6, 12) and that overlap (9, 12).
  The code retries twice; one retry already tells the last attempt from the others.
  In two cycles the run total falls after hour 9: in one that only GFS schedules and in
  one that both do, so that `NotNegative`, which ECMWF's packed values need, and the
  refusal of negative rain are reached.
* *Water levels.* Two requests make a slow response race a later one; the station
  measured at three instants has readings that are fresh, at the limit and too old;
  the second station makes a response partial. A reading one instant ahead is shown
  before its time, at it and after it.
* Symmetry is used over executions and over interchangeable actors, in runs
  that check only invariants and the safety part of a refinement.
* `CHECK_DEADLOCK FALSE` appears where a finite set of executions or submissions
  ends. `web_push` runs for ever and has deadlock checked.

## 4. Fairness

Only `WebPushBroadcast` has a liveness property. It assumes
`WF_vars(\E j \in Job : Start(j))`, the scheduler starts executions for ever, and
`\A j \in Job : WF_vars(Step(j))`, each await of a running execution returns. The code
justifies the second: every send has a timeout of ten seconds and MongoDB calls have
the driver's timeouts; an execution that is killed is the action `Abort`, of which
there are at most `MaxFaults`. No fairness is assumed of browsers, of the push service,
of faults, or of one execution starting beside another. With unboundedly many
killed executions a subscriber late in the order can be passed over for ever.
That is real: a task timeout of ten minutes and ten seconds per dead endpoint
leave room for about sixty unanswered endpoints.

## 5. Proofs

The assumptions are the named `ASSUME`s of the modules, which the runs evaluate.
They say that bounds are natural numbers and that sets of levels, channels and
providers are what their names say. `Job` and the bounds
are arbitrary; submissions, and the browsers and executions of `WebPushBroadcast`, are
counted and so are any finite sets.

* `AlertDispatchProofs`. `TypeCorrect` is inductive alone. The safety theorems
  use `IInv`: what an execution has *read* is what some answered and saved
  execution announced (the document it read may be overwritten before it acts,
  so the property of the database must be carried over to the copy), what it is
  about to save was answered, and what is saved has not been changed since.
  `PersistedWasAnsweredAlways`, `SuppressionJustifiedAlways` and
  `RepeatNeedsCooldownAlways` follow for any overlap, and `AuditAgreesWithStateAlways`
  from the same invariant with what each execution has appended. Under `Serial` a second
  invariant `SerialInv` says that only one execution is active, that its copy of
  the state equals the document, and that the document is the latest
  announcement of its level or a higher one; `SavedSpacingAlways` and the
  refinement `ImplementsLedger` follow. So does `AnnouncedLevelNeverFalls`: the
  announced level of a channel only rises and no message below it is sent again,
  however long ago it was announced (section 6).
* `WebPushBroadcastProofs`. `TypeCorrect`; `LiveSubscribersKeptAlways` (what is
  about to be pruned is expired, and expiry is for good);
  `DuplicatesNeedFaultOrOverlapAlways`. Its invariant `CountInv` counts what is still to
  come: what a browser received, with one for each running execution that may yet push
  to it (`Owed`), is at most `1 + faults + overlaps`. A start beside others adds to both
  sides. A start when nothing runs adds to the left alone, and needs the second part:
  until the announcement a browser received at most one per fault and running execution,
  as no execution ended without announcing or failing.
  Three theorems are the steps of `StandingSubscriberTried` without its fairness.
  `AnnouncedToStandingSubscriber`: the alert is announced only when a browser that was
  subscribed all along was tried, as it is in every list from `list_subscriptions` to the
  save. `BroadcastProgresses`: every step of an execution lowers its natural number
  `Distance` (what is left of the list, counted by stage), every other step leaves it or
  spends a fault, and an execution stops running only by announcing the alert or by a
  fault. `BroadcastIsNeverStuck`: a running execution has a step to take. With weak
  fairness and finitely many faults these three give the property; that last inference
  is what TLC makes on the instance.
* `ForecastIngestionProofs`. `TypeCorrect`; `FramesHaveRunAlways` and
  `HolesNeedAnUnfinishedWriterAlways` from `RunInv`, which adds that an execution
  which is storing a cycle finds its run document and, before `delete_many`,
  still has every hour to insert. `DuplicatesNeedOverlapAlways` and
  `AlertSeesWholeCyclesAlways` from `AloneInv`: while no overlap has happened
  only one execution runs, it has inserted once what is no longer left, and every
  other cycle it claims is whole. `FailureIsNotifiedAlways` from `NoticeInv`,
  which ties each failed result to its run document and, after the snapshot, to
  an event or a notice; its lemma `FailedRunShows` needs the latest run of a
  pipeline to exist, which follows from the well-foundedness of the naturals.
  The module also has the theorems about `ForecastReads`. `ReadsTypeCorrect`.
  `FailureSurfacesAlways` from `FoundInv`: what a request has found of a pipeline is
  stored and not older than any failure it is to know, because a query returns a latest
  run and runs are never removed (`UnmendedInv`: the failures remembered are stored).
  `RerunIsMasked` is the converse the code does not provide (section 6): the run an
  execution stores after a failure leaves the pipeline breaching unless a cycle later
  than the failure is stored.
  `BlockNotBehindFramesAlways` from `PageInv`, which adds that the run of every listed
  frame is stored (`FramesHaveRunAlways`), so that the later query finds it or a newer
  one. `ExportsTileAlways` is arithmetic on days. `ReadersOnlyRead` carries every
  theorem about executions over to the composition.
  `ExecutionsImplementStore` is the refinement of `ForecastStore`. An insertion is a
  `StoreRun` of the hours found so far and the new one, a deletion one of no hours; both
  put the document of the run again, which changes the latest document only if the run's
  own document is gone, and `RunInv` says it is there. The lemmas say what a reader finds
  after each write: the latest document is the only one none is newer than
  (well-foundedness again), and a document added is the latest or leaves it. `ClockInv`
  says that no execution is ahead of the clock, so a failed run is dated no later than it
  is written.
* `CitizenReportsProofs`. `PromisedPhotoStoredAlways`,
  `OrphanNeedsFailureAlways`, `TakeDownSettlesAlways` and
  `PublicPhotoWasApprovedAlways` from `ReviewInv` (reports exist only behind the
  last step of a submission, photos only behind `storage.save`, screens show
  existing reports, and in memory no submission waits for a database).
  `QuotaPerHourAlways` and `RefusalJustifiedAlways` need an invariant per backend.
  `CounterInv`, over MongoDB: until its hour is over a counter equals the number of
  submissions that reached it, and it never exceeds the number counted. `WindowInv`,
  in memory: the counted submissions whose hour is not over have their stamp kept,
  so the stamps kept at the clock are exactly the counted submissions of the trailing
  hour, and those of any window not yet over are among them (`WindowKept`). The
  cardinalities come from `FiniteSetTheorems`.
* `ProviderFetchProofs`. `TypeCorrect`, `NothingOverlooked`, `WholeOrNothing` and
  `RainIsCountedOnce`, for any hours, periods, windows, retries and run totals. The
  invariant says that a refused candidate whose first hour was online at the start
  makes `glitch` true and that all candidates newer than the one in hand were
  refused, which with the lookback assumption (`LookbackAssumption`: the window
  spans fewer cycles than are looked back) leaves no fresh cycle outside the list;
  that each decoded record is the one `Decode` picks (its uniqueness is the lemma
  `DecodeFile`), one per hour; and that `Prior` is the closest earlier one, so
  that windows touch and do not overlap.
  `CallProgresses` and `CallIsNeverStuck` say that a call ends, whatever the provider
  does: `StepsLeft` counts the candidates not yet probed and the attempts left of the
  hours not yet downloaded, every step of the client lowers it, and as long as the call
  has not ended one of the client's guards holds.
* `CurrentRiskProofs`. `TypeCorrect`, `GreenIsEarnedAlways`,
  `WarningIsEarnedAlways`, `DangerIsShownAlways`, `LowUncertaintyIsEarnedAlways`,
  `EnsembleIsMaximumAlways` and `NoMissedAlertAlways`, for any number of providers, any
  basin, thresholds, gauges, station thresholds and forecasts. The invariant `IInv` says that what was read for a
  provider is of one run (without it a provider could be fresh by one frame and
  contribute another that is stale) that an answer is the engine's result of
  what was read, and that its contributions are one per reading, each of a threshold
  that was stored when it was read. The rest is about the engine: `HighestOfFinite` (a finite set of
  integers has a highest element), `BasinMaxIsWettest`, `OriginOfScore` (every
  score has its frame or its reading), `ProviderUsable` (when a provider counts)
  and `ScoresOfProviders` (scoring the union equals taking the maximum).
  `MoreWaterNeverLowers` states that the engine is monotone: with as much rain or more
  in every cell of the same frames and every river as high or higher, the public level
  is the same or higher, whatever the order of the configured thresholds.
  `MoreSourcesNeverHideAWarning` compares an answer with one that read more: a red or
  orange level stands when the rest of the same runs and other stations are read too, so
  a half-stored run or a silent gauge never makes a warning too high (below orange it
  may, as the degraded all-clear is yellow). No run states these two, as each compares
  two inputs.
  `AgeAssumption` includes `FreshAge <= AgingAge`, which the defaults satisfy and
  the configuration does not enforce.

* `WaterLevelsProofs`. `TypeCorrect`, `NeverStepsBackAlways`, `AnswerJustifiedAlways`
  and `PairsUniqueAlways`. The invariant says that ThaiWater never goes back for a
  station, so what was seen is no later than what is measured (`MeasuredInv`); that a
  request began after what it must not step back behind was returned (`BaseInv`); that
  the dictionary either remembers what was returned of a station last or was emptied
  since (`DictionaryInv`); and that while no writes overlapped one request at a time is
  between its deletion and its insertion (`WritersInv`).

Every property of a passing run is proved but one: the liveness property
`StandingSubscriberTried` is model-checked, because TLAPS does not reason about
fairness and `ENABLED` here, and proved up to that as said above. `ReadsTypeCorrect`
has no run of its own: the theorem is what the other proofs about `ForecastReads` rest
on. `PersistedWasAnswered`, `FramesHaveRun` and `EnsembleIsMaximum` are the other way
round: proved, with no run of their own, since the theorems about other properties
rest on them.

## 6. What the code does not provide

Three runs end in a counterexample. Each states what a document or a docstring of
the repository promises and the code does not keep.

| run | promise | what happens |
|---|---|---|
| `alert_delivered` | `dispatch_risk_alert`: the state is "only updated after a successful send" | any HTTP status counts as sent: a refused push suppresses the alert for a cooldown. Web Push does the same with no accepted push |
| `ingest_pipelines` | `docs/ops-runbook.md`: each pipeline is classified independently, on every tick | `latest_per_station` cannot decode a stored observation (naive datetimes); the error leaves the quality check before any notice, and the public alert phase is skipped too |
| `risk_alert` | `_evaluate_and_dispatch_alert`: "Risk is derived from the freshly persisted forecast frames only" | it scores every frame ever stored, and nothing deletes old ones: a red run keeps the alert level red after dry runs have replaced it. `NoMissedAlert` shows that the error is on the loud side |

Other observations made while reading, which no run states: `should_send_alert`
compares with the last *alerted* level, which never goes down (the theorem
`AnnouncedLevelNeverFalls`), so red, then quiet, then orange is suppressed for good,
where `docs/service-worker-spec.md:69-71` says the dispatcher fires on an upward
transition; `send_web_push_alerts` deletes a dead subscription
outside its `try`, so an error there ends the loop (`Prune` and the failing
execution of `WebPushBroadcast`), where its docstring says that one dead endpoint
cannot block the rest; two executions that overlap both read the state before either
writes it and both broadcast, with no fault in sight (`DuplicatesNeedFaultOrOverlap`
counts it), where `docs/service-worker-spec.md:71-72` says that the service worker "does
not need to deduplicate"; the ECMWF window of 13 hours with two cycles a day finds
nothing between the thirteenth hour after one cycle and the publication of the
next, and a GFS request for hours that are not multiples of six stores windows that
overlap, which is why `RainCountedOnce` asks for six-hourly hours; over MongoDB
the cached fallback of `get_water_levels` never returns a reading; the scheduled job
passes no delivery repository, so its audit trail stays empty (`Audited`); when
the latest runs of both providers are stale the public answer is the unavailable
one (yellow), even beside a fresh reading at the critical level, which is why
`DangerIsShown` asks for a recent run; rainfall in a window without thresholds is
not scored but counts as coverage;
`waterlevel_msl or ...` in the ThaiWater client drops a reading of 0.0;
`list_pending` returns the newest reports first with a limit and no paging, so
old pending reports can be out of reach while newer ones keep coming.

About recovery and freshness: a failed run carries its wall clock as `run_time`, later
than any cycle of that moment, so after a failure a successful re-run stays masked
until a later cycle is stored (the theorem `RerunIsMasked`), where
`docs/ops-runbook.md:88-108` ("How to recover") says to re-run and confirm
`stale: false`. `FailureSurfaces` is about the other side, a failure hidden by a
success, and would hold of a code that let the re-run through as well; `lastSuccessAt` is
null whenever the latest run failed, where its description says "when none stored";
`partial` does not occur, because a client returns all requested hours or none
(`AllHoursOrNone`); `/api/freshness` and the block beside frames repeat the status a
run was stored with and never age it; failed ECMWF runs are stored under the model
name `ecmwf_open_data`, so `?model=ifs` does not see them (`RunsIn`); and once a
station observation is stored over MongoDB the health check leaves out all three
pipelines (`CheckStations`).

About the risk answer: an error while the thresholds are read fails the whole request,
although the level is computed by then (`RequestFails`); the danger level of X.44 in
`data/station_thresholds.json` is below the warning level the risk engine is given for
it, so a station's contribution may be red under a green headline, and the fixture has
no thresholds for X.173A and X.174, whose contribution is green at any height
(`Contribution`); a degraded answer that is red carries the headline about delayed
data.

About moderation: `set_status` takes any report from any status, where the docstrings
of `app/api/reports.py` say "Approve a pending report" (line 420) and "Reject a report so
it stays hidden from the public" (line 443): a moderator whose list is older than a
rejection publishes the report again. `TakeDownSettles` says how far this goes: when
every screen and every photo request from before the rejection is gone, the report
stays hidden.

About the two report backends: `DryRunReportRepository` says its behaviour mirrors
MongoDB's, but it counts a sliding hour and does not count refused submissions, while
MongoDB counts per clock hour and counts them (`QuotaPerHour` and `RefusalJustified`
have a part for each).

## 7. What is not modelled

* Message wording, the bytes of GRIB files, image re-encoding, geometry: data no property
  depends on. A photo is `none`, `valid` or `invalid`; a cycle is its time.
* The dry run of the job and the in-memory repositories of forecasts, subscriptions and
  deliveries: one process, nothing shared, no await that waits. The dictionaries of
  water levels and of citizen reports are modelled, as requests share them.
* `GET /api/alerts/recent`: a sort of what `AlertDispatch` appends.
* The rendering of exports to CSV and JSON, their station dataset, the mock of
  `/api/forecast/rainfall`, shelters, map layers, events: projections of stored or
  static data.
* Application wiring and configuration: done once at start-up. What the models need of
  it is a constant with a named assumption, or the choice of `backend`.
* Offline analytics (`analytics/threshold_calibration.py`) and scripts: run by hand on
  files, outside the service.
* Confidence, the dominant window and the explanations of a risk answer: they are derived
  from what `RiskRules` has and feed nothing.

## 8. Plan

The order of the work was: the alert phase, the broadcast behind it, the ingestion
before it, the risk level they announce, the citizen reports, the two sources (forecast
providers and water levels), then the readers and the second backend of the reports.
The executions and the risk request meet in `ForecastStore`, which the former are proved to
implement and the latter is proved over; the provider clients and `RecordRun` meet in
`Discoverable`. What remains, should the project go on, is the same for `WaterLevels`
and `CurrentRisk`, whose `Served` takes any readings the water-level service may answer
with. `Served` is an over-approximation, so what is proved of it holds of the composition; the product of
the state spaces is beyond a run of minutes.
