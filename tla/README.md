# Formal model of COSMONAUT

TLA+ modules, TLC model checks and TLAPS proofs for the job machinery, the
wizard and the road network of COSMONAUT: the Dash web application in `src/cosmonaut_app/` that plans a
measuring route for a mobile cosmic-ray neutron sensor. A *job* is a database
row plus a work dir; a wizard of web pages fills it, one Celery worker pod
downloads road networks and computes routes, and the files travel between pods
through an object storage. Almost everything that can go wrong and that a unit
test would hardly reach lies between these parties, and that is what the models
are about.

- [1 The system](#1-the-system)
- [2 Modules](#2-modules)
- [3 What is checked](#3-what-is-checked)
- [4 What is proved](#4-what-is-proved)
- [5 Disagreements found](#5-disagreements-found)
- [6 What is not modelled](#6-what-is-not-modelled)
- [7 Plan](#7-plan)

All commands run in this directory:

    tlc -workers 2 -config RunLifecycleSafety.cfg MCRunLifecycle.tla
    tlapm RunLifecycleProofs.tla

`PROJECT.json` lists the components, the runs, a mutant of the code for every
checked property (the property must fail when the mutant replaces the real
definition), the source lines of every definition, the hazards and the theorems.

## 1 The system

### Parties and shared state

| Party | Where | Steps |
|---|---|---|
| Web pods | gunicorn, 2 worker processes with a 300 s timeout (`docker/prod.Dockerfile`), Dash callbacks in `pages/`, `layout.py` | load the job, act, write some of its columns |
| Worker pod | Celery, one pod, routing and upload queue (`tasks/`) | claim a run, compute, push, write the end; download a network |
| Database row | one row per job (`cosmonaut_job.py`, `db_manager.py`, `pydantic_models.py`) | conditional updates for what must not race, plain column writes for the rest |
| Object storage | every output and input file of a job | `rclone copy` in either direction: overlays, never deletes |
| Work dirs | one per pod (production mounts one volume in all pods, "but code must not rely on it", `test/conftest.py`) | files read and written in place |
| Broker | Celery messages, revokes, results | at least once; a restart redelivers what was not acknowledged |
| Browser tabs | several on one job, each showing what it last rendered | clicks at any time |

Nothing locks: safety rests on conditional updates (`mark_queued`,
`mark_pending`, `mark_cancelled`, `mark_start_failed`, the claim and the final
write of a run, `update_input`, compare-and-set on the upload's task id), on
the order of writes, and on recorded checksums. The conditional updates of a
run and the file transfers are in the library `cosmo_ecosystem`, which is not
part of the repository; they are modelled from how the code uses and documents
them and marked external.

### Components

| Component | State | Operations | Hard behaviour | What makes it correct |
|---|---|---|---|---|
| Job run lifecycle | `status`, heartbeat, run id, `notified_end`, `celery_task_id` | submit, restart, cancel, reset, input writes, claim, end, end mail, sweep | two tabs, redelivery, lost workers, killed requests, writes of a job loaded earlier | one claim per submit, no run left RUNNING, one end mail per run, input frozen while it runs |
| Upload pipeline | `membership_upload` (file, task id or state, checksum), the file and the network | upload, delete, upload task with retries, poll; a submit's save and the adoption of a stored download | a new upload over one at work, retries, late polls, deletes between two steps, saves of a column loaded earlier | an ended upload stays as it ended, every upload ends, a completed one names its download; what a save puts back is bounded |
| Upload page | what open tabs show and enable, in seventeen outputs of one callback and two of others | upload, delete, predictor, polls, the street page's gate | each answer sets some of the outputs, chosen by hand; other tabs and the task go on | an answer puts the page where its layout would; a waiting page sees the end |
| Street edits | the intent: removed roads, tags, track grades, keep-largest; what open tabs show of it | remove, restore, clear, keep largest, reset, filter | a click, and a submit's save, write the whole intent they loaded; a click's answer replaces parts of the page; a reset of the checklists fires their callbacks | finished removals stay, a page shows the row's intent |
| Street network files | edited and projected network, their record, the row's intent and download | view, edit, project, pull, push | several disks, stale or half-written files, checksums of a file someone rewrites | a file that looks current is what the row names |
| Route outputs | route, GPX, direction, on each disk and in the storage | run, download page and its switch, map, GPX route, reset; uploads, which push whole work dirs | files another pod deleted or replaced, skip-if-present, old outputs that a push brings back | what is shown and stored of a completed job belongs to the last run and the chosen direction |
| Wizard pages | `stage`, completed steps, what open tabs show | layouts, status poll, buttons, resume address | a tab that missed another tab's step; every submit and reset writes the stage it loaded | a ticked step is done, a link leads to a step that was reached, a page that shows a run sees its end |
| Road network algorithms | none | truncation at the border, filters, largest component, removal of islands | roads that leave and come back; empty and degenerate networks; ties | nothing inside is cut, the part kept is connected and the largest |
| Overpass client, OSM transform | three files while they are written | query, streamed answer, temporary files and renames, retry | an answer with status 200 that is only a part; a kill between two renames | a partial answer is never taken for a whole one |
| Job deletion, cleanup | row, files | delete, expiry | deletion under a run, an upload or an open page | nothing is recreated, nothing live is deleted |
| Email, log pages, documentation, plots, configuration | — | I/O, rendering, build-time tools | — | — |

The full list of hazards, each at its line and with the properties that cover
it or the reason why none does yet, is in `PROJECT.json` under `hazards`.

## 2 Modules

| Module | Lines | What it is |
|---|---|---|
| `JobRun` | abstract | what the job row promises its readers about the runs of one job |
| `RunLifecycle` | detailed | one job's runs: tabs, row, broker, workers, sweep |
| `UploadPipeline` | detailed | one job's membership upload: tabs, row, upload task, poll, two disks and the storage |
| `StreetNetwork` | detailed | the freshness protocol of the derived network files on all disks |
| `RouteOutputs` | detailed | route, GPX file and direction on all disks |
| `MembershipColumn` | abstract | what the `membership_upload` column promises the pages and runs that read it |
| `UploadPages` | detailed | the data upload page and the gate of the street page in several tabs, against row and Celery |
| `WizardPages` | detailed | all pages in several tabs: status, stage, ticks, buttons, the status poll |
| `RoadNetwork` | operators | the road network as data: truncation, filters, components, `Derive` |
| `OsmDownload` | detailed | the streamed Overpass download into three files, with refusals, breaks, retries and kills |
| `StreetEdits` | detailed | the street selection page in several tabs and the intent it edits |
| `NetworkWorkflow` | composition | `OsmDownload` and `StreetEdits` joined by the row and the download file |
| `RunLifecycleProofs` | proofs | type correctness, exclusive claims, no orphaned run; `RunLifecycle` implements `JobRun` |
| `UploadPipelineProofs` | proofs | what late tasks, polls and saves may change of a column; `UploadPipeline` implements `MembershipColumn` |
| `WizardPagesProofs` | proofs | ticks and the resume link are true |
| `UploadPagesProofs` | proofs | the answers of the upload page agree with its layout |
| `RoadNetworkProofs` | proofs | lemmas about truncation, filters, components and the largest one |
| `NetworkWorkflowProofs` | proofs | whole files, border roads, the largest network, edits and what tabs show of them |
| `RouteOutputsProofs` | proofs | outputs shown and stored |
| `StreetNetworkProofs` | proofs | type correctness |
| `MC...` | instances | symmetry sets for TLC; the values are in the `.cfg` files |

The modules meet at the row: each keeps the columns its actions read and write,
and stands in for the other components by their effect on those columns (a run
starts or ends, an input is edited, an upload is stored). They are kept apart
because their product is out of reach and because the only coupling is through
those few columns. Where two parts do need each other they are composed: the network
that is edited is the network that was downloaded (`NetworkWorkflow`), and the
upload pipeline is checked to implement the column that the pages' modules
assume (`MembershipColumn`).

**Atomicity.** A request or a task is cut into one action per access to shared
state: each database statement, each file transfer, each message. What a
request loaded (`CosmonautJob(job_id)`) is kept in its record and used later,
however stale: that is where most of the hazards live. A conditional update is
one action, as it is one SQL statement.

### RunLifecycle

State: `row` holds the run-owned columns (`status`; `beat`, whether a heartbeat
is set; `run`, the claiming run's id; `notified`; `task`) and `input`, a version
of all user inputs. `web[h]` is a request in flight with the columns it loaded;
`queue`, `revoked` and `sentFor` are the broker's; `wrk[w]` a worker process.
`attempt`, `claims`, `ended`, `mails` and `silenced` are histories that only
properties and bounds read.

| Code | Actions |
|---|---|
| `start_computation`, `CosmonautJob.submit` | `StartComputation`, `MarkQueued`, `ClearNotifiedEnd`, `SaveRow`, `Enqueue`, `StoreTaskId` |
| submit's failure path, `_fail_to_start` | `StartFails`, `FailToStart` |
| `cancel_computation`, `cancel` | `CancelComputation`, `RevokeTask`, `MarkCancelled` |
| `perform_reset`, `restart_computation`, `reset` | `ResetJob`, `RestartComputation`, `MarkPending`, `ForgetTask` |
| `update_input` of any page | `UpdateInput` |
| `process_routing_job`, `job_run.run` | `Deliver`, `FinishRun` |
| `_notify_user`, `mark_end_notified` | `LoadForEndMail`, `SendEndMail`, `MarkEndNotified` |
| `sweep_lost_runs` | `SweepLostRun` |
| environment | `WebCrash`, `TerminateWorker`, `WorkerDies`, `PodRestart` |

Decisions worth knowing. A delivery and its claim are one action. A run that was
overtaken (swept, cancelled, claimed anew) returns without writing and without a
mail, as `run` returns `None`. A pod restart redelivers any subset of the
messages its workers held and forgets which ids were revoked; a worker that
dies alone loses its message. The sweep may end a run whose worker was only
suspended. `submit` is accepted from PENDING and FAILED. The job has a mail
address. An enqueue that raises after the broker already has the message is not
modelled. The job log, the stage, the output files and job deletion are left out.

### UploadPipeline

State: `row` is `status` and the `membership_upload` column (`file`; `sp`, which
is PENDING, COMPLETED, FAILED or the id of the task at work; `sha`). An upload is
named by its task id, and the file and the network it brings carry that name, so
that the content of a file tells where it came from. `store` maps the two pods'
disks and the storage to files; `polls` holds the ids that polls in flight
loaded; `celery` what the result backend says of an id. `saver[s]` is a request
that loads the column and writes it later as it was: a submit, whose `save`
writes every column a run does not own, or an adoption. `revived`, a history, has
the task ids that a save has put back over another state.

| Code | Actions |
|---|---|
| `_handle_membership_upload` | `StartUpload`, `StageFile`, `PushInput`, `SaveInput`, `PushPlots`, `WriteTaskId`, `SubmitUpload`, `EndUploadFailed` |
| `delete_membership_file`, `delete_membership` | `StartDelete`, `RevokeSeen`, `WipeFiles`, `ResetRow` |
| `process_upload_task` and its retries | `Receive`, `PullWorkDir`, `Download`, `HashDownload`, `PushWorkDir`, `WriteCompleted`, `FailUpload`, `ReportEnd` |
| `poll_street_processing`, `get_street_processing_status` | `StartPoll`, `AnswerPoll` |
| `start_computation`, `restart_computation`, `submit` with its `save` and `_fail_to_start` | `LoadForRun`, `QueueRun`, `PullForRun`, `PushForRun`, `SaveForRun`, `FailToStart` |
| the run's end, `cancel`, `reset` | `EndRun`, `ResetRun` |
| `adopt_stored_download` | `LoadForDownload`, `PullDownload`, `AdoptDownload` |
| environment | `WebCrash`, `TerminateWorker`, `WorkerDies` |

A transfer overlays and never deletes. Separate disks are what the code is
written for, one shared volume is what production mounts: the refused run has the
former, the other two the latter, and the theorems hold for both. A run that is
over leaves the row FAILED here, whichever way it ended: what the upload's
requests ask of the status is whether it is PENDING, and a submit whether it is
RUNNING. The task's load and the compare-and-set of
its end are one action. Celery's state of a task is set after the row is
written. A push that raises in an upload request ends the request and leaves
what a kill at that point leaves, so `WebCrash` stands for both. `raise_stage(2)`,
the maintainer mail and the adoption of the legacy `street_edits.json` are left
out; the predictor is in `UploadPages`.

`MembershipColumn` is the abstract view of the same column: `Save`, `Own`,
`Refuse`, `Complete`, `Fail` and `Delete` on file, state and checksum, plus
`spent`, the uploads whose task had its turn. It says what the docs call
"overloaded on purpose": one upload at a time, a task owns the column once, only
the owner completes it, and then a download is named. It also says what the saves
of whole rows may do to that: `Hold` and `PutBack` write a state that a request in
flight had loaded (`held`), never another; an upload whose id came back
(`revived`) may be completed without a checksum (`CompleteUnnamed`), and `Adopt`
names one for a column that was loaded in that state. `UploadPipeline!Promise` is
the refinement mapping; `spent` and `held` are not columns, they are read off
Celery and the requests in flight.

### UploadPages

State: `row` (status, whether membership and predictor are named, `sp`), what
Celery reports of each upload's task, `tab[t]` the page with the set of controls
that are on, `req[t]` and `poll[t]` the requests in flight. `calm` is a history
variable: the tabs nothing but their own answered requests and the end of an
upload has happened to since they were rendered.

| Code | Actions and operators |
|---|---|
| `data_upload.layout`, `street_selection.layout` | `RenderPage`, `DataUploadPage`, `Controls`, `StreetPage` |
| `_handle_membership_upload` | `ChooseMembership`, `DeleteMembership`, `SaveMembership`, `NameTask`, `SubmitTask`, `AnswerUpload` |
| `delete_membership_file` | `DeleteMembership` |
| `_handle_predictor_upload`, `delete_predictor_file` | `CheckPredictor`, `KeepPredictor`, `DeletePredictor` |
| `get_street_processing_status` | `StatusOf`, `Synced` |
| `poll_street_processing`, `poll_street_processing_status` | `StartPoll`, `PollAnswer`, `EndPoll` |
| the task, submit and reset | `EndTask`, `StartRun`, `ResetRun` |

`UploadPipeline` cuts the same requests more finely and has files and messages;
here the steps are those that a page can tell apart, and instead every answer is
modelled output by output. A task id that nothing refers to any more is used
again, which keeps the instance finite with one name. `StartRun` is the guard of a
submit only: what its save writes back of the column is `UploadPipeline`'s
subject, and would change nothing that is claimed here, as the step ends the calm
of every tab and a poll asks Celery about whatever id it finds. The colour, opacity, file
name and EPSG fields, and the collapses, follow the controls they belong to.

### StreetNetwork

State: `row.job` names the intent, the download and the upload at work. `store`
maps every disk and the storage to the network, the two derived files and the
record. The content of a derived file *is* the source it was built from, so two
files have equal checksums when they are the same content; `Torn` is the file
just opened for writing, which is empty.

| Code | Actions |
|---|---|
| `refresh`, `_is_current`, `_source` | `Check`, `IsCurrent`, `SourceOf` |
| `_download_sha256`, `_pull_download_if_other` | `Fetch` |
| `_derive`, `_rewriting`, `_save_edit_file` | `ReadDownload`, `DropRecord`, `OpenFile`, `WriteFile`, `WriteRecord` |
| `ensure_projected`, `_project`, `compute_route` | `Project`, `ComputeRoute` |
| `update_viewport_streets`, `viewport_fc` | `OpenPage`, `ServePage` |
| `apply_edits` | `StartEdit`, `ApplyEdits` |
| submit, as far as it moves files | `StartSubmit`, `MarkQueued`, `SaveAndEnqueue` |
| `delete_membership` | `StartDelete`, `WipeFiles`, `ClearRow` |
| upload task, as far as it moves files | `StoreNetwork`, `NameNetwork` |
| environment | `Pull`, `Push`, `Killed`, `StartRun`, `RunIsOver` |

A process may be killed before any step and in the middle of a copy, which then
leaves any part of the files at its target. `StoreNetwork` takes the upload
task's pull, download and push in one, because its steps are in
`UploadPipeline`; an upload that a delete supersedes is revoked. `RunIsOver`
stands for the end, cancel or sweep of a run followed by a reset, while the
process that computed it may go on. The projection's EPSG code goes with the
network. The feature cache and the migration of edits from files of earlier versions
are left out; `adopt_stored_download` is in `UploadPipeline`.

### RoadNetwork, OsmDownload, StreetEdits, NetworkWorkflow

`RoadNetwork` has no state. A network is a function from road ids to roads
(highway value, track grade, nodes in order); a file lists them in the order of
their ids. Its operators are recursive functions and comprehensions, no
`RECURSIVE`, so that they can be reasoned about.

| Code | Operators |
|---|---|
| `_truncate_by_edge`, `way_to_feature` (`osm/transform.py`) | `TruncateByEdge`, `WayToFeature`, `Features` |
| `track_grade_allowed`, `_filter_by_tags`, the grade filter of `_derive` | `TrackGradeAllowed`, `FilterByTags`, `FilterByGrades` |
| `build_graph`, `get_largest_subnetwork`, `remove_disconnected_roads` | `BuildGraph`, `LargestSubnetwork`, `RemoveDisconnectedRoads` |
| `StreetSelector._derive` | `Selected`, `Derive` |

`OsmDownload`: `tmp` and `final` map the three files to what `<path>.tmp` and
`<path>` hold: who wrote it, the roads so far, and whether it is ended. A writer's
handle stays with its file when that is renamed or removed, so two writers on
one work dir can be modelled too.

| Code | Actions |
|---|---|
| `run_osm_query`, `StreamingGeoJsonWriter` | `OpenWriter`, `StreamWay`, `CloseWriter`, `FailClose`, `Discard`, `AbandonWriter` |
| `OverpassSource` | `Query`, `BreakOff`, `EndOfStream`, `RaiseOnRuntimeError` |
| `_retry_or_fail` | `EndAttempt` |
| `delete_membership`, the task's start, environment | `StartUpload`, `Kill` |

`StreetEdits`: `row` is status, intent, and the state and number of the upload it
is about; `submits` holds the submits in flight with the row they loaded; `tab[t]` what a
tab shows of the intent; `calls` every request in flight, several of one tab
included, because the map and the checklists send without waiting. `settled`
(removals no later click has undone) and `calm` are histories.

| Code | Actions |
|---|---|
| `layout` | `OpenPage`, `LoadJob`, `RenderPage` |
| `_load_editable_job`, `remove_selected`, `restore_single_road`, `clear_all_removed_roads`, `keep_largest_subnetwork`, `reset_edits`, `update_tags_dropdown`, `update_track_grades` | `ClickOn`, `LoadJob`, `ApplyEdits` with `Edited`, `Changes`, `Answered` |
| `tags_select_all_none`, the checklists a reset sets | `SelectAllNone`, `Cascade` |
| `start_computation`, `submit` with its `save` and `_fail_to_start` | `LoadForRun`, `QueueRun`, `SaveForRun`, `FailToStart` |
| the run's end, `reset`, `delete_membership`, the upload task | `EndRun`, `ResetRun`, `ForgetNetwork`, `EndUpload` |

`NetworkWorkflow` joins them: an upload forgets network and edits in the row and
starts a download, the end of the task puts what its download file holds into
the row, and tabs opened before go on editing. A submit's save may put an earlier
upload, its edits included, back over a later one; the earlier task's end is then
read by a poll (`EndEarlierTask`). The files derived from the intent
are `StreetNetwork`'s subject; here the network a page or a run uses is
`Derive(network, row.edits)`. Coordinates are left out: two roads meet where they
share a node, which is what rounding to a fixed number of digits gives for
nodes of OSM.

### WizardPages

State: `job` is status and stage; `tab[t]` the page with the status and the ticks
it rendered and whether its interval is on; `req[t]` a click or a page being
opened, with the row it loaded; `upd[t]` the run page's status update.

| Code | Actions and operators |
|---|---|
| the layouts, `get_completed_steps`, `raise_stage` | `LoadPage`, `RenderPage`, `CompletedSteps`, `StageOf`, `RaiseStage` |
| `resolve_reload_url` | `ResumePage` |
| `go_to_upload_page`, `update_routing_params` | `NextOfUserInfo`, `StoreEmail`, `NextOfParams`, `StoreParams`, `RaiseReached` |
| `start_computation`, `submit` | `Start`, `CheckStart`, `Submit`, `SaveSubmitted` |
| `cancel_computation`, `restart_computation`, `perform_reset`, `reset` | `Cancel`, `CancelRun`, `Restart`, `Reset`, `MarkPending`, `ResetStage` |
| `update_status` with its interval and trigger | `LoadUpdate`, `ShowUpdate` |
| worker or sweep | `RunEnds` |

Pages have addresses, so `Open` reaches any of them at any stage. `ShowUpdate` takes
the visible button to follow the status it shows; the display classes that
Bootstrap gives the buttons at layout are not modelled, and no property depends on
which button is seen. A submit that
raises after the guard gives the tab no answer. What `RunLifecycle` has of the
same requests (messages, claims, task ids) is left out here, and the stage there.

### RouteOutputs

A route is named by the run that computed it and a GPX file by its route and
direction. `act` holds the requests in flight and the run at work, all of which
share `Pull`, `ReadDirection`, `ReadRoute`, `WriteGpx` and `Push`.

| Code | Actions |
|---|---|
| `create_qr_code_routing`, `create_gpx` | `ReadDirection`, `ReadRoute`, `WriteGpx` |
| `route_download.layout` | `OpenDownloadPage` |
| `toggle_route_direction`, `set_route_reversed` | `ToggleDirection`, `KeepDirection`, `MarkDirection`, `DropGpx` |
| `update_map_layers`, `map_layer_data`, `get_route_polyline` | `OpenMap`, `PullRoute`, `PullOptions`, `Serve` |
| `download_gpx` | `DownloadGpx`, `PullGpx`, `Serve` |
| `perform_reset`, `restart_computation`, `reset` | `ResetJob`, `RestartComputation`, `MarkPending`, `DeleteOutputs` |
| `submit`, `cancel` | `StartComputation`, `MarkQueued`, `Enqueue`, `CancelComputation` |
| `_handle_membership_upload`, `upload_predictor`, `save_input` | `UploadInput`, `FailUpload`, `WriteInput` |
| `process_upload_task` | `StartTask`, `FailUpload` |
| the run | `Deliver`, `ComputeRoute`, `RunFails`, `FinishRun` |

A push copies the whole work dir, old outputs included. So uploads are modelled by
what they pull and push: the input (`save_input`), the plots, and on the worker's
disk the upload task, which the process of its request goes on as. The street page
pulls without pushing; so does an upload that is rejected, and it is the same for
the outputs. With `OneAtATime` the user waits for each answer, each upload task and
each run, and uses the buttons the page shows for the status; without it tabs click
at any time. A
cancel ends the row and the worker in one action and a run that raises stores
nothing; what happens in between is `RunLifecycle`'s subject. Crashes, the QR
code (it holds the same address for every GPX file of a job) and the zip of the
work dir are left out.

## 3 What is checked

Twelve runs: nine in which everything holds, three that end in a counterexample
to something the sources say (section 5). Every checked property of a passing run
has a mutant: a plausible bug in one definition, written out beside it in the
module ("Mutant: ..."), that TLC must find violating that property.

| Run | Properties | Instance |
|---|---|---|
| `RunLifecycleSafety` | `TypeOK`, `AttemptClaimedOnce`, `ImplementsJobRun` | 2 requests in flight, 2 workers, 2 task ids, 2 submits, 1 edit, 1 pod restart, requests killed |
| `RunLifecycleLive` | `QueuedRunIsBacked`, `RunEnds` | 2 requests, 1 worker, 2 submits, 1 pod restart, nothing killed in the web |
| `UploadPipelineSafety` | `TypeOK`, `CompletedHasChecksum`, `EndedUploadIsLeftAlone`, `KeepsColumnPromise` | 2 requests, 1 submit or adoption in flight, 1 worker, 2 uploads, 3 requests in all, shared disk, anything killed |
| `UploadPipelineLive` | `UploadEnds` | 1 request, 1 submit or adoption in flight, 1 worker, 2 uploads, 1 retry, 3 requests in all, shared disk, nothing killed |
| `StreetNetworkPods` | `TypeOK`, `CurrentFilesAreTrue`, `PagesShowTheRow`, `RunComputesItsInput` | 2 web disks and the worker's, 2 networks, 5 requests, 1 kill |
| `RouteOutputsPods` | `TypeOK`, `AnswersShowTheStorage`, `GpxHasTheDirection`, `CompletedHasItsOutputs` | 2 web disks and the worker's, 3 runs, 12 requests one at a time |
| `WizardPagesTabs` | `TypeOK`, `TicksStayTrue`, `ResumeOpensAStepReached`, `RunPageSeesTheEnd` | 2 tabs, a job at stage 0 or 3, 4 clicks |
| `UploadPagesTabs` | `TypeOK`, `AnswersAgreeWithLayout`, `PagesSeeTheUploadEnd` | 2 tabs, 1 task id used again and again, any number of clicks, 2 pages opened or runs started |
| `NetworkWorkflowTabs` | `TypeOK`, `FinalFilesAreWhole`, `BorderRoadsAreKept`, `NothingIsOutOfReach`, `KeptNetworkIsTheLargest`, `FinishedRemovalsStay`, `CalmTabsShowTheRow` | 4 ways of 11 nodes, 1 retry, 2 tabs, 1 upload and 5 clicks or 2 uploads and 4, submits among them |

**RunLifecycleSafety.** No attempt is claimed by two runs, over double clicks,
redelivered messages, messages of cancelled attempts and restarts; and the
abstract promise holds: an attempt that is over never comes back to life, only a
claimed attempt completes, no attempt sends two end mails and none sends one
that its own run did not end.

**RunLifecycleLive.** A queued run always has a request, a message or a cancel
that will move it, and a row never stays RUNNING. Two requests are the smallest
number in which a submit meets a cancel; two submits the smallest in which a
message of an older attempt meets a newer one.

**UploadPipelineSafety.** The hazard is the compare-and-set on the task id, against
two uploads whose tasks, polls and requests cross, and against a submit that saves
the column as it had loaded it before its guard. Once an upload has ended in the
row neither a late task, nor a redelivered one, nor a late poll changes it: only a
request that replaces or deletes it does, or a save. A COMPLETED upload names a
checksum, unless a save has put the id of its ended task back: the next poll then
completes it without one, which `adopt_stored_download` exists to repair. The same
run shows that the column keeps the promise of `MembershipColumn`: an upload that
was replaced comes back to work only by such a save, whoever else is late, and
only the owner completes with a checksum. Three requests are an upload, a submit
that loads while its task is at work, and another upload or a deletion.

**UploadPipelineLive.** The id of a task at work does not stay in the row: retries,
revokes, the failing path and the poll's reading of Celery end it, also when a
save has put it back. The exception is stated: an id that was drawn for a task that
could not be sent. A submit that loaded it between the write of the id and the write
of the failure puts it back, and Celery, which never heard of it, reports it as
pending for good.

**StreetNetworkPods.** The row is the authority: whatever was pulled over, cut
short or left behind by a deleted network, a derived file that *looks* current
for what the row names *is* built from it, on every disk; pages show it and a
run that owns the row computes on it. The last two are claimed of requests and
runs that loaded the row while the download it names was to be had (`stored`):
a submit on a pod with an old network, queued while an upload is at work, can
push the old network over the new one, and then there is nothing to show. Five
requests are the shortest history with an upload, a page, a second upload from
another pod, the first pod's page and a submit.

**RouteOutputsPods.** Whatever a serving pod's disk still holds, the map shows
the last run's route in the chosen direction and the download is the stored
file; the stored GPX file of the stored route has the stored direction, also
after a regeneration on another pod or by a run; and a completed job has the route
of its last run and a GPX file in the storage (`CompletedHasItsOutputs`), although
uploads and their tasks push old outputs of other disks into it before. These hold
for a user who waits for answers. With two tabs they do not (set
`OneAtATime = FALSE`, two handlers): a reset deletes the files after it has released
the row, so a run started in between loses them; and a toggle and a page on one disk
leave a GPX file of the other direction. No text of the repository promises
otherwise, so these are described here and are not findings. That a reset leaves
nothing in the storage is not true even of a user who waits (section 5). Twelve
requests hold three runs with a reset, an upload and a toggle between two of them, and
an answer after each.

**WizardPagesTabs.** `TicksStayTrue`: three kinds of requests write the stage,
two of them (a submit's save, a reset's last write) as they loaded it, seconds
later and over what other pages have raised meanwhile. The steps that any tab
ticks stay done all the same, because each of these requests comes from a page
of a job whose run page has raised it to stage 4, and no tick needs more. `ResumeOpensAStepReached`: the table's link is
right in every row these writes can leave, including a PENDING row at stage 5.
`RunPageSeesTheEnd`: whichever of start, cancel, restart and refusal came last in
whichever tab, a run page that shows or polls a run does not do so for ever when
the run is over.

**UploadPagesTabs.** `AnswersAgreeWithLayout`: after any sequence of uploads,
deletes and predictor uploads, each succeeding or failing at any of its steps, the
page is the one its layout would render from the row now: five callbacks that
name their outputs by hand against one function of the row. It is claimed of
calm tabs: a page that another tab has changed the row under does go stale, as no
callback refreshes it. `PagesSeeTheUploadEnd`: both polls see an upload that ended
in the row, and also one whose task was lost before it wrote its end.

**NetworkWorkflowTabs.** `FinalFilesAreWhole`: a query that is refused, breaks
off, ends in a remark, fails to close a file or is killed, in any attempt, never
leaves a part of an answer under a final name. `BorderRoadsAreKept`: the roads of
the download reach one node over the border and lose no node inside, unless the
road leaves for two nodes and comes back, and then it is dropped as a whole.
`NothingIsOutOfReach`: with all filters on, the page offers every road of the area,
while the row is about the last upload and not an earlier one that a save put back.
`KeptNetworkIsTheLargest` compares the network that is kept with every connected
selection of roads, a definition without graphs. `FinishedRemovalsStay`: a tab
opened before does not bring back what another tab removed, nor does a run; only
an edit or a submit that had loaded the row when the removal was written may, and
does (section 5). `CalmTabsShowTheRow`:
each answer of the street page replaces by hand what its click has changed. The
four ways are a road inside, a filtered track that crosses the border, a longer
track apart from them, and a road that leaves and comes back: which part is the
largest depends on the filters and the removals. `Grade` has one grade, as all grades are treated alike.

**Bounds.** Clicks, edits, restarts, retries, starts, kills, runs and requests
are capped by the constants of that name, in the guards of the actions that
count. `MaxRuns`, `MaxClicks` and the set of task ids limit how many attempts
there are; two suffice for every hazard in which an older attempt meets a newer
one, and the proofs of section 4 need none of them. In `WizardPagesTabs`
four clicks are a page and a click in each tab, with every status update and run
in between, and starting at stage 3 saves those that get there. In
`UploadPagesTabs` uploads, deletes and polls are not bounded at all: `MaxMoves` caps
only pages opened and runs started, two being both tabs once or one tab twice. In
`NetworkWorkflowTabs` the five clicks hold an upload, a page in each tab and one
click in each, in every order; with a second upload (`FewClicks`) the four hold both
uploads, a page and a click of it before or after the second. A submit takes one of
the clicks, and another while it is in flight. Symmetry is used for
requests, workers, uploads, web disks, downloads and tabs in safety runs only.
`CHECK_DEADLOCK FALSE` is set where users may stop clicking or a bound is reached.

**Fairness.** A request's own steps are weakly fair, because the server runs it
until it returns; so are a worker's own steps (there is no time limit on a task,
and a computation returns), taking messages, the poll of the open upload page,
and the sweep, but only of a run that no worker computes any more. Clicks,
failures, kills, restarts and the sweep of a live run are not fair.
In `WizardPages` and `UploadPages` the requests of a tab, its interval while it is
on, and the answers are weakly fair: a tab stays open and the browser fires the
interval. Users, runs and upload tasks are not fair there; the properties say
what a page does once these have ended.
`RunEnds` assumes that no request is killed half way, which the 300 s timeout of
gunicorn can do: a request killed between the queueing write and the enqueue
leaves a queued row that no message backs and no heartbeat lets the sweep find,
until the user cancels. `UploadEnds` assumes that nothing is killed and that the
upload page stays open; submits and adoptions are not fair, they may be slow for ever.

## 4 What is proved

The TLA+ proof system checks these for every value of the constants: any number of
requests, workers, disks, tabs, uploads, networks, ways and polygons, and
any bounds. Every safety property that a passing run of section 3 checks is among
them, but for three of `StreetNetwork` (see *What is only model-checked*).

| Theorem | States | Under |
|---|---|---|
| `RunLifecycleProofs!TypeCorrect` | `Spec => []TypeOK` | |
| `RunLifecycleProofs!ClaimIsExclusive` | `Spec => []AttemptClaimedOnce` | |
| `RunLifecycleProofs!RowKeepsItsPromise` | `Spec => ImplementsJobRun` | |
| `RunLifecycleProofs!QueuedRunsAreBacked` | `Spec => []QueuedRunIsBacked` | `~WebMayCrash` |
| `UploadPipelineProofs!TypeCorrect` | `Spec => []TypeOK` | |
| `UploadPipelineProofs!CompletedNamesItsDownload` | `Spec => []CompletedHasChecksum` | |
| `UploadPipelineProofs!EndedStaysEnded` | `Spec => EndedUploadIsLeftAlone` | |
| `UploadPipelineProofs!ColumnKeepsItsPromise` | `Spec => KeepsColumnPromise` | |
| `WizardPagesProofs!TypeCorrect` | `Spec => []TypeOK` | |
| `WizardPagesProofs!TicksAreTrue` | `Spec => []TicksStayTrue` | |
| `WizardPagesProofs!ResumeIsReached` | `Spec => []ResumeOpensAStepReached` | |
| `UploadPagesProofs!TypeCorrect` | `Spec => []TypeOK` | |
| `UploadPagesProofs!AnswersAgree` | `Spec => []AnswersAgreeWithLayout` | |
| `NetworkWorkflowProofs!TypeCorrect` | `Spec => []TypeOK` | |
| `NetworkWorkflowProofs!FilesAreWhole` | `Spec => []FinalFilesAreWhole` | `OneWriter` |
| `NetworkWorkflowProofs!BordersAreKept` | `Spec => []BorderRoadsAreKept` | `OneWriter` |
| `NetworkWorkflowProofs!AllIsOffered` | `Spec => []NothingIsOutOfReach` | `OneWriter` |
| `NetworkWorkflowProofs!TheLargestIsKept` | `Spec => []KeptNetworkIsTheLargest` | |
| `NetworkWorkflowProofs!RemovalsStay` | `Spec => []FinishedRemovalsStay` | |
| `NetworkWorkflowProofs!CalmTabsShow` | `Spec => []CalmTabsShowTheRow` | |
| `RouteOutputsProofs!TypeCorrect` | `Spec => []TypeOK` | |
| `RouteOutputsProofs!AnswersAreStored` | `Spec => []AnswersShowTheStorage` | `OneAtATime` |
| `RouteOutputsProofs!GpxTurnsWithTheSwitch` | `Spec => []GpxHasTheDirection` | `OneAtATime` |
| `RouteOutputsProofs!OutputsAreKept` | `Spec => []CompletedHasItsOutputs` | `OneAtATime` |
| `StreetNetworkProofs!TypeCorrect` | `Spec => []TypeOK` | |

### From which assumptions

Each module names what it assumes of its constants in one `ASSUME`, which TLC
evaluates in every run: model values are no ordinary values (`None` is no task id, no
run, no record; an upload's id is none of the words the column may hold instead; the
storage is no disk; a worker is no handler) and bounds are naturals. Two assume
something of the data: roads are finite sequences of nodes with ids that can be
compared (`RoadNetworkAssumption`, `IsRoad`), and an answer of the server has finitely
many of them (`OsmDownloadAssumption`).

The hypotheses in the last column are conditions under which the properties hold, not
facts about the code; without each of them TLC finds a counterexample:

- `~WebMayCrash`: no request is killed half way; see the remark on `RunEnds` in
  section 3.
- `OneWriter`: one upload task at a time downloads into a work dir. Two share the
  names of the temporary files (section 5).
- `OneAtATime` of `RouteOutputs`: the user waits for each answer, each upload and
  each run. What two tabs do otherwise is in section 3 under `RouteOutputsPods`.

### Along which arguments

**RunLifecycle.** `TypeOK` is inductive as it stands, with one non-trivial
part: a busy worker's run id is one that was claimed. The actions are then sorted
by what they do to the run columns and the histories: `StepKinds` shows every step
to be one of seven kinds (opened, claimed, ended, aborted, reset, mailed, or quiet
for `JobRun`). The invariant `RunInv` says why the guards of `JobRun` hold:

- `ClaimsInOrder`: no claim is of a later attempt than the current one, none is
  of the current one while it is queued, and no two are of the same attempt;
- `RowNamesItsRun`: a RUNNING row with a heartbeat names the run that claimed the
  current attempt, one without names none;
- `OneWorkerPerRun`: no two busy processes are on the same run;
- `MailsFollowTheirRun`: a process about to mail is on a run that ended and has
  not mailed, and every mail sent is of a claimed attempt.

Each is preserved by every kind of step, one lemma each. `ClaimIsExclusive`
follows from `ClaimsInOrder`; the refinement from `KindsAreJobRunSteps`, which
maps each kind to a step of `JobRun` or a stutter. `QueuedRunIsBacked` is not
inductive: a worker may discard the message of the queued run because it was
revoked. `BackInv` adds that the cancel which revoked it is then still about to end
the row (`CancelFollowsRevoke`); for that a task id must be sent for one attempt
only (`AttemptsBehind`) and never be fresh once anything knows it (`TasksWereSent`).

**UploadPipeline.** `UploadInv` says that a task id is *fresh* until its request has
sent it: neither row, saves, polls, broker nor workers know it (`FreshIsUnknown`), no
two requests are about the same upload (`OneRequestPerUpload`), and the row names no
task that has returned, unless a save has put it back (`ReturnedIsWritten`). So what
compares itself with the row and finds its own id owns the column, or is revived.
`ColumnsAreSound` says of the row and of every column that a save has loaded that it
names the file of the task at work, and a checksum when it is completed and not
revived; it is what makes a write-back harmless for `CompletedHasChecksum`.
`EndedStaysEnded` is a step property from there. The refinement maps each step to one
of `MembershipColumn` or a stutter; the parts of the mapping that are no columns,
`spent` and `held`, are what `FreshIsUnknown` speaks of.

**WizardPages.** A submit, a cancel or a reset writes the stage it loaded. By `StartedIsReached`
everything that shows or remembers a started job, or the page that starts one, has
a job at stage 4 or further; so what these requests loaded is at least 4
(`CopiesAreReached`), and nobody has seen the job further than it is up to there
(`CopiesAreBehind`). No tick needs more than stage 4.

**UploadPages.** `CalmPage` strengthens what is claimed between two answers: while
a request of a calm page has written the row and not answered, the page has the
controls its answer starts from, and the row what the answer will say. What a poll
loaded is still in the row or was replaced by the end of the same task
(`PollAgrees`), because a task id that is not sent yet is known to one request
(`UnsentInv`) and a row without a file names no upload (`RowInv`).

**NetworkWorkflow.** The composition is proved, not its parts. `DownloadInv`: a
temporary file that its writer still holds has exactly the ways streamed so far that
fit into it (`AttemptInv`), so one that was closed and renamed has all of the answer
(`FilesInv`), which the end of the task hands to the row (`NetworkInv`, which says
the same of the rows that submits have loaded and may put back).
`BordersAreKept` adds `TruncationKeepsWhatIsInside`, about the truncation of any
road at any polygon, and `AllIsOffered` that with all filters on a feature passes
(`AllFiltersOn`). `RemovalsStay` rests on `RemovalInv`: what a request in flight has
loaded, and may write back as a whole, a submit included, has every removal that
nothing has undone.
`CalmTabsShow` rests on `CalmInv`: a calm tab has one request in flight, or only
the requests a reset of its checklists fires, which send what the row has already.

`TheLargestIsKept` is about the graph algorithm. The components of
a graph are computed in rounds, by a recursive function on sets of nodes; the
induction over rounds is done with the least counterexample (`LeastIs`: a non-empty
set of naturals has a least element), because the library's induction theorems
take an operator as a parameter. `ComponentIs` then says that a component is
closed under the edges and part of every closed set around its first node,
`ComponentsAreClasses` that two components are equal or apart, `SubnetworksAre` that
the roads of a component are what edges connect, and `LargestIs` that the one kept has at
least as many nodes as any connected selection.

**RouteOutputs.** `TurnInv` says who may be at work in which status of the row.
`WorkInv` says, for a process at each step, what of its own disk and of the storage
it relies on: the direction on its disk is the stored one once it has pulled, the
route is the last run's, and the GPX file, if there is one of this run, is in the
disk's direction (`RightWay`). `StorageInv` says what lies between two processes:
no GPX file is younger than its run (`GpxAge`), the stored GPX file is in the
stored direction unless the job is PENDING, when an upload may have brought back one
that is not (`StoredRightWay`), and a COMPLETED job has both outputs (`Kept`).

**StreetNetwork.** `TypeOK` is strengthened by `Shaped`: requests work on the web
pods' disks and runs on the worker's, and a rewriting of a derived file has a source,
and something to write until it is written.

### What is only model-checked

Liveness: `RunEnds`, `UploadEnds`, `RunPageSeesTheEnd` and `PagesSeeTheUploadEnd`.
The proof system has no rules for fairness and `ENABLED`. `CurrentFilesAreTrue`,
`PagesShowTheRow` and `RunComputesItsInput` are safety properties, and are checked on
the instance of `StreetNetworkPods` only: one request and one run at a time, on
disks of their own. With a request and a run on one disk, or two requests on one,
TLC finds each of them violated, for the reason of `StreetNetworkShared`. Two web
processes and a volume mounted in all pods, which is how production runs, do not
guarantee that condition, so a theorem under it would say less than it seems to; none
is stated. TLC checks the
invariants of this section too, on the instances of section 3, where the
theorems say nothing of how often the interesting cases occur.

## 5 Disagreements found

Each run of this table ends with a counterexample to something a comment or a
docstring says. `PROJECT.json` quotes the line under `findings`.

| Run | What happens |
|---|---|
| `RunLifecycleStaleInput` | A submit loads the job; another tab's edit is accepted, as the row is still PENDING; the submit wins the guard and `save` writes the inputs it loaded over the edit, in a row that is RUNNING. |
| `UploadPipelineRefused` | The status check of an upload and the deletion of the old files are apart: a job started in between loses the files of its running computation, and only then is the upload refused. |
| `StreetNetworkShared` | On one shared disk, a request records the checksum of whatever the file holds after its own write: another request has just opened it. The empty file looks current. |

The following are known from the models too, and have no run here. Each is
stated as a definition, and can be seen with a small change to a configuration:

- `NoRunIsSilenced` (`RunLifecycle`; as the `INVARIANTS` of
  `RunLifecycleStaleInput.cfg`, with a second worker): `mark_end_notified` looks at
  the status only. Run 1 ends and its mail goes out; before the flag is written
  the job is restarted, and run 2 ends too. The flag lands in run 2's ended row,
  which then sends no mail (`tasks/routing_tasks.py` says it still sends one).
- `FailedStartEndsItsOwnAttempt` (`RunLifecycle`; as the `PROPERTIES` of
  `RunLifecycleStaleInput.cfg`): a start that fails after its attempt was cancelled
  and another tab submitted again ends that other tab's queued run.
- `SupersededTaskTouchesNothing` (`UploadPipeline`; as the `PROPERTIES` of
  `UploadPipelineRefused.cfg`): an upload task that was superseded pushes its whole
  work dir, its older network included, before it asks whether it still owns the
  upload.
- `GpxFollowsTheRun` (`RouteOutputs`; as the `INVARIANTS` of
  `RouteOutputsPods.cfg`): `create_gpx` keeps a `route.gpx` it finds, and a reset
  deletes it from the storage and from its own pod's disk only. The worker's disk
  still holds run 1's file, so run 2 stores it as its own. It needs pods with
  separate disks.
- `ResetForgetsTheRoute` (`RouteOutputs`; as the `INVARIANTS` of
  `RouteOutputsPods.cfg`): `CosmonautJob.reset` "Deletes output files (solutions,
  GPX, QR codes) everywhere" (`cosmonaut_job.py:825`), that is on its own pod's disk
  and in the storage. A run, a reset and an upload are enough: the upload's task
  pulls over the worker's work dir, which still has the route and the GPX file, and
  pushes all of it into the storage of the PENDING job. So does an upload served by
  another web pod. They stay until the next run replaces them. It needs pods with
  separate disks.
- `FinalFilesAreWhole` with `Writer = {w1, w2}` in `NetworkWorkflowTabs.cfg`: two
  downloads of one job on one disk share the names of the temporary files, and a
  file gets its final name with roads of both or of a part, against the comment
  at `osm/geojson_writer.py:7`. The second worker is a new upload while the
  worker still downloads for the one it replaced, which a revoke ends only a
  moment later.

And some that were met while modelling, which no text of the repository rules out:

- A submit loads the job before its guard and saves every column after it that a run
  does not own (`cosmonaut_job.py:709`). Besides the inputs of
  `RunLifecycleStaleInput` it so puts back: the id of an upload's task over the
  COMPLETED of that task, which the next poll completes without a checksum (the
  exception in `CompletedHasChecksum`); the id of a task that could not be sent, over
  the FAILED of its request, where it stays (the exception in `UploadEnds`); an
  upload over the one that replaced it; and the street edits over a removal that was
  answered meanwhile (the exception in `FinishedRemovalsStay`).
- `adopt_stored_download` writes the whole column it had loaded, with the checksum of
  what it has pulled since, over an upload or a deletion of the meantime.
- A reset clears `celery_task_id` unconditionally after it has released the row,
  so a run queued in between cannot be revoked; a cancel that loaded no task id,
  or an older one, ends the row but not the worker; an upload writes its task id
  into a row that has started to run.
- A download page opened while a reset is at work raises a PENDING job to stage
  5, which a comment in `layout.py` reserves for completed jobs. The link of the
  job table copes (`ResumeOpensAStepReached`).
- When another tab deletes the membership, the row says PENDING, which both
  polls show as still running and poll for good.
- A predictor that is being checked while another tab deletes the membership is
  written into a row without one.
- On the street page the buttons *Clear all* and *Keep largest* are enabled by
  the layout only, so the first removal of a fresh page cannot be cleared until
  the page is opened again.
- Two clicks in quick succession load the same intent, and the later write drops
  the earlier edit; a click that loaded the job before another tab's upload
  writes the old network's edits into the new one's row.
- The query of the download matches highway values by an unanchored regular
  expression (`osm/source.py`), so values no road type of the page maps to can be
  in the download, and are never offered.

## 6 What is not modelled

- *The framework.* `cosmo_ecosystem` (conditional updates, transfers, the sweep,
  the nightly cleanup) and Celery are environment, modelled from their use.
- *Job deletion and cleanup.* `delete` is one call of the framework, which also
  owns the nightly cleanup and the expiry rule. What the framework's column
  writes do to a job whose row is gone, and whether its cleanup looks at the
  status, cannot be read from the repository, and the hazard (files recreated by
  a run or an upload whose job was deleted) is just that.
- *Adoption of edits of earlier versions* (`adopt_legacy_edits`): a migration of
  `street_edits.json` into the row that runs once per old job. The adoption of a
  stored download's checksum is modelled (`UploadPipeline`).
- *Computation.* The route pipeline, rasters, classification plots and coordinate
  transforms are single steps that succeed or fail; a network's roads are nodes,
  not coordinates.
- *The browser's own components.* The viewport's choice of streets, marks and
  dimming are kept by external map components; modals, toggles, tooltips and form
  validation change nothing outside the tab.
- *Pure I/O and views.* Mail transport, log and worker pages, documentation and
  screenshots, QR codes, presigned addresses, the zip of the work dir,
  configuration.

## 7 Plan

Done: the modules of section 2, and a theorem for every safety property they
check but the three of `StreetNetwork`. What is left, in this order:

1. `StreetNetwork` for any requests on a shared disk: what does hold there of a file
   that looks current, once the interleavings of `StreetNetworkShared` are set apart
   by a history of who rewrote it, as `revived` does for the upload's column; and
   the upload task's transfers as steps of their own.
2. `OsmDownload` for a writer that overlaps the one it replaces, stated for the
   file names a fix would use.
3. The operators of `RoadNetwork` that no theorem mentions yet: that `Derive` of
   its own result changes nothing, and that filters commute with removals.
4. Uncovered hazards of `PROJECT.json`: job deletion, once the framework's
   behaviour is known.
