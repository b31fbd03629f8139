# Verification of the ETSI catalogue

TLA+ models of `modeling/etsicatalog`, the catalogue of ONAP that stores NS, VNF and
PNF packages and serves them over the ETSI SOL005 and SOL003 interfaces, with the TLC
runs that check them and the theorems TLAPS proves about them. Paths below are relative
to `src/catalog`.

## 1. The system

The catalogue is a Django application. uwsgi runs it in four processes with threads
(`run.sh`), on one MySQL database and one directory tree, `CATALOG_ROOT_PATH`, with a
directory per package. There is no lock and no transaction: Django autocommits, so every
query stands alone, and the handlers of all processes interleave between any two queries or
file operations. Work that takes long goes on in a thread after its request was answered.
Only the database and the files survive a restart: a thread that dies is recorded nowhere.

| Component | State it keeps | Operations | Talks to |
|---|---|---|---|
| VNF packages (SOL005), `packages/biz/vnf_package.py`, `views/vnf_package_views.py` | `CATALOG_VNFPACKAGE`: onboarding, operational and usage state, vnfdId, path; archive and `VNFD.zip` on disk | create, upload, upload from URI (a thread), query, delete, download of package, VNFD, artifacts | parser, NSD table (on delete), notifications |
| NSDs (SOL005), `biz/ns_descriptor.py` | `CATALOG_NSPACKAGE`, archive on disk | create, update, upload, query, delete, download | parser, VNF and PNF package tables, notifications |
| PNFDs (SOL005), `biz/pnf_descriptor.py` | `CATALOG_PNFPACKAGE`, archive on disk | create, update, upload, query, delete, download | parser, NSD table (on delete), notifications |
| Service descriptors, `biz/service_descriptor.py` | `CATALOG_SERVICEPACKAGE` | create, parse and save, delete | parser |
| VNF packages from SDC, `biz/sdc_vnf_package.py` | the VNF rows and directories; jobs | distribute and delete, each a thread | SDC, parser, jobs, notifications |
| NS packages from SDC, `biz/sdc_ns_package.py` | the NS rows and directories | distribute, delete (synchronous) | SDC, parser, VNF and PNF tables |
| Service packages from SDC, `biz/sdc_service_package.py` | the service rows and directories | distribute, delete, parse | SDC, parser |
| Jobs, `pub/utils/jobutil.py`, `jobs/` | `CATALOG_JOB`, `CATALOG_JOB_STATUS` | create, add status (thread), query by response id, add status (REST) | - |
| Subscriptions, `biz/vnf_pkg_subscription.py`, `biz/nsdm_subscription.py` | subscription tables, filters | create (tests the callback), query, terminate | callback URIs |
| Notifications, `biz/notificationsutil.py` | none | build, select the subscribers, post to each | the package and subscription tables |
| SDC controller, `pub/msapi/sdc_controller.py` | none of its own (DMaaP offsets) | poll a batch of notifications, process each | SDC, DMaaP, NS and service packages |
| TOSCA parser, `pub/utils/toscaparser/` | none | archive to JSON model | toscaparser library |
| Serializers, views, middleware, Swagger, health check | none | shape and validate | - |

What makes the system hard is in what it does not serialise:

* **checks and writes apart**: vnfdId, nsdId and pnfdId are unique only by a query that
  precedes the write; the same goes for subscriptions, and for the NSDs that refer to the
  package being deleted;
* **rows and files apart**: a package is a row and a directory, written and removed in
  separate steps by handlers that may overlap;
* **threads with no supervisor**: every exception must bring the package, or the job, to an
  end by itself; a killed thread does not, nor does one whose `except` clause raises;
* **calls with no timeout**: POSTs to subscribers, the fetch of a URI and the requests to SDC
  hold a handler for as long as the partner likes;
* **stale copies**: `VNFD.zip` is a cache that nothing invalidates; a job row is read,
  changed and written back whole;
* **batches and streams**: a notification that fails takes the rest of its batch along;
  file ranges are read from an offset that may lie beyond the end.

The properties that make each component correct:

* *VNF packages*: what is listed as on-boarded can be served, and with the archive its row
  was read from; uploads end; a deleted package stays deleted; a vnfdId names one package.
* *SDC distribution*: the last report on a job tells the truth about the package; a job
  makes one final report; a failure leaves nothing behind, and nothing of another's work
  is removed; a service is distributed after its VFs.
* *NSD and PNFD*: the same life cycle, and references from an NSD to packages that exist.
* *Jobs*: status indexes have no gap and grow with what was read; a job is finished only when
  a final status is there, and set back only by calls that overlap.
* *Subscriptions*: one subscription per callback and filter; a notification goes to the
  subscribers whose filter it meets. The code falls short of the second: see section 3.
* *Parser*: the lists of a model agree with one another; names lead to nodes that exist.

`PROJECT.json` lists the hazards at the lines where they bite, with the property that
covers each, or why none does.

## 2. The modules

| Module | Models | Uses |
|---|---|---|
| `PackageCatalogue` | the promise: atomic create, on-board, withdraw and delete | |
| `PackageStore` | the table `CATALOG_VNFPACKAGE` and the package directories, shared by the two below | |
| `VnfPackage` | the SOL005 handlers of VNF packages and the upload-from-URI thread | `PackageStore`, `PackageCatalogue` |
| `VnfDistribution` | the SDC distribution and deletion threads and their reports | `PackageStore` |
| `JobReports` | the promise of a job: a report is put down in one step and shown in one, or never | |
| `JobStatus` | one job: `create_job`, the queries of `add_job_status`, the REST view of jobs | `JobReports` |
| `Descriptors` | the SOL005 handlers of NSDs and PNFDs, and what they and the VNF packages ask of each other | |
| `SdcDistribution` | NS and service packages from SDC, and the controller that polls for them | |
| `Subscriptions` | subscriptions of both kinds, and the notifications of all handlers | |
| `ToscaParser` | what a template is parsed to: the models of VNFDs, in two versions, and of NSDs | |
| `MC` and the name of a module | the instances for TLC | the module |
| a module's name and `Proofs` | theorems and proofs | the module, TLAPS |
| `VnfPackageSerialProofs` | theorems of `VnfPackage` for handlers that take turns | `VnfPackageProofs` |

Definitions that begin with the comment *Faulty* are the variants of an action a plausible
mistake would give. They are part of no specification: each exists to confirm that a
property notices it.

### State

`row[p]` is the row of package `p`: its onboarding state, operational state, vnfdId and
file. Two states stand for no row: `UNBORN` (the identifier was not handed out yet) and
`GONE` (deleted); they are told apart so that a property can say that nothing comes back.
`disk[p][f]` is what the file `f` in the directory of `p` contains, as far as the program
can tell: the VNFD that parsing it gives, `Broken` when parsing raises, `None` when there
is no such file. `zip[p]` is the VNFD that `VNFD.zip` was made of. Usage state, checksum,
provider and versions are read by no step and left out. An archive and the vendor package
inside it count as one file.

### Handlers (`VnfPackage`)

A worker is a handler or a thread under way: `pc[w]` names its next step, `req[w]` holds
what its request brought and what it has read for later. One action is one query or one
file operation, in the order of the code:

| Code | Actions |
|---|---|
| `create_vnf_pkg` | `CreateVnfPkg` |
| `upload`, `parse_vnfd_and_save` | `Upload` (state UPLOADING), `Save`, `Process`, `ParseVnfd`, `CheckOtherPkg`, `Commit`, `NotifyOnboarded` |
| `handle_upload_failed` (view) | `HandleUploadFailed`, and `RefuseUpload` for a request refused before it began |
| `VnfPkgUploadThread.run` | `UploadFromUri`, `UriMark`, `UriAnnounce`, `UriUnreachable`, `UriRefused` or `UriFetch`, then as an upload; `UriFailRead`, `UriReset` |
| `delete_vnf_pkg` | `DeleteVnfPkg`, `DelInspect`, `DelRow`, `DelAnnounce`, `DelDir` |
| `download_vnfd`, `creat_vnfd` | `DownloadVnfd`, `VnfdPath`, `VnfdZip`, `VnfdWrite` |
| a process that is killed | `Crash` |

`lost[p]` is history: why a handler of `p` stopped half-way, because it was killed or, in
`UriRefused`, because its `except` clause raised: an `HTTPError` has no arguments, and the
clause reads `e.args[0]` first (`vnf_package.py:243`).

Points where the model follows the code and a reader may not expect it: `upload` asks for
no state, because its check is commented out; a state is set by an `update` that does
nothing when the row is gone; what is parsed is what the file holds by then, which another
upload may have replaced; only the first holder of a vnfdId is compared with the package;
a delete takes the row first and the files last. Whether a stored NSD refers to the VNFD
is a choice here, since `Descriptors` has the NSDs (an NSD without the key that the scan reads
makes the delete fail as a reference does). A `VNFD.zip` that could not be written may stay behind in part,
because the clean-up of `creat_vnfd` tests the wrong name. `RefuseUpload` also stands for a
`PUT` without a file part, which ends in the same call. `UriBodyIsText` says what
`urlopen(...).read()` returns: FALSE is urllib, TRUE is the stub of the unit tests.

### Threads (`VnfDistribution`)

`job[j]` is a job with its thread: the next step, the csar, the VNFD parsed and the
progress values reported so far (`add_job_status`). `Distribute` and `DeleteCsar` are the
two views, which answer with a job id and start the thread. `CreateDistribution`,
`CheckExists`, `Download`, `CreateVnfdZip`, `ParseVnfd`, `CheckVnfdId`, `SaveRow`,
`ReportDistributed`, `NotifyOnboarded` are `on_distribute` in its order; `Fail` is an
exception of it that has arguments and leads to `RollbackRow`, `RollbackDir` and
`ReportFailed`; `ParseAborts` is one that has none, after which nothing is taken back and
nothing reported (`sdc_vnf_package.py:122`);
`CreateDeletion`, `NotifyDeleted`, `DeleteRow`, `DeleteDir`, `ReportDeleted` are
`delete_csar`. `Kill` is the death of the process. A csar id is chosen by the client, so
threads may meet on one package, and a csar may be distributed again after a deletion.
Three history variables serve the properties only: the packages two threads worked on at
once, those one of whose threads stopped half-way (`lost`), and the latest job of each.

A report is one step with the query before it, except where the order of the two is what a
property is about (`SaveRow` and `ReportDistributed`, the deletion of the files and its
final report, rollback and error report).

### Reports (`JobStatus`)

In `VnfDistribution` a report is one step, because only its thread writes to a job there.
`JobStatus` opens that step, for one job. `job` is its row of `CATALOG_JOB`, `statuses` its
rows of `CATALOG_JOB_STATUS` in the order they were saved, `call[w]` the call of
`add_job_status` that the thread or a client is in. `FindJob` reads the job row, which the
call keeps; `ReadIndex` works out the next index; `SaveStatus` and `SaveJob` save the two
rows, the second from the copy that was read. `Post` is the REST view, which looks at the
latest status first, and `Report` the thread's next report, of a larger progress.
`FindFails`, `QueryFails` and `Kill` are a query that fails outside and inside the `try`,
and a thread that dies. `seen`, in a status, is history: the number of statuses there were
when its index was worked out; `stale` is history too: the callers whose copy of the job row
another call has outdated. `JobReports` is the abstract specification, which holds of calls
that overlap and fail: `SaveStatus` puts a report down, under an index that leaves no gap;
`SaveJob` shows one that is put down, and then no more; a call that ends earlier drops its
report. Two reports may have one index there, and a report may set a finished job back or
follow a 255: the code does all that, and no document promises otherwise.

### References (`Descriptors`)

`state`, `key` and `refs` are the columns of NSDs and PNFDs that a step reads, and of the
VNF packages as NSDs see them; `refs[n]` is the set of VNF and PNF nodes in the `nsdModel`
column, each with the two properties that name a descriptor. Workers are as in `VnfPackage`.

| Code | Actions |
|---|---|
| NSD `create`, `upload`, `parse_nsd_and_save` | `CreateNsd`, `UploadNsd`, `ProcessNsd`, `ParseNsd` (with the check of the nsdId) or `ParseFails`, `LookUpVnf` and `LookUpPnf` per reference, `CommitNsd` |
| PNFD `create`, `upload`, `parse_pnfd_and_save` | `CreatePnfd`, `UploadPnfd`, `ProcessPnfd`, `ParsePnfd`, `CommitPnfd` |
| `handle_upload_failed` | `NsdUploadFailed`, `PnfdUploadFailed`; `RefuseNsd`, `RefusePnfd` before an upload began |
| the three deletes | `DeleteNsd`; `DeletePnfd`, `ScanForPnfd`, `DelPnfdRow`; `DeleteVnf`, `ScanForVnf`, `DelVnfRow`; `NfPkgDelete` is SDC's, which scans nothing |
| on-boarding of VNF packages, for which see `VnfPackage` | `VnfOnboarded` |

The uploads look a reference up by `descriptor_id`, or by `id` when there is none. The
scan for a VNF insists on `descriptor_id`, the one for a PNF on `id`. The history `since[w]`
collects what was written or deleted after `w` read it: a property then says that
something goes wrong *only* through such a race, which is what the code can promise.

### Services and notifications from SDC (`SdcDistribution`)

`row[k][c]` is the row of csar `c` as an NS or a service package, `dir[c]` the one directory
for both, `vf` the VF resources that have a VNF package. HTTP handlers and polling jobs are
workers; `batch[j]`, `todo[j]` and `ended[j]` are the notifications a job has in hand, the
threads it waits for and how they ended. `NsCheck` and `ServiceCheck`, `DownloadArtifacts`,
`Create`, `Process`, `ParseAndSave` are the distributions, `NsUndo` and `ServiceUndo` their
`except` clauses, `DeleteSingle` and `DeleteDirs` the deletions, row first.
`RunController` is `run()`, `FetchNotification` the poll, `BuildCallbackNotification`,
`ProcessNotification`, `NfDistribute` and `Join` one notification: a thread per VF
that has no row, then the NS. `DropBatch` is an exception that leaves the loop. A VF is
distributed in one step, of which `VnfDistribution` has the parts, with each end that the
latest status may tell of (`Ends`): an error; "under way", when the error was not saved or
its thread ended in its `except` clause; or nothing that can be read. `VfChanges` is what
others do to VFs, other polling jobs included. Threads, downloads and posts may never end.

### Subscribers (`Subscriptions`)

`subs` holds what was saved under each id, of either API; `live` the ids whose row is there.
A creation is `CreateSubscription` (with the check of the callback and of an NSD filter),
`CheckValid`, `SaveDb`. A notification begins with an event, one for each place in the code
that notifies (`VnfOnboarded`, `VnfFromUri`, `VnfDeleted`, `VnfDeletedBySdc`, `NsdOnboarding`,
`NsdDeletion`, `PnfdOnboarding`, `PnfdDeletion`, `PnfdFailure`); `PkgNotifications` reads the
vnfdId again, `SendNotification` selects the subscribers, `PostNotification` posts to one,
without a timeout: it may never be taken. `Meets` is what the serializers say of a filter, types
included; `due` and `served` are history: the subscriptions whose filter the event meets, by
what the resource is or was before a deletion, and those posted to.

### Templates (`ToscaParser`)

The parser has no state. A behaviour of the module is a designer at work: `AddNode`,
`AddRequirement` and the like write a template entry by entry, so that the reachable states
are all templates within the bounds, and invariants compare operators that are named for the
methods of `basemodel.py`, the VNFD parsers, `nsdmodel.py` and
`servicemodel.py`. `Failed` is a parse that raises. A list that a parser makes by
going through requirements is given by their *places* `<<i, k>>` (the k-th requirement of
the i-th node, `At`), in the order of the template; of the names it shows,
`GetRequirementNodeName` is the name at a place. A node type declares its requirements with
relationships (`Relationship`); those in `Relations` make edges of the deploy graph, and a
requirement that is not declared makes the parse raise (`Declared`). `Raises251` stands for
properties that only the parser of version 2.5.1 insists on.

### Assumptions

* A query of the database is atomic and immediately visible. It does not fail, except in
  `JobStatus`, whose code catches the failure.
* Removing a directory and writing `VNFD.zip` each take one step and the first does not
  fail (`delete_dirs` logs and swallows the exception). Writing an archive may fail, and
  then leaves the old file, or a part of the new one.
* Sending a notification changes no state of the catalogue: `post_notification` swallows
  every exception. The sends are steps, because of their places in the order.
* A client sees of a package its VNFD, once it is on-boarded, or one of three words for a
  package that is not (`Shown`, tagged so that no VNFD is taken for a word). This is the
  refinement mapping to `PackageCatalogue`.
* Process death is the death of one worker at a time; several such steps make up the death
  of a process with several.

## 3. The runs

| Run | Instance | Question and result |
|---|---|---|
| `vnf_package_concurrent` | 1 package, 1 VNFD, 2 file names, 2 workers, crashes | Whatever two handlers do at once: an ONBOARDED package is served (`OnboardedIsServable`), an upload in progress is attended to unless a handler stopped half-way (`UploadIsAttended`), uploads settle if partners answer (`UploadSettles`), deleted stays deleted (`DeletedStaysDeleted`). Holds. |
| `vnf_package_serial` | 2 packages, 2 VNFDs, 1 file name, 2 workers, crashes | Handlers that take turns at a package, and at a VNFD from its check to the update (`TakeTurns`), implement `PackageCatalogue` (`ImplementsCatalogue`), vnfdId is unique (`VnfdIdUnique`) and the archive is that of the row (`OnboardedMatchesArchive`). Holds. |
| `vnf_distribution` | 2 csars, 2 VNFDs, 2 jobs at a time, threads of one csar that stop half-way | The last report is true (`ReportIsTrue`), final (`ReportsAreFinal`) and comes if partners answer (`JobEnds`); a listed package has its archive (`ListedIsServable`). Holds. |
| `job_status` | a thread and 2 clients, 2 progress values, no POST after 2 statuses, failures | However the calls interleave and fail, the indexes have no gap (`NoGap`), a status that a call had read has a smaller index (`LaterIsLarger`), the job is not ahead of its statuses (`JobIsReported`), is set back by overlapping calls only (`FinishLostIsARace`), and the queries implement `JobReports` (`ImplementsReports`). Holds. |
| `descriptors` | 2 NSDs, 1 PNFD, 1 VNF package, 2 handlers, one of them killed | Uploads are attended to (`UploadIsAttended`), an NSD about to be on-boarded refers to packages (`LookedUpNsdResolves`); a delete cuts a reference (`DeleteSparesReferences`), and two rows hold one identifier (`KeyClashIsARace`), only through a race or the cases these name. Holds. |
| `sdc_distribution` | 1 service of 2 VFs, 2 notifications, 1 handler, 1 polling job | What a failure takes away was made since the distribution began (`RollbackSparesOthers`), an on-boarded package has its files (`OnboardedHasFiles`), and the VFs come before the NS, except one whose failure is not its latest status (`VfsBeforeNs`). Holds. |
| `subscriptions` | 1 resource of each kind, 3 filters, 2 subscriptions, 2 handlers, crashes | Equal subscriptions come of races only (`DuplicateIsARace`), a notification reaches the subscribers whose filter the event meets, but for four kinds of them (`SubscribersAreServed`). Holds. |
| `tosca_parser` | all templates of 3 nodes and 2 entries | The lists of a model agree with each other and the deploy graph (`BindingsAgree`), names lead to nodes (`LinksResolve`). Holds, with the exceptions the comments name. |
| `vnfd_id_race` | 2 packages, 2 workers | `VnfdIdUnique` fails when two uploads overlap. |
| `stale_vnfd_zip` | 1 package, 2 VNFDs, 1 worker | `VnfdZipIsCurrent` fails: the cached `VNFD.zip` outlives its archive. |
| `distribution_rollback` | 1 csar, 2 jobs | `OnlyDeletionRemoves` fails: the rollback of one distribution removes the package another one reported as distributed. |
| `uri_http_error` | 1 package, 1 worker | `FailedFetchIsReset` fails: a URI that is answered with an HTTP error leaves the package in UPLOADING. |

The last four are findings; `PROJECT.json` quotes the lines they contradict.

**Why the bounds are enough to be of use.** Handlers of different packages meet only in the
check of the vnfdId, so the concurrent run, which is about the row and the files of a
package, needs one package; two file names let two uploads of it write different files or
the same. The properties of that run compare no two VNFDs, so one, beside `Broken`, is
enough. Two workers cover every pair of operations at every interleaving; no
operation waits for another, so a third adds overlaps but no new kind of step (the
theorems below do not bound the number). The serial run has two packages and two VNFDs
because uniqueness and the match of archive and row compare them; states in which handlers do
not take turns are not explored further (`TakeTurns` is its constraint), packages, VNFDs and
workers are symmetric, and `SansHistory` leaves out `lost`, which no step reads. In `vnf_distribution` two
threads at a time are enough for any two csars to be at work together and for two to meet
on one; a slot is reused, so the run holds any sequence of jobs, whose older reports are
forgotten. `Quiet` in `MCVnfDistribution` stops exploring a behaviour once two threads met
on a package or threads of two packages stopped half-way: `ReportIsTrue` and `ListedIsServable`
promise nothing for a contended package, and `distribution_rollback` shows why.
In `job_status` three callers are one more than a race needs: the third finds what two made of
the indexes. `MaxStatuses` ends the POSTs at two statuses, and `FewReports` the exploration at
four, with those of calls under way: enough for an old index and an old job row to be saved
over newer ones. The clients are alike, and the run has no liveness, so they are a symmetry
set.
In `descriptors` a race is one upload and one delete, or two uploads; `MaxSent` allows four,
so that a row may be on-boarded, uploaded again and deleted around another's check. The three
archives name a VNF by both names and a PNF by `id`, a PNF by `descriptor_id` alone, and
nothing, without an nsdId. NSDs are alike and workers are alike, and the run has no liveness. In
`sdc_distribution` the handler meets the job on the one csar, as NS or as service; two
notifications make a batch that one can fail for the other, or two batches. APScheduler
runs several polling jobs at once (`max_instances`): here `VfChanges` and the handler stand
for what a second one would do to the first, and the theorems have any number. In
`subscriptions` `MaxSent` is three creations or events: two subscriptions can race, and an
event can follow and overtake either. The filters meet each kind of event, one of
them names the two identifiers an NSD filter may not have at once. In `tosca_parser` a node
bound to two others, or a chain from point to link, takes three nodes and two requirements; a
node that lacks a property of version 2.5.1 makes that parse fail whatever else there is, so
that such a template has no second entry (`ShortIfIncomplete`).

**Fairness.** Only `VnfPackage` and `VnfDistribution` state fairness, `WF_vars(OwnStep(w))`:
a thread of the operating system that can make a query or a file operation of its own makes
it; nothing waits for a lock. The steps that wait for a partner (`OutsideStep`: the fetch of
a URI or of an archive of SDC, the posts to subscribers) are under no fairness, since none of
these calls has a timeout and they may never return. `UploadSettles` and `JobEnds` say so:
their premise is that such waits for the package, or of the job, end (`[]<>~Waits`). Clients
owe no request, crashes need not happen, and no step is owed success: both hold on failure
paths too, except for packages and jobs of which a handler stopped half-way. The other
modules have no liveness: the controller, the senders of notifications and the callers of
`add_job_status` wait for partners, or owe nothing, and no document promises when they end.
Deadlock is checked in every run of the packages: some request is always possible, if only
a refused one for a package that is gone. A job comes to rest once its thread is done and
nobody posts, so the run of `JobStatus` does not check it.

**What a reader should know of the results.** With `UriBodyIsText` TRUE, which urllib never
gives, an upload from a URI that fails after PROCESSING would stay there: the thread's
handler resets UPLOADING only (`vnf_package.py:233`). As it is, `read()` yields bytes,
writing them to a file opened as text (`vnf_package.py:262`) raises a TypeError, and every
upload from a URI fails before PROCESSING: repairing the one brings out the other. A request
to upload from a URI whose body is refused resets the package to CREATED
(`vnf_package_views.py:196`), an ONBOARDED one included; no document says what should become
of it. `OnboardedMatchesArchive` holds only while no two handlers work on one package, `VnfdIdUnique` only
without the race of `vnfd_id_race`.
`DeleteSparesReferences` allows for more than races: a PNF whose two names differ is looked
up by one and scanned for by the other; a reference by package id is not scanned for at all;
and `NfPkgDelete`, SDC's delete of a VNF package, is no step it speaks of, because it scans
nothing. `LinksResolve` leaves out requirements in their short form (`name: node`), which
`build_requirements` does not check against the nodes. Two more
things are modelled as the code has them: `sdc_ns_package.py:157` compares the *method* `upper` with
`'VF'`, so that the check that VFs were distributed is never made; a failure of `run()` in
`sdc_controller.py:51` leaves the controller without a job for good. Callers of
`add_job_status` that overlap may give two statuses one index, and one that saves an old job
row takes a finished job back to PROCESSING for good (`FinishLostIsARace`); a POST may follow a
255 that it did not see. `SubscribersAreServed` names the four kinds of subscribers passed over:
those with an authentication other than BASIC, those that name no resource, and, of those that
name a vnfdId or the like only, the ones of notifications without it (a delete of
a VNF package or an NSD) and the ones whose vnfdId changed since. In the other direction,
`notificationTypes` and states of a filter are stored and never looked at, though the serializers say
that they match (`vnf_pkg_notifications.py:78`, `nsdm_filter_data.py:26`): a subscriber to one type is
sent all, so the property asks of those posted to only that they name what is notified.
`VfsBeforeNs` leaves out a VF whose thread failed without an error as its latest status:
the controller takes it for distributed (`sdc_controller.py:225`). No document
promises otherwise in these cases, so that they are hazards and not findings. Note also that a thread that
fails reports 255 as its *progress* with an error code of 1, 2, 3 or 0, and that the view
refuses POSTs after the *code* 255 only: clients may go on posting to a distribution that
failed. A GET is no step: it lists every status, because the view looks the query parameter
`responseId` up in `request.META` (`jobs/views.py:54`), where it never is.

## 4. The proofs

TLAPS checks, for any sets of packages, VNFDs, files, workers and jobs, and for templates of
any size:

| Theorem | States |
|---|---|
| `VnfPackageProofs!WellTyped` | `Spec => []TypeOK` |
| `VnfPackageProofs!Servable` | `Spec => []OnboardedIsServable` |
| `VnfPackageProofs!DeletedForGood` | `Spec => DeletedStaysDeleted` |
| `VnfPackageProofs!Attended` | `Spec => []UploadIsAttended`, if `UriBodyIsText` is FALSE |
| `VnfPackageSerialProofs!VnfdHeldOnce` | `Spec /\ []ChecksApart => []VnfdIdUnique` |
| `VnfPackageSerialProofs!ArchiveIsTheOneRead` | `Spec /\ []Apart => []OnboardedMatchesArchive` |
| `VnfPackageSerialProofs!TurnsRefinement` | `Spec /\ []TakeTurns => ImplementsCatalogue` |
| `VnfDistributionProofs!WellTyped` | `Spec => []TypeOK` |
| `VnfDistributionProofs!FinalReports` | `Spec => []ReportsAreFinal` |
| `VnfDistributionProofs!AlwaysServable` | `Spec => []ListedIsServable` |
| `VnfDistributionProofs!TrueReports` | `Spec => []ReportIsTrue` |
| `JobStatusProofs!JobTypes` | `Spec => []TypeOK` |
| `JobStatusProofs!IndexesHaveNoGap` | `Spec => []NoGap` |
| `JobStatusProofs!OrderOfIndexes` | `Spec => []LaterIsLarger` |
| `JobStatusProofs!JobNotAhead` | `Spec => []JobIsReported` |
| `JobStatusProofs!SetBackByRacesOnly` | `Spec => FinishLostIsARace` |
| `JobStatusProofs!ReportsRefinement` | `Spec => ImplementsReports` |
| `DescriptorsProofs!Inductive` | `Spec => []IInv` |
| `DescriptorsProofs!TypeCorrect` | `Spec => []TypeOK` |
| `DescriptorsProofs!UploadsAreAttended` | `Spec => []UploadIsAttended` |
| `DescriptorsProofs!LookUpsResolve` | `Spec => []LookedUpNsdResolves` |
| `DescriptorsProofs!DeletesSpareReferences` | `Spec => DeleteSparesReferences` |
| `DescriptorsProofs!KeyClashesAreRaces` | `Spec => KeyClashIsARace` |
| `SdcDistributionProofs!Inductive` | `Spec => []IInv` |
| `SdcDistributionProofs!TypeCorrect` | `Spec => []TypeOK` |
| `SdcDistributionProofs!RollbacksSpareOthers` | `Spec => []RollbackSparesOthers` |
| `SdcDistributionProofs!OnboardedHaveFiles` | `Spec => []OnboardedHasFiles` |
| `SdcDistributionProofs!VfsComeFirst` | `Spec => []VfsBeforeNs` |
| `SubscriptionsProofs!Inductive` | `Spec => []IInv` |
| `SubscriptionsProofs!TypeCorrect` | `Spec => []TypeOK` |
| `SubscriptionsProofs!DuplicatesAreRaces` | `Spec => DuplicateIsARace` |
| `SubscriptionsProofs!EventsAreServed` | `Spec => SubscribersAreServed` |
| `ToscaParserProofs!TypeCorrect` | `Spec => []TypeOK` |
| `ToscaParserProofs!ListsAgree` | `Spec => []BindingsAgree` |
| `ToscaParserProofs!LinksAreResolved` | `Spec => []LinksResolve` |

They rest on the assumptions of the modules alone: `ValuesAssumption` (None and Broken are no
VNFD, None is no file), `UriBodyAssumption`, `CsarAssumption`, `JobAssumption`,
`ResourceAssumption` and `IdsAssumption` (identifiers of different kinds differ),
`ArchiveAssumption`, `FiltersAssumption` and `SdcAssumption` (constants have their types),
`TypesAssumption` (types derive from types, each has its relationship, and `virtual_binding`
names a binding), the two named `NoneAssumption` (None is no job and nothing shown of one; no
number and no identifier of a VNFD), and the two named `BoundAssumption`. Where a theorem asks
for more, the table says so. What three of them ask is how requests overlap: no two handlers
are at work on one package (`Apart`), or no two are between check and update for one VNFD
(`ChecksApart`), or both (`TakeTurns`). Handlers of different packages go on at the same time,
fail and are killed. The code does not see to any of this, so that these theorems say which
overlaps do the harm, and no other does; `vnfd_id_race` is the one that `ChecksApart` names.

*Servable.* An ONBOARDED row has its file on disk because `Commit` follows `Save`; but
between the two another handler may delete the directory. What saves the property is that a
directory is removed only after its row, and a row never comes back. The invariant therefore
says what each handler knows (`WorkerOK`): past `saving`, the file it was given is on disk or
the package is gone for good; past `del_row`, the package is gone.

*Attended.* The states of overlapping uploads overwrite each other, so one cannot follow a
state to the handler that wrote it. `UploadIsAttended` is inductive all the same, once it is
known that only the handler of a PUT gets past `saving` (`OnlyPut`): its failure path resets
any state, while that of the thread resets UPLOADING only. `StillAttends` and `AttendsNew`
say what a step owes: the worker goes on attending to a package or takes it out of the
state, and whoever puts a package in progress attends to it. The packages in `lost` are left out: one of
their handlers was killed, or their URI was answered with an HTTP error, an exception without
arguments, of which `run()` cannot take the first (`vnf_package.py:243`).

*VnfdHeldOnce*, *ArchiveIsTheOneRead.* A query that precedes the write it guards is right as
long as what was read still holds at the write. `CheckHolds` says it of the vnfdId: at
`committing`, no other package has it. This follows from a look at *one* holder only
(`CheckOtherPkg`) because there is at most one, which is the invariant itself (`VnfdInv`): the
two need each other. Only `Commit` makes a row hold a VNFD it did not hold, so that every other
step, of whatever package, is `NoVnfdTaken`, and `ChecksApart` is used for `Commit` alone.
`StillHolds` says it of the archive: from `saving` to `committing` a worker's package is not
ONBOARDED, so that its files may change, and from `checking` on, the file holds the VNFD that
was parsed. Handlers of other packages do not touch either (`ArchiveInv`).

*TurnsRefinement.* `CreateVnfPkg` is the creation of the catalogue, `Commit` its on-boarding,
`DelRow` its deletion, and the update that puts an ONBOARDED package back in UPLOADING or
CREATED its withdrawal; every other step leaves what is shown as it is. That `Commit` may
on-board the VNFD, which the catalogue allows of an empty package and if no other has it, is
`ArchiveInv` and `VnfdInv`; that what is withdrawn is a VNFD, is the invariant of *Servable*.

*FinalReports.* `LogOK` gives the reports a thread has made by each of its steps; the
theorem is a look at the few sequences that arise.

*AlwaysServable* and *TrueReports.* For a package that is not contended, `Alone` says that
the one thread at work on it is that of its latest job; `Knows` says what this thread may
rely on at each step (no row from `CheckExists` to `SaveRow`, the archive it parsed from
there on, nothing left after a rollback); `AtRest` and `Leaves` say what a finished one has
left. A step of a thread touches its own package only (`Keeps`), so each action is
considered for that package, and `OtherPkg` carries the rest over. Without `Alone`, the
facts of `Knows` would not survive the steps of others: `distribution_rollback` is that
case.

*IndexesHaveNoGap*, *OrderOfIndexes* and *JobNotAhead.* A call acts on what it read, which
may be old. `KnowsIndex` says what stays true of an index that was worked out: it is an
index in use or the next one, so that saving it leaves no gap, and it exceeds every index
the call had seen. `KnowsJob` says that a job row read as finished had its final status by
then, and `HasSaved` that the progress a call puts into the job is that of a status. That
the next index is a number at all, since it is the largest of a set, depends on there
being no gap (`NextIndexIs`), which is why types are part of the same induction.

*SetBackByRacesOnly.* `RowInv`: the job row that a call has read is the one that is there,
unless another call saved the job since, which puts it into `stale`.

*ReportsRefinement.* `JobReports` lets callers put a report down, show it later, or drop it.
`SaveStatus` puts it down, `SaveJob` shows it, and a call that fails or is killed between the
two drops it. What is shown is that of a report still pending: `UpdateInv` says of a call about
to save the job that its status, with the progress it will show, is the last it saved. The
indexes of the abstract reports depend on there being no gap (`JobInv`), and that the thread's
progress exceeds all it has reported is `ThreadInv`, which holds of calls that overlap or fail.

*LookUpsResolve*, *DeletesSpareReferences*, *KeyClashesAreRaces.* `HandlerOK` says what each
handler knows and has not been told otherwise by `since`: a reference it is done with leads
to a package (`FoundOK`), nobody else holds its identifier (`UniqueOK`), no NSD names the
package it is about to delete (`ScanOK`). Every step that could make this false writes to
or deletes a resource, and that puts the resource into `since` of the others. The action
properties follow for the one step that commits. *UploadsAreAttended* is inductive by itself.

*RollbacksSpareOthers*, *VfsComeFirst.* The same idea with `fresh`: a distribution that has found
no package and finds one later knows that it was made since (`UndoOK`); the VFs of a service
have a thread to come, or a row, or had one that is gone since, or a thread of theirs left its
end for the job to read (`Seen`). Once the job has read the ends and found no error, what is
left of the last are the threads whose latest status was no error (`Heeded`, `VfsOK`).

*OnboardedHaveFiles.* `FilesOK` says of a csar that is not `crowded` that one worker at most
is about it, that it has one row at most, and the row, if any, is of the kind the worker is
about; a worker about to remove the directory has removed the row.

*DuplicatesAreRaces*, *EventsAreServed.* `SavingOK`: a handler about to save knows of every like
subscription that it was saved since its search. `DueOK` and `DescOK`: a handler that posts
has left to do, or has posted to, each subscription due, unless it was deleted, wants an
authentication the code leaves to do, or is `Missed`: it names nothing, or only a vnfdId that
the notification does not tell or that changed under the handler.

*ListsAgree*, *LinksAreResolved.* Here the invariant is small (`WellFormed`: a
template is one) and each property is a fact about operators. What a connection point shows
is the first of some requirements, so it is that of *one* of them (`FirstIsOne`), which was
kept (`ByNameIs`); what was kept names a node that is there, or is in short form
(`KeptIsResolved`), and is an edge of the graph if the relationship of its type counts
(`KeptIsEdge`). That there is a first one needs a least element of a set of numbers, for which `LeastNat` takes the
well-foundedness of `<` from the library instead of an induction. `IsNodeTypeX` may be any
walk up the types: nothing in these proofs depends on where it ends. `BoundOnceSays` is where
the two loops over bindings meet, one that matches a prefix of the name, one its whole.

The inductive invariants (`TypeInv`, `StoreInv`, `VnfdInv`, `ArchiveInv`, `JobInv`, `RowInv`,
`ThreadInv`, `UpdateInv`, those of `VnfPackageProofs` and the three named `IInv`) were checked
by TLC on the instances above before they were proved. The types of `JobStatus` and
`VnfDistribution` are proved and appear in no run.

Only model-checked is liveness (`UploadSettles`, `JobEnds`), which is out of the prover's reach.
Every invariant and every other action property of the passing runs is a theorem. The four runs
that end in a violation check what overlapping requests, a cache, or an exception without
arguments make false.

## 5. Not modelled

* *Files of NSDs and PNFDs.* Their archives are saved and parsed as those of VNF packages,
  for which `VnfPackage` has the files; in `Descriptors` a parse yields any archive.
* *usageState.* A PUT sets that of an NSD, an upload resets it; no step reads it.
* *Reads.* Queries, downloads of archives, artifacts and ranges (`common.py:35`, a generator of
  bytes that shares no state) change nothing, with two exceptions: the download of a
  VNFD writes `VNFD.zip`, which is modelled, and a query of an ONBOARDED package unpacks its
  archive into a directory `tmp` beside it to list the artifacts (`vnf_package.py:294-315`).
* *The parser's values.* Inputs and functions in properties, groups, `endpoint_exposed`,
  artifacts, the download of archives, and the models of `sdmodel.py` and `pnfmodel.py` copy
  what the template says. Types derived in a cycle are left out: `isNodeTypeX` would
  not end. The topological sort of `graph.py` is called by nothing.
* *Serializers, views, middleware, admin, Swagger, settings.* They shape data and keep no
  state; requests they refuse are steps of the models.
* *DMaaP.* The consumer is modelled by what the controller sees of it. The publisher is not
  called by the program: the one call of `send_notification_status` is commented out.

Worth doing next: the directory `tmp` as state, with queries that overlap and a delete that
removes it under them, and a composition of `VnfPackage` with `Descriptors` in which the scan
reads NSDs that are on-boarded step by step.
