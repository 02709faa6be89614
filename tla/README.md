# A verification project for Waves (Cuple-List)

Waves is an iOS to-do list for two people. The phones of a couple share tasks,
wishes, points and anniversaries through documents `couples/{coupleId}/...` and
`annis/{coupleId}/...` of a Tencent CloudBase database. Each phone keeps
everything in Core Data and shows that; *managers* upload what the user saves
and apply what a polling listener reports of the other phone. There are no tests
in the repository: what the program is meant to do stands in the comments of its
managers.

This directory holds TLA+ modules of that machinery, the TLC runs that check
them on small instances, and proofs checked by TLAPS.

| file | what it is |
|---|---|
| `TaskSync.tla` | the to-do list on two phones: `DbManager` above the polling layer |
| `Follower.tla` | abstract: what a phone that only follows is promised; `TaskSync` implements it |
| `ScoreRecords.tla` | the score records of one task: `ScoreManager` and the overdue check |
| `WishSync.tla` | the wish list: `PointsManger` with its comparison of whole lists |
| `AnniSync.tla` | the anniversaries: `AnniManger` with its lock, pull and kept copies |
| `CoupleLink.tla` | linking and unlinking: `CoupleStatusManager`, the link pages, `UserManger`, `UnlinkViewController` |
| `MC*.tla` | constants for TLC, one module per component; a `.cfg` per run |
| `TaskSync_proofs.tla`, `WishSync_proofs.tla`, `ScoreRecords_proofs.tla`, `ScoreRecords_orderly_proofs.tla`, `AnniSync_proofs.tla`, `CoupleLink_proofs.tla`, `CoupleLink_stays_proofs.tla` | theorems and proofs |
| `PROJECT.json` | components, runs, mutants, the map from definitions to source lines, findings, hazards, theorems |

Run a check with `tlc -config TaskSync_mirror.cfg MCTaskSync.tla`, a proof with
`tlapm TaskSync_proofs.tla`.

## 1. Inventory

### The parts and their state

All paths are below `src/Cuple-List/LoveView/` unless they start with `src/`.

**Firestore compatibility layer** (`Global/CloudBase/TCBFirestoreCompat.swift`,
`CloudBaseHTTPClient.swift`). The program was written for Firestore; this layer
offers the same classes over one cloud function. A write is one HTTP call. A
collection listener asks for the whole collection every second and reports the
difference from the previous answer; it keeps `previous`, `first` and
`cancelled` per listener. A document listener does the same for one document.
Promises: every difference is reported once, in order. Hard: polls are sent on a
timer and answered in any order, the memory of the previous answer dies with the
process, a removed listener still delivers the answer under way. Modelled inside
the modules that use it; what it promises a phone that only follows is stated by
itself in `Follower`.

**Task list** (`Global/Manger（类方法）/DbManager.swift`; `TaskSync`). State: the
Core Data tasks, `isLocalSyncing`, `syncingTaskIds`, `deletingTaskIds`,
`taskLastCompletedStatus`. Operations: `addModel`, `updateModel` (the completion
box), `updateItem` (the edit form), `deleteModel`, the save observer
`handleContextDidSave`, the listener callback, `syncItem` and `deleteItem`.
Correct means: what a user adds reaches the other phone, deletions do too, no
mark stays for ever, an edit is not undone by an echo of its own past. Hard:
user, listener, uploads, timers of 2 s and 3 s and background saves interleave;
calls fail; the process dies.

**Score archive** (`Global/AllPoints/ScoreManager.swift`, the overdue check in
`src/Cuple-List/Cuple-List/AppDelegate.swift`; `ScoreRecords`). State: the
collection `score_records`, `scoreRecordsCache` per phone. Operations: awarding,
withdrawing, penalising, rewriting after an edit, removing after a deletion,
refreshing the cache. Correct means: a completion is paid once, a missed
deadline is charged once, nothing survives its task. Hard: each operation is a
query and then writes, on both phones, with nothing that makes the pair atomic.

**Wish list** (`PointsManger.swift`; `WishSync`). Like the task list, and after
every reported difference, and when the page opens, the whole collection is
compared with Core Data: missing wishes are inserted, extra ones deleted.
Correct: a wish that was added is not lost, and the list converges to the
collection. Hard: the comparison consults one kind of marks and not the other,
the two steps of an insertion do not see each other.

**Anniversaries** (`AnniManger.swift`, collection `annis/{coupleId}/anni`;
`AnniSync`). No marks for single ids: one flag excludes uploads, pulls and the
application of answers. An answer dropped meanwhile is made up for by a pull of
the whole collection; errors register the listener again; an anniversary can be
unshared and then stays on the phone that made it. Correct: the lock has one
holder and is always released, what is shared arrives, what is unshared leaves
the partner and stays with its owner. `AnniDateCalculator.swift` and
`NotificationCycleTools.swift` compute the next date of a repeated one (not
modelled).

**Link status** (`CoupleStatusManager.swift`), **linking** (`BootPageView`,
`LinkLoadingView` and their `Cheek` twins), **users** (`UserManger.swift`) and
**unlinking** (`UnlinkViewController.swift`): `CoupleLink`. State: own code,
couple id, `isUserLinked`, three document listeners and one of the page; on the
server `linked_couples`, `couples`, `users`. Correct: both phones agree whether
they are linked once they have heard of each other; unlinking ends the link on
both. Hard: nothing in the database says that a link exists, only documents that
are written and deleted by independent calls; each phone has several listeners
whose late answers act on the next link; timers and grace periods.

**Invitation codes** (`CoupleStatusManager.swift`, not modelled): one permanent
code per phone, its uniqueness checked by one call and written by another.

**Notifications** (`Global/Notification（通知）/`, not modelled). Local reminders,
and command documents by which one phone makes the other schedule or remove one.

**Others**: images and avatars, the points page, forms and lists, subscriptions
(RevenueCat), logging, vendored Pods. They hold no shared state of their own or
are not this program's logic; they are not modelled.

### How they interact

- *Core Data saves.* All managers share the default context. A save by any of
  them runs the observer of every one, which sets that manager's
  `isLocalSyncing` for two seconds even if it has nothing to upload. The modules
  have an action for such a save by somebody else (`OtherManagerSaves`,
  `OtherSave`).
- *Shared collections.* Two phones write the same documents; the last write
  wins, and uploads merge, so they create a document that is gone.
- *Calls.* `DbManager` tells `ScoreManager` of completions, edits and deletions,
  also of deletions that arrive from the other phone, and tells the
  notification manager; `AppDelegate` starts the overdue check every 300 s.
- *Notification centre.* Linking and unlinking are broadcast; every manager
  starts or stops its listener. `AnniSync` starts with the link.
- *Queues.* Edits, observer and listener callbacks run on the main queue,
  background saves on private queues, answers of writes on URLSession's queue.

### Hazards

`PROJECT.json` lists them with their lines under `hazards`: lost uploads, marks
that stay, changes that are skipped for good, polls out of order, deletions
missed across a restart, awards given twice, stale caches, records that outlive
their task, penalties given twice, rewritten scores; wishes deleted before they
are uploaded and inserted twice; answers dropped under the lock, pulls that give
up, copies that are no longer kept after a restart; links that come back,
answers and timers of the link before, ends of a link that nobody notices.

## 2. `TaskSync`: the task list on two phones

### State and actions

`server` is the collection `items`: for each task its content and the stamp of
the write (`serverTimestamp`), which makes two writes of the same content
differ for the listener. `store` is Core Data. A task's content is the number of
the edit that wrote it and its completion flag: fields that travel together
need not be told apart. `requests` are writes between a phone and the server;
`polls` are the listener's queries and the jobs their answers start.

| action | code |
|---|---|
| `AddModel`, `UpdateModel`, `UpdateItem` with `UpdateItemSaved`, `DeleteModel` | the operations of `DbManager`, each with the observer that runs inside its save (`HandleContextDidSave`) |
| `OtherManagerSaves` | a save by another manager, which runs the same observer |
| `Served`, `AnswerLost`, `Failed` | a write is done; is done and its answer lost; fails |
| `BatchDone`, `UnmarkDeleted` | the timers of 2 s and 3 s |
| `PollQuery`, `PollFailed`, `PollIgnored`, `PollApplied`, `PollDone` | a poll from its query to the end of its jobs |
| `SaveRemote`, `RemoteSaved` | `syncItem`/`deleteItem`: background save and callback |
| `Restart` | the process is killed and started again |

Timers and calls may take any time, so no property depends on 2 s being longer
than a request. Two steps are fused because nothing can happen between them that
matters: the difference of two answers is computed when the callback handles it
(the callback is queued on the main queue at once and both read the same marks
there), and the answer of a successful write is part of the delay of the timer
it starts. A restart drops the phone's requests in flight: one that the server
still does is a `Served` before the restart.

### Runs

| run | instance | shows |
|---|---|---|
| `TaskSync_mirror` | one phone edits and may be restarted, the other follows, 1 failing call or poll | types; the flag and the delete marks always have an owner (`FlagHasOwner`, `DeleteMarkHasOwner`); the follower holds what its last answer said (`PassiveDeviceMirrors`), implements `Follower` (`PassiveDeviceFollows`) and, with fairness, ends up with the collection (`PassiveDeviceConverges`) |
| `TaskSync_delivery` | two phones edit, fairness | `HandedOverIsKept`, `StatusCacheFollowsStore`, `FlagReleased`, `HandedOverArrives` |

Bounds: `MaxEdits` counts local saves on both phones. Two are enough for each
order of add, edit and delete against uploads, polls, marks and timers; the
second user's edit can overlap every step of the first's. Three edits on two
phones were beyond the five minutes a run may take. `Slot` is the number of
polls in progress on one phone; with one (`InOrder`) an answer comes within the
second between two polls. The mark properties hold for overlapping polls too (by
proof), the ones about stored data are claimed in order only: with overlap
`StatusCacheFollowsStore` fails, and an old answer can undo a newer one.

Fairness (`FairSpec`): every request is answered (URLSession has a timeout), the
timers fire, the main and private queues run, and the poll timer goes on. Nothing
makes a user edit or a call fail. Under it the liveness properties hold without
faults, `PassiveDeviceConverges` also with one.

### The abstract follower

`Follower` says what the listener of the compatibility layer promises a phone
that only follows, without marks, flags, timers or background saves: a
collection, one question at a time, the last answer, and a copy that takes over
the last answer item by item before the next answer is accepted. `TaskSync`
implements it for each phone on which nobody edits: `PassiveDeviceFollows`
instantiates it with the collection's contents, the poll in progress, `previous`
and `store`. An implementation that passes over an answer, or applies a stale
one, fails it.

### What is not claimed

- A task added while `isLocalSyncing` is set is not observed and never uploaded.
  `handedOver` is the set of the others; the properties speak of them.
- Two phones that both edit need not converge: a change skipped because of a
  mark is never reported again.
- The marks that `updateItem` and `updateModel` set outside the observer are
  not always taken back, against `DbManager.swift:382`.
- A phone that is restarted between two polls keeps a task the other one deleted
  meanwhile: the first answer of a listener only adds
  (`TCBFirestoreCompat.swift:306`), against `DbManager.swift:785`.
- When a task is deleted while an older change of it waits for its background
  save, it comes back on the deleting phone.
- The listener does not pause during an upload: it sets the flag that
  `DbManager.swift:257` says makes it skip, and never tests it (line 193).
- The link exists for the whole behaviour; scores and notifications that the
  handlers trigger are left to other modules.

## 3. `ScoreRecords`: the score records of one task

### State and actions

`records` is the collection; a record is the operation that wrote it, its
target, its score in multiples of the task's points and `isOnTime`. `cache` is
`scoreRecordsCache`. `done`, `published` and `holds` are what the phones and the
server know of the task; how a change of it travels is the matter of `TaskSync`,
so here it arrives at any later time (`FlagSynced`, `DeletionSynced`). `jobs` are
ScoreManager's calls: a query, then the writes to what it found.

| action | code |
|---|---|
| `Tap` | `updateModel`: `calculateTaskScore` or `withdrawTaskScore` |
| `Edit`, `Delete`, `DeletionSynced` | `updateScoreRecordsTaskInfo`, `minusScoreForDeletedTask` |
| `DeadlinePasses` | the clock |
| `CheckFromCache`, `CheckFromServer`, `Browse` | the overdue check with `getAllScoreRecords`; the breakdown page |
| `Served`, `Refreshed` | the collection is read; later the answer replaces the cache, or the error empties it |
| `Uploaded`, `Found`, `FoundToExpire`, `Removed`, `Edited`, `Expired`, `Failed`, `ExpireFailed` | the answers of the calls |
| `Restart` | the cache starts empty, calls in progress are lost |

The writes of one call to several documents are one step in which a failure may
spare some of them. A phone runs one overdue check at a time: checks are 300 s
apart, the requests of one time out earlier. `Waits` names who is patient:
"users" act only when all calls have ended and both phones agree, "checks" start
only then. `MaxFaults` bounds failing calls; a restart with calls in progress
counts as one. `MaxMisses` bounds the refreshes that fail and leave an empty
cache, which is no fault in the sense of the properties. `lateAwards` and
`deductions` are history variables: the keys of the records that were written for
a late completion and as penalties.

### Runs

| run | instance | shows |
|---|---|---|
| `ScoreRecords_orderly` | two phones with the same task for both users, patient users and checks; four taps, edits or deletions, a check, a visit of the breakdown, an emptied cache, a restart (2.4 million states) | `AwardedOnce`, `WithdrawnLeavesNoAward`, `DeletedLeavesNothing` |
| `ScoreRecords_hurried` | two phones, a task for the partner, nobody waits; two taps, edits or deletions, a check, a failing call, an emptied cache, a restart (2.5 million states) | types, `RemovedStaysRemoved`, `PenaltyStays`, `LatenessStays`, `LateCompletionIsFree`, `OnePenaltyPerCheck` |
| `ScoreRecords_twice` | violated: `AwardedOnce` | two phones complete the task before they hear of each other |

What needs no patience is checked without it. `PenaltyStays`: a record added as
a penalty is not taken back by a withdrawal or an edit that began before it.
`LatenessStays` is about the edit form racing with a check: the edit has read a
record as on time, the check makes it a penalty, and the edit then writes the
score of the first reading. It writes the score only (`ScoreManager.swift:523`), so
the record is late with points on it, and not on time again, as it would be had
the whole record been written (the mutant). `LateCompletionIsFree` says who may
make a penalty of a late completion: an edit, and no check, although a check can
pick a record of the same user. `OnePenaltyPerCheck` bounds the penalties of a
user by the checks and the failures, with emptied caches and on phones whose
caches differ: that two phones charge twice, once per check, is what the code
does. Two actions of users are enough for these races, as each is between two or
three operations.

What is promised of awards needs patient users. Two phones with out-of-date
caches are in the instance: a phone that has an old award in its cache does not
award again, and one whose cache was emptied does, but only after the withdrawal
has ended. Four user actions allow complete, take back, complete again, delete,
with the deadline and a check at any point between them. Both users have to be
awarded, or one phone to be in use: the target of an award goes by the phone
that taps and not by the creator (`:190` against `HomeSwipeTableCell.swift:338`
and against `:168`, by which it does not matter who taps). With a task for one
user, `Assign = "partner"`, `WithdrawnLeavesNoAward` fails for two patient phones
after two taps: the second phone takes the completion back and looks for the
record of the wrong user.

Four more places where the code does not do what a comment says are left as
hazards or remarks without a run of their own: on two phones the cache of one
keeps a record the other has removed, and the next completion is not awarded
(`ScoreManager.swift:153` against `:136`; `invalidateScoreRecordsCache`, written
for this case, is called by nothing); an edit of a task that was completed late
makes its record a penalty (`:524`); the total under the
avatar counts late completions and the records do not (`:794` against
`AppDelegate.swift:186`); a record whose upload is on its way outlives the
deletion of its task (`:394` against `:388`).

Two comments contradict each other about a task that is never completed:
`ScoreManager.swift:160` says that nothing is deducted, `AppDelegate.swift:186`
that it is; the code deducts. `deleteScoreRecordsForTask` and
`setTaskCompletion` are called by nothing and not modelled.

The deadlock check is off in these runs: when the bounds are used up and all
calls have ended, nothing remains to be done.

## 4. `WishSync`: the wish list

### State and actions

As in `TaskSync`; a wish is the number of the edit that wrote it, and Core Data
may hold several copies of one id (`copies`), because two background insertions
that look for it before either is saved do not see each other. `sweeps` are the
answers being worked off: by the listener (`Slot`) or for the page (`Refresh`).

| action | code |
|---|---|
| `AddModel`, `PointsupdateItem` with `PointsupdateItemSaved`, `DeleteModel`, `OtherSave` | the operations of `PointsManger` and the observer inside a save |
| `Served`, `AnswerLost`, `Failed`, `BatchDone`, `UnmarkDeleted` | the calls and their timers |
| `PollQuery`, `OpenList`, `AnswerFailed`, `PollIgnored`, `PollHandled` | the listener, and `refreshWishListFromServer` when the page opens |
| `Compare` | the comparison of the answer with the list, after the listener has handled it or at once for the page |
| `JobFound`, `JobNotFound`, `JobInserts`, `JobDone`, `SweepDone` | `syncWishItem`/`deleteWishItem`: found or not, inserted, called back |
| `Restart` | the process is killed and started again |

### Runs

| run | instance | shows |
|---|---|---|
| `WishSync_lists` | two phones edit, one listens, opens the page and may be restarted, one failing call, fairness | types, `FlagHasOwner`, `DeleteMarkHasOwner`, `HandedOverIsKept`, `ListsConverge` |
| `WishSync_kept` | violated: `AddedWishKept` | the page is opened while a new wish is being uploaded: the comparison deletes it from the phone it was added on |

Two saves on one id are enough for each order of an insertion, an edit and a
deletion against an answer that is handled, compared and worked off; the second
user's save can fall into each gap. Convergence is claimed of wishes that carry
no mark of being uploaded, because an upload after an edit takes its mark back
in no case of success (`PointsManger.swift:972`), and of a phone whose page is
opened again and again (the fairness of `OpenList`, the only action of a user
that a property needs). `HandedOverIsKept` is claimed without faults.

## 5. `AnniSync`: the anniversaries

### State and actions

A behaviour starts before the link. `work` is what is going to clear
`isLocalSyncing`: an upload, a pull that was asked or answered, or an answer
being applied. `pendingPull` is
`pendingPullAllAnnisFromFirestoreAfterLocalSync`, `retain` the set of ids whose
removal the listener must not follow.

| action | code |
|---|---|
| `CoupleDidLink` | `handleCoupleDidLink`: the anniversary of the date the user gave, the listener, and one more push |
| `AddModel`, `AnniupdateItem` with `AnniupdateItemSaved`, `DeleteModel`, `OtherSave` | the operations of `AnniManger`, each with the observer inside its save |
| `Served`, `AnswerLost`, `Failed`, `UploadDone` | the calls, and the 2 s after the last of a save |
| `PullServed`, `PullAnswered`, `PullEmpty`, `PullFailed` | the pull of the whole collection |
| `PollQuery`, `PollUnchanged`, `PollFailed`, `Relisten` | the listener and its renewal after an error |
| `PollIgnored`, `PollDropped`, `PollApplied`, `JobRuns`, `ApplyDone` | an answer without documents, under the lock, and its application |
| `Restart` | the process is killed and started again |

`Done` is what every holder does when it has finished: clear the flag and start
the pull that is owed. A pull that fails or finds the collection empty does not
(`GivesUp`). `updateModel` has no callers. The branch for an answer with
documents and no changes cannot be reached with the compatibility layer, whose
first answer reports all documents as added.

### Runs

| run | instance | shows |
|---|---|---|
| `AnniSync_arrives` | ann gives the date, both edit, bob follows, saves by other managers, is patient and may be restarted; one failing call, poll, pull or restart; fairness | types; `OneAtATime`: the flag is a lock with exactly one holder; `OwedPullHasOwner`: who drops an answer can rely on the holder; `UnsharedIsKept`: what its user stops sharing stays on the phone; `SharedArrives`: what stays in the collection reaches the phone |
| `AnniSync_unshared` | violated: `UnsharedLeavesPartner` | the removal is reported while the partner phone applies the answer before; it is dropped, and the pull that makes up for it removes nothing |

Two saves besides the one of the link: share, unshare and share again, or an
edit on each phone, against uploads, polls, drops and pulls. One failure or
restart can hit each call. Polls are answered in order, and a listener that is
registered again has no answer under way. `Patient` users stop sharing only when
nothing is on its way that their phone will still hear of; without that, an
answer that is older than the deletion takes the registration with it, and the
next one deletes the kept copy. Fairness as in `TaskSync`; a pull or poll need
not succeed.

What is not claimed: a save made while the flag is set is not uploaded
(`AnniManger.swift:340`); after a pull that gave up the dropped change waits for
somebody else to take the lock (`:435`, `:441`); the registration of kept copies
dies with the process (`:532`), and one that no removal has used up keeps the
phone from following a later deletion by the partner.

## 6. `CoupleLink`: linking and unlinking

### State and actions

A phone is known by its code. `linkedCouples`, `couples` and `users` are the
documents; a link is the number of the `startLink` that wrote it. Each phone has
four listeners (`global`: invitations; `page`: the same while the link page is
open; `couple`: the document of the couple; `partner`: the user document of the
partner). `late` are the answers to polls of listeners that have been removed:
the layer delivers them all the same.

| action | code |
|---|---|
| `OpenPage`, `ClosePage`, `StartLink`, `LinkWritten`, `LinkConfirmed`, `LinkFailed` | the link pages |
| `Poll`, `Answer`, `PollAnswered`, `LateAnswer` with `Callback` | the four listeners: a poll whose answer takes time, one that does not, one whose listener is gone; the callback is `Invited`, `Followed`, `Appeared`, `Vanished`, `Disowned` or nothing |
| `ConfirmRead`, `Confirmed`, `ConfirmFailed` | the global listener asks the server again before it follows |
| `SetLinked`, `ResetAllStatus` (operators) | the status, with the listeners each starts and stops |
| `StartGlobalLinkListener`, `StartCoupleListener`, `GraceOver` | the timers of 0.4 s and 2.5 s, of 1 s, of 20 s |
| `Served`, `Failed`, `SyncTimedOut` | calls, what their answers set off, the limit of `syncCoupleUserInfoAfterLink` |
| `PerformUnlink`, `UnlinkTimedOut`, `UnlinkDone`, `UnlinkForgotten` | the group of `performUnlink` |
| `Restart` | the process is killed; `isUserLinked` and the couple id survive |

### Runs

| run | instance | shows |
|---|---|---|
| `CoupleLink_again` | link, unlink, link again; the page open; slow answers of the global listener; no failures | types; `ListenersMatchStatus`: no linked phone follows a further invitation; `SomebodyListens`: no phone goes deaf; `LinkStays`: what the first link left does not end the second |
| `CoupleLink_ends` | link and unlink, one failure anywhere, fairness | the two listener invariants; `LinkArrives`, `UnlinkNoticed`, `UnlinkFinishes` |
| `CoupleLink_relink` | violated: `StaysUnlinked` | the phone that ends a link resets itself too early and accepts its own old link |

Bounds and premises: two links and one end between them are the least in which
something of the first can act on the second; one failure can be any call, any
time limit or the end of a process. `Delayed` names the listeners whose answers
take time, the others call back at once: all four slow at a time are too many
for TLC, and the theorems below cover them. `Patient` stands for what the code
hopes for: users do nothing while an unlink is under way, calls take less than
the 20 s of grace, answers arrive in the order of the polls. `LinkStays`,
`LinkArrives` and `UnlinkNoticed` are claimed under it, the listener invariants
without it. `UnlinkNoticed` excepts a phone that slips back into the link:
`resetAllStatus` starts the listener for invitations 0.4 s later, while the
document of the link may still exist. A phone that slips back with a confirmed
read that was slow can also note an older link than its partner; `performUnlink`
names no link, so `ended` takes up the link of each phone.

Fairness is one condition, `WF_vars(Due)`: calls are answered, polls made,
timers fire. There is no cycle of such steps, so it is enough that they do not
stop. The deadlock check is off because the system really stops here: polls that
find what the listener knows already change nothing and are left out, and
without users nothing else remains.

## 7. Proofs

The eight proof modules show, for any set of phones, tasks and users, any bounds
and any number of failures and restarts:

| theorem | says | induction |
|---|---|---|
| `TaskSync_proofs!TypeCorrect` | `[]TypeOK` | `TypeOK` |
| `FlagAlwaysOwned` | `[]FlagHasOwner` | inductive by itself: each step that sets the flag adds its owner; each that removes one clears the flag |
| `DeleteMarkAlwaysOwned` | `[]DeleteMarkHasOwner` | inductive with `TypeOK`: the mark passes from the request to its timer |
| `HandedOverAlwaysKept` | `[]HandedOverIsKept` | `KeptInv`: needs that a handed-over task is not deleted by anyone as long as it is not in `deleted`: every delete request and every timer belongs to a task in `deleted` |
| `PassiveDeviceAlwaysMirrors` | `[]PassiveDeviceMirrors`, for one slot | `MirrorInv`: needs that the passive phone has no marks, so that it accepts every change, and that an applied answer is the previous one |
| `StatusCacheAlwaysFollows` | `[]StatusCacheFollowsStore`, for one slot | `StatusInv`: nothing is known anywhere of a task whose id was not handed out, and jobs exist only in the poll that is applied |
| `PassiveDeviceAlwaysFollows` | the refinement: `PassiveDeviceFollows`, for one slot | each step of `TaskSync` is a step of `Follower` or none, under `MirrorInv` |
| `WishSync_proofs!TypeCorrect` | `[]TypeOK` | `TypeOK` |
| `FlagAlwaysOwned`, `DeleteMarkAlwaysOwned` | `[]FlagHasOwner`, `[]DeleteMarkHasOwner` | inductive with `TypeOK`; the comparison of a refresh takes over neither flag nor mark |
| `HandedOverAlwaysKept` | `[]HandedOverIsKept` | `KeptInv`: delete requests belong to wishes in `deleted`, and a write is lost only by a failure |
| `ScoreRecords_proofs!TypeCorrect` | `[]TypeOK` | `TypeOK` |
| `RemovedAlwaysStaysRemoved` | the action property `RemovedStaysRemoved` | `TypeOK` and `UploadsDistinct`: two uploads never carry the same key, because the number of an operation is used once |
| `LateCompletionAlwaysFree`, `PenaltyAlwaysStays` | the action properties `LateCompletionIsFree`, `PenaltyStays` | `HistoryInv`: what the records in the collection and in the calls tell of the two histories |
| `LatenessAlwaysStays` | the action property `LatenessStays` | `UniqueInv`, with `HistoryInv` for it: one record to a key, and no upload brings a key that is there or that an edit has found |
| `ScoreRecords_penalty_proofs!AlwaysOnePenaltyPerCheck` | `[]OnePenaltyPerCheck` | each check has a right to one penalty per user, held by the call that asks, the call that writes or the record itself |
| `ScoreRecords_orderly_proofs!DeletedAlwaysLeavesNothing` | `[]DeletedLeavesNothing` if users and checks wait | `RemovalRuns`: after a deletion a removal is about to find each record that is left, or has found it |
| `AlwaysAwardedOnce`, `WithdrawnAlwaysLeavesNoAward` | `AwardedOnce` while nothing has failed, `[]WithdrawnLeavesNoAward`; if users wait and the task is for the same users on every phone | `AwardsInv`: `PenaltiesLate`, `AwardsEnd`, `EditsFit` with `AwardedOnce`, `HistoryInv` and `UniqueInv` |
| `AnniSync_proofs!TypeCorrect` | `[]TypeOK` | `Typed`, which is stronger: a write that sets a document has a revision |
| `LockHasOneHolder`, `PullIsNotForgotten` | `[]OneAtATime`, `[]OwedPullHasOwner` | `Locks`, both with the types: whoever holds the lock is the only work, so that ending it ends the lock |
| `UnsharedStays` | `[]UnsharedIsKept` | `Backed`, with `Kept` for each phone and anniversary |
| `CoupleLink_proofs!LinkTypeCorrect` | `[]TypeOK` | `Typed`, which is stronger: an answer is a document of its listener's kind (`DocsOf`), so that a callback never reads a field that is not there; and a linked phone, as a link being written, has a number |
| `ListenersAlwaysMatch` | `[]ListenersMatchStatus` | `IInv`, the types and `Sound` |
| `SomebodyAlwaysListens` | `[]SomebodyListens` | the same `IInv` |
| `CoupleLink_stays_proofs!LinkAlwaysStays` | the action property `LinkStays`, if one user starts the links, nothing fails and only answers to the global listener take time | `StayInv` with `IInv`: `NumbersFit`, `StarterFits`, `EndsFit`, `Prompt` and `PartnerFits` of each phone |

Assumptions: `ConstantsAssumption` of each module (the editors are phones, the
bounds are numbers, the creator is a phone) and `PhoneAssumption` of
`CoupleLink` (there are two phones, known by numbers, of which the smaller names
the couple), which TLC evaluates in every run; and for the conditional theorems
the condition stated in them. One step per action carries each induction.

Why `StatusCacheFollowsStore` needs `StatusInv`: the table and the list are
written by the same callback, but the table also forgets a task at its deletion
and meets it again with the next answer that has it. An id that was never handed
out must therefore be unknown to the collection, the lists, the requests and the
answers, or its status could arrive before `addModel` writes it.

Why `Follower` needs `MirrorInv` and one slot: the list moves to the next answer
only when it holds all of the last. With two polls of one listener under way, the
older answer may be applied second, and no step of `Follower` does that
(`PassiveDeviceMirrors` breaks with it). The variable of `Follower` that is not in
the code, the answer being applied, is mapped to the poll in its only slot.

Why the score proofs need what they need. Five theorems have no condition; edits
are in all of them. An edit and a penalty meet only through what a call has read
and not yet written, so `HistoryInv` speaks of the records in the calls as well:
no penalty is among what a withdrawal has found, no late completion among what a
check has picked, and of both an edit knows that they were not on time. It is
inductive because keys are numbers of operations and new ones are greater than
all that were read. For `LatenessStays` this is not enough: two records with one
key would let one be late and the other not, hence `UniqueInv`.
`OnePenaltyPerCheck` counts: a check asks once for each target, and each answer
leaves one call, which ends as one charged record; only a lost answer leaves both
an updated award and a call that adds another, and is counted in `faults`.

The other three need users who wait until all calls have ended and the phones
agree, because the code does: the `twice` run shows `AwardedOnce` violated for a
user who taps while the other phone has not heard. `AwardsEnd` says why waiting
is enough: when the task is not completed, each award that is left has a
withdrawal that will find it or has found it, so that at rest there is none, and
a completion starts from there whatever the caches hold. Edits and checks may run
meanwhile, so an edit must not make an award of a penalty; `EditsFit` says that it
cannot: an edit starts from rest, and either there is no award at all, or the
task is completed on every phone that has it and no check makes a penalty before
the edit ends. The condition on the targets is needed (section 3), and so is
`faults = 0`: a withdrawal that fails leaves its award. For
`DeletedLeavesNothing` the checks have to wait as well: a penalty that is added
after the removal has asked stays.

Why `CoupleLink` needs both properties in one invariant: that a linked phone
does not listen for invitations holds because `setLinked` removes that listener
and `startGlobalLinkListener` asks for the status first; that it listens for the
end of the link holds because each way out of `setLinked`, of a launch and of
the timers leaves the couple listener or its timer. A late answer or a
confirmation acts only on a phone in the matching status, and the status and the
listeners change in the same step.

Why `LinkStays` needs `StayInv`: while nobody has begun to end the last link
(`Current`) no phone leaves it. Two things could tell a phone so. The document of
the couple goes only by a request of an unlink that is under way, and then the
last link is ended (`EndsFit`). The partner's document says `isInLinkedState =
false` for a while: the phone that ended the link before marks itself once more
after its reset, and that write may come when the next link is there. But after
the grace period no such write is on its way, and if the document says so, the
listener has seen it and is not told again (`PartnerFits`); its listener is
registered anew only by its own profile, which is no longer on its way either.
That one user starts the links is needed: if both do at once, the start of one is
confirmed while the link of the other is being ended (TLC finds it). Who ends them
does not matter. The attempt corrected the model: the end of a link first recorded only
the link of the phone that ends it, and with two ends TLC found a phone that had
noted an older one; the code names no link there.

Why `UnsharedIsKept` needs `Kept`: the copy is lost only by an application that
deletes it, which comes from an answer that reports the removal while the id is
not registered. So `Kept` follows the document through the listener's last
answer, the query under way and the collection (`Calm`: it does not go in
between). A patient user stops sharing when nothing is on its way; the edit
registers the id before it sends the deletion, the only one; after that at most
one removal is unseen, and only while the id is registered. The answer that
reports it uses the registration up and leaves none unseen. A write of the
partner ends the promise; a restart loses the registration, which is why the
property asks for none.

Only model-checked: the liveness properties (`FlagReleased`, `HandedOverArrives`,
`PassiveDeviceConverges`, `ListsConverge`, `SharedArrives`, `LinkArrives`,
`UnlinkNoticed`, `UnlinkFinishes`), for fairness and ENABLED are beyond the prover.
Every other property of a passing run is a theorem, most of them for more phones,
failures and restarts than the runs have.

## 8. Not modelled

- Invitation codes, notifications, dates of repeated anniversaries: in the plan.
- The rest of linking: third phones (the deletion of their links at
  `UnlinkViewController.swift:744` against the comment at `:737`), phones without
  a code, names, avatars and birthdays of the users, the deletion of lists and
  images at the end of a link.
- `AnniManger` at the end of a link, and answers of a listener that was replaced.
- Images, views, subscriptions, logging: no shared state, or not this program's
  logic. The cloud function behind `CloudBaseHTTPClient` is not in the
  repository; a call is served, fails, or is served and its answer lost.
- `src/Cuple-List/Pods` is vendored (Firebase, gRPC, BoringSSL, MagicalRecord and
  others). All C and C++ in the tree is there; the program itself is Swift, and
  all mapped lines are in Swift files.

Read while modelling and left without a module:

- `AnniDateCalculator.calculateNextTargetDate` asks for four components where
  the stored "Every 1 Year" has three, so the date comes back as it was.
- `AnniNotificationManager.checkAndCreateNextNotification` (`:113-153`) always
  schedules the target date plus one cycle: a chain of repeated reminders ends
  after the second.
- Two notification managers make themselves the only delegate of the
  notification centre (`AnniNotificationManager.swift:18`); the one created first
  is never told. That is so in every order, not a race.
- `AnniManger.syncNotificationTaskToPartner` writes to `tasks` while
  `AnniPartnerNotificationListener` listens to `anni_tasks`.

Simplified inside the modules, where no checked property depends on it:

- `CoupleLink`: `SyncCoupleUse` sends one chain where the code sends it twice for
  an invitation without an avatar (`UserManger.swift:629-716`, `744-810`), and leaves
  out the later write to `couples` (`:541-545`, `:1369`). `Follows` and `Restart`
  start the partner listener by the link status; the code looks the partner up in
  Core Data and finds none on a first link (`:243-277`). `Followed` leaves out the
  page's lookup in `pending_invitations` (`BootPageView.swift:750-751`). `Disowned`
  is one step where the code hops through the main queue (`:311-323`). One poll of a
  live listener is under way at a time; late answers are those of removed
  listeners. `PerformUnlink` sends the partner mark also without a partner
  (`UnlinkViewController.swift:469`), and the members of the group without a time
  limit (`:498-674`, `:776-866`) are left out: that the group ends rests on every
  call being answered. Requests of a killed process are served at once or never.
- `WishSync`: a restart drops writes that were not served; `updateModel` and the
  observer's path for updated objects, which upload as an insertion does, are left
  out.
- `AnniSync`: `PollFailed` stands for all errors of the listener
  (`AnniManger.swift:201-228`); the observer's path for updated objects (`:363-377`)
  is left out.

## 9. Plan

1. `ScoreLedger`: an abstract account (awarded or not, per user) that
   `ScoreRecords` implements for patient users, as a property of the `orderly` run
   and, with `AwardsInv`, as a theorem. A run of its own for a task that is for one
   user, where the phones disagree whose it is.
2. Proofs: a passive phone of the wish list and of the anniversaries, as for
   `TaskSync`; which of the link's conditions a failure breaks first.
3. `InvitationCode`: the permanent codes; a third phone in `CoupleLink`, and that
   no step of a link touches a stranger's documents, where true.
4. `AnniDates`: the next date of a repeated anniversary over a small calendar,
   against a reference definition.
5. `Reminders`: who schedules the reminder of a task, the command documents, the
   two delegates.
