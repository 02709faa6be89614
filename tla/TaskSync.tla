------------------------------- MODULE TaskSync -------------------------------
(***************************************************************************)
(* Synchronisation of the to-do list: DbManager (one instance per device)  *)
(* above the polling layer TCBFirestoreCompat and the cloud collection     *)
(* couples/{coupleId}/items.                                               *)
(*                                                                         *)
(* A device keeps the list in Core Data (store).  Local edits are uploaded *)
(* by the save observer handleContextDidSave, by updateModel and           *)
(* updateItem directly, and remote edits arrive as differences between two *)
(* polls of the whole collection.  isLocalSyncing, syncingTaskIds and      *)
(* deletingTaskIds are the marks that are meant to keep the two directions *)
(* apart.                                                                  *)
(*                                                                         *)
(* A task's fields are abstracted to the number of the edit that wrote     *)
(* them (rev) and the completion flag (done).  The devices are linked for  *)
(* the whole behaviour.  Delays (network, the 2 s and 3 s timers, the 1 s  *)
(* poll) take any time; the process may die and start again.               *)
(***************************************************************************)
EXTENDS Naturals, FiniteSets

CONSTANTS
    Device,       \* the two phones of the couple
    Task,         \* ids a new task can get
    Slot,         \* polls of one device that can be in progress at once
    Editors,      \* devices whose user adds, edits and deletes
    Restarters,   \* devices whose process may be killed and started again
    MaxEdits,     \* bound: local saves in a behaviour
    MaxFaults,    \* bound: failing calls in a behaviour
    MaxRestarts   \* bound: process restarts in a behaviour

ASSUME ConstantsAssumption ==
    /\ Editors \subseteq Device
    /\ Restarters \subseteq Device
    /\ MaxEdits \in Nat /\ MaxFaults \in Nat /\ MaxRestarts \in Nat

VARIABLES
    server,       \* [Task -> Doc]: the items collection
    writes,       \* stamps handed out by the server (serverTimestamp)
    clock,        \* local saves so far, on all devices
    store,        \* [Device -> [Task -> Content]]: Core Data
    isLocalSyncing,
    syncingTaskIds,
    deletingTaskIds,
    taskLastCompletedStatus,
    batches,      \* handled saves whose 2 s timer has not fired
    unmarks,      \* answered deletes whose 3 s timer has not fired
    edited,       \* edits that updateItem has saved and not yet uploaded
    requests,     \* writes on their way to the server or back
    polls,        \* [Device -> [Slot -> Poll]]
    previous,     \* the listener's last answer
    first,        \* no answer since the listener was registered
    added,        \* ids handed out by addModel
    handedOver,   \* added while the save observer was listening
    deleted,      \* tasks some user has deleted
    faults,
    restarts

serverVars == <<server, writes>>
markVars   == <<isLocalSyncing, syncingTaskIds, deletingTaskIds>>
timerVars  == <<batches, unmarks, edited>>
pollVars   == <<polls, previous, first>>
userVars   == <<added, handedOver, deleted>>
boundVars  == <<faults, restarts>>
vars == <<serverVars, clock, store, markVars, taskLastCompletedStatus,
          timerVars, requests, pollVars, userVars, boundVars>>

-----------------------------------------------------------------------------
Content == [rev : Nat, done : BOOLEAN]
Absent  == [rev |-> 0, done |-> FALSE]
Doc     == [data : Content, stamp : Nat]
NoDoc   == [data |-> Absent, stamp |-> 0]

(* A write: group is the save it belongs to, 0 when no save waits for it;  *)
(* it is lost when the server has done it and the answer will not arrive.  *)
Request == [dev : Device, op : {"set", "delete"}, task : Task, data : Content,
            group : Nat, seq : Nat, state : {"sent", "lost"}]

(* One poll, from the query to the end of the jobs its answer started: a   *)
(* job first saves in the background, then calls back on the main queue.   *)
Poll == [phase : {"idle", "asked", "applying"},
         snap  : [Task -> Doc],
         job   : [Task -> {"none", "save", "callback"}]]

NoDocs   == [t \in Task |-> NoDoc]
IdlePoll == [phase |-> "idle", snap |-> NoDocs, job |-> [t \in Task |-> "none"]]

TypeOK ==
    /\ server \in [Task -> Doc]
    /\ writes \in Nat /\ clock \in Nat
    /\ store \in [Device -> [Task -> Content]]
    /\ isLocalSyncing \in [Device -> BOOLEAN]
    /\ syncingTaskIds \in [Device -> SUBSET Task]
    /\ deletingTaskIds \in [Device -> SUBSET Task]
    /\ taskLastCompletedStatus \in [Device -> [Task -> BOOLEAN]]
    /\ batches \in [Device -> SUBSET [id : Nat, ids : SUBSET Task]]
    /\ unmarks \in [Device -> SUBSET Request]
    /\ edited \in [Device -> SUBSET [task : Task, seq : Nat]]
    /\ requests \in SUBSET Request
    /\ polls \in [Device -> [Slot -> Poll]]
    /\ previous \in [Device -> [Task -> Doc]]
    /\ first \in [Device -> BOOLEAN]
    /\ added \in SUBSET Task
    /\ handedOver \in SUBSET Task
    /\ deleted \in SUBSET Task
    /\ faults \in Nat /\ restarts \in Nat

Init ==
    /\ server = NoDocs
    /\ writes = 0 /\ clock = 0
    /\ store = [d \in Device |-> [t \in Task |-> Absent]]
    /\ isLocalSyncing = [d \in Device |-> FALSE]
    /\ syncingTaskIds = [d \in Device |-> {}]
    /\ deletingTaskIds = [d \in Device |-> {}]
    /\ taskLastCompletedStatus = [d \in Device |-> [t \in Task |-> FALSE]]
    /\ batches = [d \in Device |-> {}]
    /\ unmarks = [d \in Device |-> {}]
    /\ edited = [d \in Device |-> {}]
    /\ requests = {}
    /\ polls = [d \in Device |-> [s \in Slot |-> IdlePoll]]
    /\ previous = [d \in Device |-> NoDocs]
    /\ first = [d \in Device |-> TRUE]
    /\ added = {} /\ handedOver = {} /\ deleted = {}
    /\ faults = 0 /\ restarts = 0

-----------------------------------------------------------------------------
(* Local edits.  Every save of the default context runs the observer       *)
(* handleContextDidSave before it returns: with isLocalSyncing set the     *)
(* observer returns at once, otherwise it sets the flag, uploads what was  *)
(* saved and waits, as a batch, for the answers.                           *)
Write(d, op, t, data, group) ==
    [dev |-> d, op |-> op, task |-> t, data |-> data,
     group |-> group, seq |-> clock + 1, state |-> "sent"]

Observed(d, set) == IF isLocalSyncing[d] THEN {} ELSE set

(* A variant: a save with nothing to upload leaves the flag behind.        *)
HandleNonemptySave(d, ids) ==
    /\ isLocalSyncing' = [isLocalSyncing EXCEPT ![d] = TRUE]
    /\ batches' = [batches EXCEPT
           ![d] = @ \cup IF ids = {} THEN {}
                         ELSE Observed(d, {[id |-> clock + 1, ids |-> ids]})]

(* ids: the tasks of syncedTaskIds; the group of its writes is clock + 1.  *)
HandleContextDidSave(d, ids) ==
    /\ isLocalSyncing' = [isLocalSyncing EXCEPT ![d] = TRUE]
    /\ batches' = [batches EXCEPT
           ![d] = @ \cup Observed(d, {[id |-> clock + 1, ids |-> ids]})]

UserSaves(d) ==
    /\ d \in Editors
    /\ clock < MaxEdits
    /\ clock' = clock + 1

AddModel(d, t) ==
    LET task == [rev |-> clock + 1, done |-> FALSE] IN
    /\ UserSaves(d)
    /\ t \notin added
    /\ added' = added \cup {t}
    /\ store' = [store EXCEPT ![d][t] = task]
    /\ HandleContextDidSave(d, {t})
    /\ requests' = requests \cup Observed(d, {Write(d, "set", t, task, clock + 1)})
    /\ syncingTaskIds' = [syncingTaskIds EXCEPT ![d] = @ \cup Observed(d, {t})]
    /\ handedOver' = handedOver \cup Observed(d, {t})
    /\ taskLastCompletedStatus' = [taskLastCompletedStatus EXCEPT ![d][t] = FALSE]
    /\ UNCHANGED <<serverVars, deletingTaskIds, unmarks, edited, pollVars,
                   deleted, boundVars>>

(* The completion box.  The view holds its own copy of the flag, so the    *)
(* value it writes need not differ from the stored one.                    *)
UpdateModel(d, t, done) ==
    LET task == [rev |-> clock + 1, done |-> done] IN
    /\ UserSaves(d)
    /\ store[d][t] # Absent
    /\ store' = [store EXCEPT ![d][t] = task]
    /\ HandleContextDidSave(d, {t})
    /\ requests' = requests
           \cup Observed(d, {Write(d, "set", t, task, clock + 1)})
           \cup {Write(d, "set", t, task, 0)}
    /\ syncingTaskIds' = [syncingTaskIds EXCEPT ![d] = @ \cup {t}]
    /\ taskLastCompletedStatus' = [taskLastCompletedStatus EXCEPT ![d][t] = done]
    /\ UNCHANGED <<serverVars, deletingTaskIds, unmarks, edited, pollVars,
                   userVars, boundVars>>

(* The edit form saves through a background context, which the observer of *)
(* the default context does not see ...                                    *)
UpdateItem(d, t) ==
    /\ UserSaves(d)
    /\ store[d][t] # Absent
    /\ store' = [store EXCEPT ![d][t].rev = clock + 1]
    /\ edited' = [edited EXCEPT ![d] = @ \cup {[task |-> t, seq |-> clock + 1]}]
    /\ UNCHANGED <<serverVars, markVars, taskLastCompletedStatus, batches,
                   unmarks, requests, pollVars, userVars, boundVars>>

(* ... and uploads in the completion block, on the main queue.             *)
UpdateItemSaved(d, e) ==
    LET t == e.task IN
    /\ e \in edited[d]
    /\ edited' = [edited EXCEPT ![d] = @ \ {e}]
    /\ clock' = clock + 1
    /\ IF store[d][t] = Absent
       THEN UNCHANGED <<requests, syncingTaskIds, taskLastCompletedStatus>>
       ELSE /\ requests' = requests \cup {Write(d, "set", t, store[d][t], 0)}
            /\ syncingTaskIds' = [syncingTaskIds EXCEPT ![d] = @ \cup {t}]
            /\ taskLastCompletedStatus' =
                   [taskLastCompletedStatus EXCEPT ![d][t] = store[d][t].done]
    /\ UNCHANGED <<serverVars, store, isLocalSyncing, deletingTaskIds, batches,
                   unmarks, pollVars, userVars, boundVars>>

(* The document is deleted directly and, by the observer, once more.       *)
DeleteModel(d, t) ==
    /\ UserSaves(d)
    /\ store[d][t] # Absent
    /\ store' = [store EXCEPT ![d][t] = Absent]
    /\ HandleContextDidSave(d, {})
    /\ requests' = requests
           \cup {Write(d, "delete", t, Absent, 0)}
           \cup Observed(d, {Write(d, "delete", t, Absent, clock + 1)})
    /\ deletingTaskIds' = [deletingTaskIds EXCEPT ![d] = @ \cup {t}]
    /\ taskLastCompletedStatus' = [taskLastCompletedStatus EXCEPT ![d][t] = FALSE]
    /\ deleted' = deleted \cup {t}
    /\ UNCHANGED <<serverVars, syncingTaskIds, unmarks, edited, pollVars,
                   added, handedOver, boundVars>>

(* PointsManger, AnniManger and UserManger save the same default context.  *)
OtherManagerSaves(d) ==
    /\ UserSaves(d)
    /\ HandleContextDidSave(d, {})
    /\ UNCHANGED <<serverVars, store, syncingTaskIds, deletingTaskIds,
                   taskLastCompletedStatus, unmarks, edited, requests,
                   pollVars, userVars, boundVars>>

-----------------------------------------------------------------------------
(* Writes at the server, and their answers.  The answer of a successful    *)
(* write only starts a timer (of the save that waits for it, or of its own *)
(* for a delete), so its journey is part of that delay.                    *)
(* Variants: a delete keeps the stamp; a write needs the document.         *)
EffectKeepsStamp(r) ==
    /\ server' = [server EXCEPT ![r.task] =
           IF r.op = "set" THEN [data |-> r.data, stamp |-> writes + 1] ELSE Absent]
    /\ writes' = writes + 1

EffectOfUpdate(r) ==
    /\ server' = [server EXCEPT ![r.task] =
           IF r.op = "set" /\ @ # NoDoc
           THEN [data |-> r.data, stamp |-> writes + 1] ELSE NoDoc]
    /\ writes' = writes + 1

Effect(r) ==
    IF r.op = "set"
    THEN /\ server' = [server EXCEPT ![r.task] = [data |-> r.data, stamp |-> writes + 1]]
         /\ writes' = writes + 1
    ELSE /\ server' = [server EXCEPT ![r.task] = NoDoc]
         /\ UNCHANGED writes

(* The mark of an upload is left to the timer of the save it belongs to;   *)
(* that of a delete gets a timer of three seconds.                         *)
Served(r) ==
    /\ r.state = "sent"
    /\ Effect(r)
    /\ requests' = requests \ {r}
    /\ unmarks' = IF r.op = "delete" THEN [unmarks EXCEPT ![r.dev] = @ \cup {r}]
                  ELSE unmarks
    /\ UNCHANGED <<clock, store, markVars, taskLastCompletedStatus, batches,
                   edited, pollVars, userVars, boundVars>>

(* The server does the write and the connection breaks before it answers.  *)
AnswerLost(r) ==
    /\ r.state = "sent"
    /\ faults < MaxFaults
    /\ faults' = faults + 1
    /\ Effect(r)
    /\ requests' = (requests \ {r}) \cup {[r EXCEPT !.state = "lost"]}
    /\ UNCHANGED <<clock, store, markVars, taskLastCompletedStatus, timerVars,
                   pollVars, userVars, restarts>>

(* A variant: a failing delete keeps its mark.                             *)
UploadMarkTakenBack(r) ==
    /\ syncingTaskIds' = IF r.op = "set"
                         THEN [syncingTaskIds EXCEPT ![r.dev] = @ \ {r.task}]
                         ELSE syncingTaskIds
    /\ UNCHANGED deletingTaskIds

(* The caller is told of a failure, and takes the mark back at once.       *)
MarkTakenBack(r) ==
    /\ syncingTaskIds' = IF r.op = "set"
                         THEN [syncingTaskIds EXCEPT ![r.dev] = @ \ {r.task}]
                         ELSE syncingTaskIds
    /\ deletingTaskIds' = IF r.op = "delete"
                          THEN [deletingTaskIds EXCEPT ![r.dev] = @ \ {r.task}]
                          ELSE deletingTaskIds

Failed(r) ==
    /\ \/ r.state = "lost" /\ UNCHANGED faults
       \/ r.state = "sent" /\ faults < MaxFaults /\ faults' = faults + 1
    /\ requests' = requests \ {r}
    /\ MarkTakenBack(r)
    /\ UNCHANGED <<serverVars, clock, store, isLocalSyncing,
                   taskLastCompletedStatus, timerVars, pollVars, userVars, restarts>>

(* Three seconds after a successful delete.                                *)
UnmarkDeleted(d, u) ==
    /\ u \in unmarks[d]
    /\ unmarks' = [unmarks EXCEPT ![d] = @ \ {u}]
    /\ deletingTaskIds' = [deletingTaskIds EXCEPT ![d] = @ \ {u.task}]
    /\ UNCHANGED <<serverVars, clock, store, isLocalSyncing, syncingTaskIds,
                   taskLastCompletedStatus, batches, edited, requests,
                   pollVars, userVars, boundVars>>

(* Two seconds after all writes of a save have been answered.              *)
BatchDone(d, b) ==
    /\ b \in batches[d]
    /\ ~ \E r \in requests : r.dev = d /\ r.group = b.id
    /\ batches' = [batches EXCEPT ![d] = @ \ {b}]
    /\ isLocalSyncing' = [isLocalSyncing EXCEPT ![d] = FALSE]
    /\ syncingTaskIds' = [syncingTaskIds EXCEPT ![d] = @ \ b.ids]
    /\ UNCHANGED <<serverVars, clock, store, deletingTaskIds,
                   taskLastCompletedStatus, unmarks, edited, requests,
                   pollVars, userVars, boundVars>>

-----------------------------------------------------------------------------
(* The polling listener.                                                   *)
Asked(d, s)    == polls[d][s].phase = "asked"

(* A variant: only additions and removals count.                           *)
ChangedIds(d, s) ==
    {t \in Task : (polls[d][s].snap[t] = NoDoc) # (previous[d][t] = NoDoc)}

Changed(d, s)  == {t \in Task : polls[d][s].snap[t] # previous[d][t]}
Unmarked(d, s) == Changed(d, s) \ (syncingTaskIds[d] \cup deletingTaskIds[d])

(* A variant: the callback skips everything while a save is uploaded.      *)
AcceptedWhenQuiet(d, s) == IF isLocalSyncing[d] THEN {} ELSE Unmarked(d, s)

(* The callback skips an added or modified task that is being uploaded and *)
(* a removed one that is being deleted.                                    *)
Accepted(d, s) ==
    {t \in Changed(d, s) :
        IF polls[d][s].snap[t] = NoDoc
        THEN t \notin deletingTaskIds[d]
        ELSE t \notin syncingTaskIds[d]}

PollQuery(d, s) ==
    /\ polls[d][s].phase = "idle"
    /\ polls' = [polls EXCEPT ![d][s] = [IdlePoll EXCEPT !.phase = "asked", !.snap = server]]
    /\ UNCHANGED <<serverVars, clock, store, markVars, taskLastCompletedStatus,
                   timerVars, requests, previous, first, userVars, boundVars>>

(* An error reaches the callback, which only shows an alert.               *)
PollFailed(d, s) ==
    /\ Asked(d, s)
    /\ faults < MaxFaults
    /\ faults' = faults + 1
    /\ polls' = [polls EXCEPT ![d][s] = IdlePoll]
    /\ UNCHANGED <<serverVars, clock, store, markVars, taskLastCompletedStatus,
                   timerVars, requests, previous, first, userVars, restarts>>

(* A variant: only additions are reported.                                 *)
DeliveredNew(d, s) == \E t \in Changed(d, s) : previous[d][t] = NoDoc

(* The callback is run for the first answer and for every later one that   *)
(* differs from the one before it.                                         *)
Delivered(d, s) == first[d] \/ Changed(d, s) # {}

(* It has nothing to do when marked tasks are all that changed.  What it   *)
(* skips is remembered as seen.                                            *)
AnswerTaken(d, s) ==
    /\ Asked(d, s)
    /\ previous' = [previous EXCEPT ![d] = polls[d][s].snap]
    /\ first' = [first EXCEPT ![d] = FALSE]

Handled(d, s) ==
    Delivered(d, s) /\ (Unmarked(d, s) # {} \/ Changed(d, s) = {})

PollIgnored(d, s) ==
    /\ AnswerTaken(d, s)
    /\ ~ Handled(d, s)
    /\ polls' = [polls EXCEPT ![d][s] = IdlePoll]
    /\ UNCHANGED <<serverVars, clock, store, markVars, taskLastCompletedStatus,
                   timerVars, requests, userVars, boundVars>>

(* The flag is set, not tested.                                            *)
PollApplied(d, s) ==
    /\ AnswerTaken(d, s)
    /\ Handled(d, s)
    /\ isLocalSyncing' = [isLocalSyncing EXCEPT ![d] = TRUE]
    /\ polls' = [polls EXCEPT
           ![d][s].phase = "applying",
           ![d][s].job = [t \in Task |-> IF t \in Accepted(d, s) THEN "save" ELSE "none"]]
    /\ UNCHANGED <<serverVars, clock, store, syncingTaskIds, deletingTaskIds,
                   taskLastCompletedStatus, timerVars, requests, userVars, boundVars>>

(* syncItem and deleteItem: the background save ...                        *)
SaveRemote(d, s, t) ==
    /\ polls[d][s].job[t] = "save"
    /\ store' = [store EXCEPT ![d][t] = polls[d][s].snap[t].data]
    /\ polls' = [polls EXCEPT ![d][s].job[t] = "callback"]
    /\ UNCHANGED <<serverVars, clock, markVars, taskLastCompletedStatus,
                   timerVars, requests, previous, first, userVars, boundVars>>

(* ... and the completion, which caches the flag it finds in the store.    *)
(* The variant caches the flag of the answer.                              *)
StatusAnswered(d, s, t) == polls[d][s].snap[t].data.done

StatusFound(d, s, t) ==
    IF polls[d][s].snap[t] = NoDoc THEN FALSE
    ELSE IF store[d][t] = Absent THEN taskLastCompletedStatus[d][t]
    ELSE store[d][t].done

RemoteSaved(d, s, t) ==
    /\ polls[d][s].job[t] = "callback"
    /\ polls' = [polls EXCEPT ![d][s].job[t] = "none"]
    /\ taskLastCompletedStatus' = [taskLastCompletedStatus EXCEPT
           ![d][t] = StatusFound(d, s, t)]
    /\ UNCHANGED <<serverVars, clock, store, markVars, timerVars, requests,
                   previous, first, userVars, boundVars>>

(* All jobs of an answer have called back.                                 *)
PollDone(d, s) ==
    /\ polls[d][s].phase = "applying"
    /\ \A t \in Task : polls[d][s].job[t] = "none"
    /\ polls' = [polls EXCEPT ![d][s] = IdlePoll]
    /\ isLocalSyncing' = [isLocalSyncing EXCEPT ![d] = FALSE]
    /\ UNCHANGED <<serverVars, clock, store, syncingTaskIds, deletingTaskIds,
                   taskLastCompletedStatus, timerVars, requests, previous, first,
                   userVars, boundVars>>

-----------------------------------------------------------------------------
(* The process is killed and started again: Core Data survives, the marks, *)
(* timers, polls and calls in progress do not.                             *)
Restart(d) ==
    /\ d \in Restarters
    /\ restarts < MaxRestarts
    /\ restarts' = restarts + 1
    /\ isLocalSyncing' = [isLocalSyncing EXCEPT ![d] = FALSE]
    /\ syncingTaskIds' = [syncingTaskIds EXCEPT ![d] = {}]
    /\ deletingTaskIds' = [deletingTaskIds EXCEPT ![d] = {}]
    /\ batches' = [batches EXCEPT ![d] = {}]
    /\ unmarks' = [unmarks EXCEPT ![d] = {}]
    /\ edited' = [edited EXCEPT ![d] = {}]
    /\ requests' = {r \in requests : r.dev # d}
    /\ polls' = [polls EXCEPT ![d] = [s \in Slot |-> IdlePoll]]
    /\ previous' = [previous EXCEPT ![d] = NoDocs]
    /\ first' = [first EXCEPT ![d] = TRUE]
    /\ taskLastCompletedStatus' = [taskLastCompletedStatus EXCEPT
           ![d] = [t \in Task |-> store[d][t].done]]
    /\ UNCHANGED <<serverVars, clock, store, userVars, faults>>

-----------------------------------------------------------------------------
UserNext(d) ==
    \/ \E t \in Task : \/ AddModel(d, t)
                       \/ \E done \in BOOLEAN : UpdateModel(d, t, done)
                       \/ UpdateItem(d, t)
                       \/ DeleteModel(d, t)
    \/ OtherManagerSaves(d)

CallNext ==
    \E r \in requests : Served(r) \/ AnswerLost(r) \/ Failed(r)

TimerNext(d) ==
    \/ \E e \in edited[d] : UpdateItemSaved(d, e)
    \/ \E u \in unmarks[d] : UnmarkDeleted(d, u)
    \/ \E b \in batches[d] : BatchDone(d, b)

PollNext(d, s) ==
    \/ PollQuery(d, s) \/ PollFailed(d, s) \/ PollIgnored(d, s)
    \/ PollApplied(d, s) \/ PollDone(d, s)
    \/ \E t \in Task : SaveRemote(d, s, t) \/ RemoteSaved(d, s, t)

Next ==
    \/ CallNext
    \/ \E d \in Device : \/ UserNext(d) \/ TimerNext(d) \/ Restart(d)
                         \/ \E s \in Slot : PollNext(d, s)

Spec == Init /\ [][Next]_vars

(* Requests are served and answered, timers fire and queues run; nothing   *)
(* makes the user edit, a call fail or the process restart.                *)
Fairness ==
    /\ WF_vars(CallNext)
    /\ \A d \in Device :
        /\ WF_vars(\E u \in unmarks[d] : UnmarkDeleted(d, u))
        /\ WF_vars(\E b \in batches[d] : BatchDone(d, b))
        /\ WF_vars(\E e \in edited[d] : UpdateItemSaved(d, e))
        /\ \A s \in Slot :
            /\ WF_vars(PollQuery(d, s))
            /\ WF_vars(PollIgnored(d, s) \/ PollApplied(d, s))
            /\ WF_vars(PollDone(d, s))
            /\ \A t \in Task : WF_vars(SaveRemote(d, s, t) \/ RemoteSaved(d, s, t))

FairSpec == Spec /\ Fairness

-----------------------------------------------------------------------------
(* Safety.                                                                 *)

(* Whenever isLocalSyncing is set, a save waiting for its answers or an    *)
(* answer being applied will clear it again: the observer can not be left  *)
(* deaf for good.                                                          *)
FlagHasOwner ==
    \A d \in Device : isLocalSyncing[d] =>
        batches[d] # {} \/ \E s \in Slot : polls[d][s].phase = "applying"

(* A task stays in deletingTaskIds only while one of its deletes is on its *)
(* way or the timer of an answered one is running, whichever calls fail.   *)
DeleteMarkHasOwner ==
    \A d \in Device : \A t \in deletingTaskIds[d] :
        \/ \E r \in requests : r.dev = d /\ r.op = "delete" /\ r.task = t
        \/ \E u \in unmarks[d] : u.task = t

(* A task added while the observer was listening is in the collection or   *)
(* on its way there as long as nobody deletes it, no call fails and no     *)
(* process dies, whatever the partner and the listener do meanwhile.       *)
HandedOverIsKept ==
    faults = 0 /\ restarts = 0 =>
        \A t \in handedOver \ deleted :
            \/ server[t] # NoDoc
            \/ \E r \in requests : r.task = t /\ r.op = "set" /\ r.state = "sent"

(* The completion flag that decides whether an edit scores is the one the  *)
(* store holds, except between a remote save and its callback.             *)
StatusCacheFollowsStore ==
    \A d \in Device, t \in Task :
        \/ store[d][t] = Absent
        \/ \E s \in Slot : polls[d][s].job[t] = "callback"
        \/ taskLastCompletedStatus[d][t] = store[d][t].done

(* A device on which nobody edits holds what its last answer said, apart   *)
(* from the tasks whose save is pending: no change is lost or applied      *)
(* twice on the way from the collection to Core Data.                      *)
Passive == Device \ (Editors \cup Restarters)

PassiveDeviceMirrors ==
    \A d \in Passive, t \in Task :
        \/ \E s \in Slot : polls[d][s].job[t] = "save"
        \/ store[d][t] = previous[d][t].data

(* The same as an abstract specification: to a phone that only follows,    *)
(* with one poll at a time, all of this is the listener of Follower.       *)
Data(docs) == [t \in Task |-> docs[t].data]

Answering(d) == {s \in Slot : Asked(d, s)}

F(d) == INSTANCE Follower WITH
    Item <- Task, Blank <- Absent,
    cloud <- Data(server), seen <- Data(previous[d]), copy <- store[d],
    answer <- {Data(polls[d][s].snap) : s \in Answering(d)}

PassiveDeviceFollows ==
    /\ \A d \in Passive : F(d)!Init
    /\ [][\A d \in Passive : [F(d)!Next]_(F(d)!vars)]_vars

-----------------------------------------------------------------------------
(* Liveness, under FairSpec.                                               *)

(* The flag is always cleared again.                                       *)
FlagReleased == \A d \in Device : isLocalSyncing[d] ~> ~ isLocalSyncing[d]

(* A task added while the observer was listening reaches every phone,      *)
(* unless some user deletes it.                                            *)
HandedOverArrives ==
    \A t \in Task, d \in Device :
        t \in handedOver ~> (store[d][t] # Absent \/ t \in deleted)

(* When the edits are over, a device on which nobody edits ends up with    *)
(* the list of the collection, in spite of failing polls and of restarts   *)
(* of the device that edits.                                               *)
PassiveDeviceConverges ==
    \A d \in Passive : <>[](\A t \in Task : store[d][t] = server[t].data)

===============================================================================
