------------------------------- MODULE WishSync -------------------------------
(***************************************************************************)
(* Synchronisation of the wish list: PointsManger (one instance per        *)
(* device) and the collection couples/{coupleId}/wish.                     *)
(*                                                                         *)
(* As in TaskSync a device keeps the list in Core Data, an observer of     *)
(* local saves uploads what changed, and a poll of the collection reports  *)
(* differences.  In addition the whole answer is compared with the local   *)
(* list, after each reported difference and whenever the user opens the    *)
(* page (refreshWishListFromServer): wishes the list lacks are inserted,   *)
(* wishes the answer lacks are deleted.  That repairs what was missed, and *)
(* undoes what the collection does not know yet.                           *)
(*                                                                         *)
(* A wish's fields are abstracted to the number of the edit that wrote     *)
(* them (rev).  The devices are linked for the whole behaviour; network,   *)
(* timers and queues take any time; the process may die and start again.   *)
(***************************************************************************)
EXTENDS Naturals, FiniteSets

CONSTANTS
    Device,       \* the two phones of the couple
    Wish,         \* ids a new wish can get
    Slot,         \* polls of one device that can be in progress at once
    Editors,      \* devices whose user adds, edits and deletes
    Listeners,    \* devices whose listener is followed
    Browsers,     \* devices whose user opens the page
    Restarters,   \* devices whose process may be killed and started again
    MaxSaves,     \* bound: saves of the default contexts
    MaxFaults,    \* bound: failing calls
    MaxRestarts   \* bound: process restarts

Refresh == "refresh"
Source  == Slot \cup {Refresh}

ASSUME ConstantsAssumption ==
    /\ Editors \subseteq Device
    /\ Listeners \subseteq Device
    /\ Browsers \subseteq Device
    /\ Restarters \subseteq Device
    /\ Refresh \notin Slot
    /\ MaxSaves \in Nat /\ MaxFaults \in Nat /\ MaxRestarts \in Nat

VARIABLES
    server,       \* [Wish -> Doc]: the collection
    writes,       \* stamps handed out by the server (serverTimestamp)
    clock,        \* saves so far, on all devices
    store,        \* [Device -> [Wish -> Entry]]: Core Data
    isLocalSyncing,
    syncingWishIds,
    deletingWishIds,
    batches,      \* handled saves whose 2 s timer has not fired
    unmarks,      \* answered deletes whose 1 s timer has not fired
    edited,       \* edits saved in the background and not yet uploaded
    requests,     \* writes on their way to the server or back
    sweeps,       \* [Device -> [Source -> Sweep]]: answers being worked off
    previous,     \* the listener's last answer
    first,        \* no answer since the listener was registered
    added,        \* ids handed out by addModel
    handedOver,   \* added while the save observer was listening
    deleted,      \* wishes some user has deleted
    faults,
    restarts

serverVars == <<server, writes>>
markVars   == <<isLocalSyncing, syncingWishIds, deletingWishIds>>
timerVars  == <<batches, unmarks, edited>>
pollVars   == <<previous, first>>
userVars   == <<added, handedOver, deleted>>
boundVars  == <<faults, restarts>>
vars == <<serverVars, clock, store, markVars, timerVars, requests, sweeps,
          pollVars, userVars, boundVars>>

-----------------------------------------------------------------------------
Doc     == [rev : Nat, stamp : Nat]
NoDoc   == [rev |-> 0, stamp |-> 0]
NoDocs  == [w \in Wish |-> NoDoc]

(* copies is more than 1 after two insertions of the same id; rev is what  *)
(* was written last, whichever copy has it.                                *)
Entry   == [copies : Nat, rev : Nat]
NoEntry == [copies |-> 0, rev |-> 0]

Request == [dev : Device, op : {"set", "delete"}, wish : Wish, rev : Nat,
            group : Nat, seq : Nat, state : {"sent", "lost"}]

(* syncWishItem and deleteWishItem look the wish up and write in one       *)
(* private context; two of them that insert do not see each other.         *)
Job == [wish : Wish, op : {"save", "delete"}, via : {"change", "check"},
        step : {"find", "insert", "callback"}]
NewJob(w, op, via) == [wish |-> w, op |-> op, via |-> via, step |-> "find"]

(* An answer: asked for, handled by the listener and not yet compared with *)
(* the list, compared.  seen is processedInThisSnapshot.                   *)
Sweep == [phase : {"idle", "asked", "handled", "compared"}, snap : [Wish -> Doc],
          seen : SUBSET Wish, jobs : SUBSET Job]
IdleSweep == [phase |-> "idle", snap |-> NoDocs, seen |-> {}, jobs |-> {}]

TypeOK ==
    /\ server \in [Wish -> Doc]
    /\ writes \in Nat /\ clock \in Nat
    /\ store \in [Device -> [Wish -> Entry]]
    /\ isLocalSyncing \in [Device -> BOOLEAN]
    /\ syncingWishIds \in [Device -> SUBSET Wish]
    /\ deletingWishIds \in [Device -> SUBSET Wish]
    /\ batches \in [Device -> SUBSET [id : Nat, ids : SUBSET Wish]]
    /\ unmarks \in [Device -> SUBSET Request]
    /\ edited \in [Device -> SUBSET [wish : Wish, seq : Nat]]
    /\ requests \in SUBSET Request
    /\ sweeps \in [Device -> [Source -> Sweep]]
    /\ previous \in [Device -> [Wish -> Doc]]
    /\ first \in [Device -> BOOLEAN]
    /\ added \in SUBSET Wish /\ handedOver \in SUBSET Wish /\ deleted \in SUBSET Wish
    /\ faults \in Nat /\ restarts \in Nat

Init ==
    /\ server = NoDocs
    /\ writes = 0 /\ clock = 0
    /\ store = [d \in Device |-> [w \in Wish |-> NoEntry]]
    /\ isLocalSyncing = [d \in Device |-> FALSE]
    /\ syncingWishIds = [d \in Device |-> {}]
    /\ deletingWishIds = [d \in Device |-> {}]
    /\ batches = [d \in Device |-> {}]
    /\ unmarks = [d \in Device |-> {}]
    /\ edited = [d \in Device |-> {}]
    /\ requests = {}
    /\ sweeps = [d \in Device |-> [s \in Source |-> IdleSweep]]
    /\ previous = [d \in Device |-> NoDocs]
    /\ first = [d \in Device |-> TRUE]
    /\ added = {} /\ handedOver = {} /\ deleted = {}
    /\ faults = 0 /\ restarts = 0

Has(d, w) == store[d][w].copies > 0

Inserted(e, rev) == [copies |-> e.copies + 1, rev |-> rev]

(* A variant: the wish to delete is not looked up first.                   *)
DroppedUnseen(e) == [e EXCEPT !.copies = @ - 1]

(* One of the copies goes; a wish that is not found is left alone.         *)
Dropped(e) == IF e.copies <= 1 THEN NoEntry ELSE [e EXCEPT !.copies = @ - 1]

-----------------------------------------------------------------------------
(* Local saves.  A save of the default context runs the observer           *)
(* handleContextDidSave; with isLocalSyncing set it returns at once.       *)
Write(d, op, w, rev, group) ==
    [dev |-> d, op |-> op, wish |-> w, rev |-> rev,
     group |-> group, seq |-> clock + 1, state |-> "sent"]

Observed(d, set) == IF isLocalSyncing[d] THEN {} ELSE set

(* A variant: a save with nothing to upload leaves the flag behind.        *)
HandleNonemptySave(d, ids) ==
    /\ isLocalSyncing' = [isLocalSyncing EXCEPT ![d] = TRUE]
    /\ batches' = [batches EXCEPT
           ![d] = @ \cup IF ids = {} THEN {}
                         ELSE Observed(d, {[id |-> clock + 1, ids |-> ids]})]

HandleContextDidSave(d, ids) ==
    /\ isLocalSyncing' = [isLocalSyncing EXCEPT ![d] = TRUE]
    /\ batches' = [batches EXCEPT
           ![d] = @ \cup Observed(d, {[id |-> clock + 1, ids |-> ids]})]

Saves ==
    /\ clock < MaxSaves
    /\ clock' = clock + 1

AddModel(d, w) ==
    /\ d \in Editors /\ Saves
    /\ w \notin added
    /\ added' = added \cup {w}
    /\ store' = [store EXCEPT ![d][w] = Inserted(@, clock + 1)]
    /\ HandleContextDidSave(d, {w})
    /\ requests' = requests \cup Observed(d, {Write(d, "set", w, clock + 1, clock + 1)})
    /\ syncingWishIds' = [syncingWishIds EXCEPT ![d] = @ \cup Observed(d, {w})]
    /\ handedOver' = handedOver \cup Observed(d, {w})
    /\ UNCHANGED <<serverVars, deletingWishIds, unmarks, edited, sweeps,
                   pollVars, deleted, boundVars>>

(* PointsupdateItem saves in the background, where the observer does not   *)
(* see it, and uploads in the completion.                                  *)
PointsupdateItem(d, w) ==
    /\ d \in Editors /\ Saves
    /\ Has(d, w)
    /\ store' = [store EXCEPT ![d][w].rev = clock + 1]
    /\ edited' = [edited EXCEPT ![d] = @ \cup {[wish |-> w, seq |-> clock + 1]}]
    /\ UNCHANGED <<serverVars, markVars, batches, unmarks, requests, sweeps,
                   pollVars, userVars, boundVars>>

PointsupdateItemSaved(d, e) ==
    LET w == e.wish IN
    /\ e \in edited[d]
    /\ edited' = [edited EXCEPT ![d] = @ \ {e}]
    /\ clock' = clock + 1
    /\ \/ ~ Has(d, w) /\ UNCHANGED <<requests, syncingWishIds>>
       \/ /\ Has(d, w)
          /\ requests' = requests \cup {Write(d, "set", w, store[d][w].rev, 0)}
          /\ syncingWishIds' = [syncingWishIds EXCEPT ![d] = @ \cup {w}]
    /\ UNCHANGED <<serverVars, store, isLocalSyncing, deletingWishIds, batches,
                   unmarks, sweeps, pollVars, userVars, boundVars>>

(* Only the observer deletes the document.                                 *)
DeleteModel(d, w) ==
    /\ d \in Editors /\ Saves
    /\ Has(d, w)
    /\ store' = [store EXCEPT ![d][w] = Dropped(@)]
    /\ HandleContextDidSave(d, {})
    /\ requests' = requests \cup Observed(d, {Write(d, "delete", w, 0, clock + 1)})
    /\ deletingWishIds' = [deletingWishIds EXCEPT ![d] = @ \cup Observed(d, {w})]
    /\ deleted' = deleted \cup {w}
    /\ UNCHANGED <<serverVars, syncingWishIds, unmarks, edited, sweeps,
                   pollVars, added, handedOver, boundVars>>

(* Another manager saves the default context, or the step of syncWishItem  *)
(* that saves it 0.1 s after a background save.                            *)
OtherSave(d) ==
    /\ Saves
    /\ HandleContextDidSave(d, {})
    /\ UNCHANGED <<serverVars, store, syncingWishIds, deletingWishIds, unmarks,
                   edited, requests, sweeps, pollVars, userVars, boundVars>>

-----------------------------------------------------------------------------
(* Writes at the server, and their answers.  The variant is a write that   *)
(* needs the document, as updateData would be.                             *)
EffectOfUpdate(r) ==
    /\ server' = [server EXCEPT ![r.wish] =
           IF r.op = "set" /\ @ # NoDoc THEN [rev |-> r.rev, stamp |-> writes + 1] ELSE NoDoc]
    /\ writes' = writes + 1

Effect(r) ==
    IF r.op = "set"
    THEN /\ server' = [server EXCEPT ![r.wish] = [rev |-> r.rev, stamp |-> writes + 1]]
         /\ writes' = writes + 1
    ELSE /\ server' = [server EXCEPT ![r.wish] = NoDoc]
         /\ UNCHANGED writes

Served(r) ==
    /\ r.state = "sent"
    /\ Effect(r)
    /\ requests' = requests \ {r}
    /\ unmarks' = IF r.op = "delete" THEN [unmarks EXCEPT ![r.dev] = @ \cup {r}]
                  ELSE unmarks
    /\ UNCHANGED <<clock, store, markVars, batches, edited, sweeps, pollVars,
                   userVars, boundVars>>

AnswerLost(r) ==
    /\ r.state = "sent"
    /\ faults < MaxFaults
    /\ faults' = faults + 1
    /\ Effect(r)
    /\ requests' = (requests \ {r}) \cup {[r EXCEPT !.state = "lost"]}
    /\ UNCHANGED <<clock, store, markVars, timerVars, sweeps, pollVars,
                   userVars, restarts>>

(* A variant: a failing delete keeps its mark.                             *)
UploadMarkTakenBack(r) ==
    /\ syncingWishIds' = [syncingWishIds EXCEPT
           ![r.dev] = IF r.op = "set" THEN @ \ {r.wish} ELSE @]
    /\ UNCHANGED deletingWishIds

MarkTakenBack(r) ==
    /\ syncingWishIds' = [syncingWishIds EXCEPT
           ![r.dev] = IF r.op = "set" THEN @ \ {r.wish} ELSE @]
    /\ deletingWishIds' = [deletingWishIds EXCEPT
           ![r.dev] = IF r.op = "delete" THEN @ \ {r.wish} ELSE @]

Failed(r) ==
    /\ \/ r.state = "lost" /\ UNCHANGED faults
       \/ r.state = "sent" /\ faults < MaxFaults /\ faults' = faults + 1
    /\ requests' = requests \ {r}
    /\ MarkTakenBack(r)
    /\ UNCHANGED <<serverVars, clock, store, isLocalSyncing, timerVars, sweeps,
                   pollVars, userVars, restarts>>

(* One second after a successful delete.                                   *)
UnmarkDeleted(d, u) ==
    /\ u \in unmarks[d]
    /\ unmarks' = [unmarks EXCEPT ![d] = @ \ {u}]
    /\ deletingWishIds' = [deletingWishIds EXCEPT ![d] = @ \ {u.wish}]
    /\ UNCHANGED <<serverVars, clock, store, isLocalSyncing, syncingWishIds,
                   batches, edited, requests, sweeps, pollVars, userVars, boundVars>>

(* Two seconds after all writes of a save have been answered.              *)
BatchDone(d, b) ==
    /\ b \in batches[d]
    /\ ~ \E r \in requests : r.dev = d /\ r.group = b.id
    /\ batches' = [batches EXCEPT ![d] = @ \ {b}]
    /\ isLocalSyncing' = [isLocalSyncing EXCEPT ![d] = FALSE]
    /\ syncingWishIds' = [syncingWishIds EXCEPT ![d] = @ \ b.ids]
    /\ UNCHANGED <<serverVars, clock, store, deletingWishIds, unmarks, edited,
                   requests, sweeps, pollVars, userVars, boundVars>>

-----------------------------------------------------------------------------
(* The listener.                                                           *)
Asked(d, s) == sweeps[d][s].phase = "asked"
Snap(d, s)  == sweeps[d][s].snap

Ask(d, s) ==
    /\ sweeps[d][s].phase = "idle"
    /\ sweeps' = [sweeps EXCEPT ![d][s] = [IdleSweep EXCEPT !.phase = "asked", !.snap = server]]
    /\ UNCHANGED <<serverVars, clock, store, markVars, timerVars, requests,
                   pollVars, userVars, boundVars>>

PollQuery(d, s) == d \in Listeners /\ s \in Slot /\ Ask(d, s)

(* The page is opened (viewDidAppear).                                     *)
OpenList(d) == d \in Browsers /\ Ask(d, Refresh)

(* An error is shown or logged; nothing else happens.                      *)
AnswerFailed(d, s) ==
    /\ Asked(d, s)
    /\ faults < MaxFaults
    /\ faults' = faults + 1
    /\ sweeps' = [sweeps EXCEPT ![d][s] = IdleSweep]
    /\ UNCHANGED <<serverVars, clock, store, markVars, timerVars, requests,
                   pollVars, userVars, restarts>>

Changed(d, s)   == {w \in Wish : Snap(d, s)[w] # previous[d][w]}
Unmarked(d, s)  == Changed(d, s) \ (syncingWishIds[d] \cup deletingWishIds[d])
Delivered(d, s) == first[d] \/ Changed(d, s) # {}
Handled(d, s)   == Delivered(d, s) /\ (Unmarked(d, s) # {} \/ Changed(d, s) = {})

AnswerTaken(d, s) ==
    /\ s \in Slot
    /\ Asked(d, s)
    /\ previous' = [previous EXCEPT ![d] = Snap(d, s)]
    /\ first' = [first EXCEPT ![d] = FALSE]

(* Nothing new, or marked wishes are all that changed.                     *)
PollIgnored(d, s) ==
    /\ AnswerTaken(d, s)
    /\ ~ Handled(d, s)
    /\ sweeps' = [sweeps EXCEPT ![d][s] = IdleSweep]
    /\ UNCHANGED <<serverVars, clock, store, markVars, timerVars, requests,
                   userVars, boundVars>>

Written(d, s) == {w \in Changed(d, s) : Snap(d, s)[w] # NoDoc}
Removed(d, s) == Changed(d, s) \ Written(d, s)

(* The listener works off the changes that are not marked and leaves the   *)
(* comparison to a later turn of the main queue.                           *)
PollHandled(d, s) ==
    /\ AnswerTaken(d, s)
    /\ Handled(d, s)
    /\ isLocalSyncing' = [isLocalSyncing EXCEPT ![d] = TRUE]
    /\ sweeps' = [sweeps EXCEPT
           ![d][s].phase = "handled",
           ![d][s].seen  = Written(d, s),
           ![d][s].jobs  =
               {NewJob(w, "save", "change") : w \in Written(d, s) \ syncingWishIds[d]}
               \cup {NewJob(w, "delete", "change") : w \in Removed(d, s) \ deletingWishIds[d]}]
    /\ UNCHANGED <<serverVars, clock, store, syncingWishIds, deletingWishIds,
                   timerVars, requests, userVars, boundVars>>

(* What the list lacks and what it has too much.                           *)
Missing(d, s) ==
    {w \in Wish : /\ Snap(d, s)[w] # NoDoc /\ w \notin sweeps[d][s].seen
                  /\ ~ Has(d, w) /\ w \notin syncingWishIds[d]}

(* A variant: the comparison only inserts, as AnniManger's pull does.      *)
NothingGone(d, s) == {}

Gone(d, s) ==
    {w \in Wish : Snap(d, s)[w] = NoDoc /\ Has(d, w) /\ w \notin deletingWishIds[d]}

(* The answer is compared with the list: after the listener has handled    *)
(* it, or at once if the page has asked.                                   *)
Compare(d, s) ==
    /\ sweeps[d][s].phase = IF s = Refresh THEN "asked" ELSE "handled"
    /\ sweeps' = [sweeps EXCEPT
           ![d][s].phase = "compared",
           ![d][s].jobs  = @ \cup {NewJob(w, "save", "check") : w \in Missing(d, s)}
                             \cup {NewJob(w, "delete", "check") : w \in Gone(d, s)}]
    /\ UNCHANGED <<serverVars, clock, store, markVars, timerVars, requests,
                   pollVars, userVars, boundVars>>

(* syncWishItem and deleteWishItem.                                        *)
JobAt(d, s, j, step) ==
    /\ j \in sweeps[d][s].jobs
    /\ j.step = step

Advance(d, s, j, to) ==
    /\ sweeps' = [sweeps EXCEPT ![d][s].jobs = (@ \ {j}) \cup {[j EXCEPT !.step = to]}]
    /\ UNCHANGED <<serverVars, clock, markVars, timerVars, requests, pollVars,
                   userVars, boundVars>>

JobFound(d, s, j) ==
    /\ JobAt(d, s, j, "find")
    /\ \/ /\ j.op = "delete"
          /\ store' = [store EXCEPT ![d][j.wish] = Dropped(@)]
       \/ /\ j.op = "save" /\ Has(d, j.wish)
          /\ store' = [store EXCEPT ![d][j.wish].rev = Snap(d, s)[j.wish].rev]
    /\ Advance(d, s, j, "callback")

JobNotFound(d, s, j) ==
    /\ JobAt(d, s, j, "find")
    /\ j.op = "save" /\ ~ Has(d, j.wish)
    /\ Advance(d, s, j, "insert")
    /\ UNCHANGED store

JobInserts(d, s, j) ==
    /\ JobAt(d, s, j, "insert")
    /\ store' = [store EXCEPT ![d][j.wish] = Inserted(@, Snap(d, s)[j.wish].rev)]
    /\ Advance(d, s, j, "callback")

JobDone(d, s, j) ==
    /\ JobAt(d, s, j, "callback")
    /\ sweeps' = [sweeps EXCEPT ![d][s].jobs = @ \ {j}]
    /\ UNCHANGED <<serverVars, clock, store, markVars, timerVars, requests,
                   pollVars, userVars, boundVars>>

(* All jobs have called back: after a poll the flag is cleared.            *)
SweepDone(d, s) ==
    /\ sweeps[d][s].phase = "compared"
    /\ sweeps[d][s].jobs = {}
    /\ sweeps' = [sweeps EXCEPT ![d][s] = IdleSweep]
    /\ isLocalSyncing' = [isLocalSyncing EXCEPT ![d] = @ /\ s = Refresh]
    /\ UNCHANGED <<serverVars, clock, store, syncingWishIds, deletingWishIds,
                   timerVars, requests, pollVars, userVars, boundVars>>

-----------------------------------------------------------------------------
(* The process is killed and started again: Core Data survives.            *)
Restart(d) ==
    /\ d \in Restarters
    /\ restarts < MaxRestarts
    /\ restarts' = restarts + 1
    /\ isLocalSyncing' = [isLocalSyncing EXCEPT ![d] = FALSE]
    /\ syncingWishIds' = [syncingWishIds EXCEPT ![d] = {}]
    /\ deletingWishIds' = [deletingWishIds EXCEPT ![d] = {}]
    /\ batches' = [batches EXCEPT ![d] = {}]
    /\ unmarks' = [unmarks EXCEPT ![d] = {}]
    /\ edited' = [edited EXCEPT ![d] = {}]
    /\ requests' = {r \in requests : r.dev # d}
    /\ sweeps' = [sweeps EXCEPT ![d] = [s \in Source |-> IdleSweep]]
    /\ previous' = [previous EXCEPT ![d] = NoDocs]
    /\ first' = [first EXCEPT ![d] = TRUE]
    /\ UNCHANGED <<serverVars, clock, store, userVars, faults>>

-----------------------------------------------------------------------------
UserNext(d) ==
    \/ \E w \in Wish : AddModel(d, w) \/ PointsupdateItem(d, w) \/ DeleteModel(d, w)
    \/ OtherSave(d)
    \/ OpenList(d)

CallNext == \E r \in requests : Served(r) \/ AnswerLost(r) \/ Failed(r)

TimerNext(d) ==
    \/ \E e \in edited[d] : PointsupdateItemSaved(d, e)
    \/ \E u \in unmarks[d] : UnmarkDeleted(d, u)
    \/ \E b \in batches[d] : BatchDone(d, b)

JobNext(d, s) ==
    \E j \in sweeps[d][s].jobs : \/ JobFound(d, s, j) \/ JobNotFound(d, s, j)
                                 \/ JobInserts(d, s, j) \/ JobDone(d, s, j)

Answered(d, s) == PollIgnored(d, s) \/ PollHandled(d, s) \/ Compare(d, s)

Next ==
    \/ CallNext
    \/ \E d \in Device :
        \/ UserNext(d) \/ TimerNext(d) \/ Restart(d)
        \/ \E s \in Source : \/ PollQuery(d, s) \/ AnswerFailed(d, s) \/ Answered(d, s)
                             \/ JobNext(d, s) \/ SweepDone(d, s)

Spec == Init /\ [][Next]_vars

(* Calls are answered, timers fire and queues run.  The users of Browsers  *)
(* open the page again and again; nothing makes anybody edit, or a call    *)
(* fail, or the process die.                                               *)
Fairness ==
    /\ WF_vars(CallNext)
    /\ \A d \in Device :
        /\ WF_vars(\E e \in edited[d] : PointsupdateItemSaved(d, e))
        /\ WF_vars(\E u \in unmarks[d] : UnmarkDeleted(d, u))
        /\ WF_vars(\E b \in batches[d] : BatchDone(d, b))
        /\ WF_vars(OpenList(d))
        /\ \A s \in Source :
            /\ WF_vars(PollQuery(d, s))
            /\ WF_vars(Answered(d, s))
            /\ WF_vars(JobNext(d, s))
            /\ WF_vars(SweepDone(d, s))

FairSpec == Spec /\ Fairness

-----------------------------------------------------------------------------
(* Whenever isLocalSyncing is set, a save waiting for its answers or an    *)
(* answer of the listener being worked off will clear it: the observer,    *)
(* which skips every save meanwhile, is not deaf for good.                 *)
FlagHasOwner ==
    \A d \in Device : isLocalSyncing[d] =>
        batches[d] # {} \/ \E s \in Slot : sweeps[d][s].phase \in {"handled", "compared"}

(* A wish is marked as being deleted only while one of its deletes is on   *)
(* its way or the timer of an answered one runs: the comparison is not     *)
(* kept from deleting it for good.                                         *)
DeleteMarkHasOwner ==
    \A d \in Device : \A w \in deletingWishIds[d] :
        \/ \E r \in requests : r.dev = d /\ r.op = "delete" /\ r.wish = w
        \/ \E u \in unmarks[d] : u.wish = w

(* A wish added while the observer was listening is in the collection or   *)
(* on its way until somebody deletes it, whatever the comparisons on both  *)
(* phones delete locally, if no call fails and no process dies.            *)
HandedOverIsKept ==
    faults = 0 /\ restarts = 0 =>
        \A w \in handedOver \ deleted :
            \/ server[w] # NoDoc
            \/ \E r \in requests : r.wish = w /\ r.op = "set" /\ r.state = "sent"

(* A phone whose user opens the page again and again ends up with the      *)
(* wishes of the collection, apart from those still marked as being        *)
(* uploaded: the comparison repairs what listener, failures, restarts,     *)
(* stale answers and skipped changes have left.                            *)
ListsConverge ==
    \A d \in Browsers :
        <>[](\A w \in Wish : w \in syncingWishIds[d] \/ Has(d, w) = (server[w] # NoDoc))

(* The data of a new wish reaches Firebase at once (addModel): until some  *)
(* user deletes the wish it does not vanish from the phone it was added    *)
(* on.                                                                     *)
AddedWishKept ==
    [][\A d \in Editors, w \in Wish : Has(d, w) /\ w \notin deleted' => Has(d, w)']_vars
===============================================================================
