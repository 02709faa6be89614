------------------------------- MODULE AnniSync -------------------------------
(***************************************************************************)
(* Synchronisation of the anniversaries: AnniManger (one instance per      *)
(* device) and the collection annis/{coupleId}/anni.                       *)
(*                                                                         *)
(* Unlike the managers of tasks and wishes, AnniManger has no marks for    *)
(* single ids.  isLocalSyncing works as a lock: a save being uploaded, an  *)
(* answer being applied and a pull of the whole collection exclude each    *)
(* other.  A save that finds it set is not uploaded; an answer that finds  *)
(* it set is dropped, and pendingPull asks its holder for a pull instead.  *)
(* An anniversary can be taken out of the collection and stay on the phone *)
(* that did it (isShared off); retain keeps the listener from deleting it. *)
(*                                                                         *)
(* An anniversary's fields are abstracted to the number of the save that   *)
(* wrote them (rev).  A behaviour starts before the link; the couple stays *)
(* linked then.  Network, timers and queues take any time, the polls of a  *)
(* listener are answered in order, and the process may die and restart.    *)
(***************************************************************************)
EXTENDS Naturals

CONSTANTS
    Device,       \* the two phones of the couple
    Anni,         \* ids of anniversaries
    Day,          \* the id of the relationship anniversary: its date
    Dated,        \* devices whose user may have given that date
    Editors,      \* devices whose user adds, edits and deletes
    Savers,       \* devices whose other managers save
    Listeners,    \* devices whose listener is followed
    Patient,      \* devices whose user stops sharing only when all is quiet
    Restarters,   \* devices whose process may be killed and started again
    MaxSaves,     \* bound: saves by users and other managers
    MaxFaults     \* bound: failing calls and restarts

ASSUME ConstantsAssumption ==
    /\ Day \in Anni
    /\ Dated \subseteq Device
    /\ Editors \subseteq Device
    /\ Savers \subseteq Device
    /\ Listeners \subseteq Device
    /\ Patient \subseteq Device
    /\ Restarters \subseteq Device
    /\ MaxSaves \in Nat /\ MaxFaults \in Nat

VARIABLES
    server,       \* [Anni -> Doc]: the collection
    writes,       \* stamps handed out by the server (serverTimestamp)
    clock,        \* saves so far, on all devices
    saves,        \* those that count against MaxSaves
    linked,       \* a couple id is stored and the listener registered
    store,        \* [Device -> [Anni -> Entry]]: Core Data
    isLocalSyncing,
    pendingPull,  \* pendingPullAllAnnisFromFirestoreAfterLocalSync
    retain,       \* anniDocumentIdsRetainLocalWhenFirestoreRemoves
    work,         \* what is going to clear isLocalSyncing
    edited,       \* edits saved in the background and not yet pushed
    requests,     \* writes on their way to the server or back
    poll,         \* the listener's query
    previous,     \* the listener's last answer
    first,        \* no answer since the listener was registered
    relisten,     \* the 2 s timer that registers the listener again
    used,         \* ids handed out
    touched,      \* edited or deleted by the phone's user
    private,      \* no longer shared, and untouched by the partner since
    gaveUp,       \* a pull failed or found the collection empty
    faults,
    restarts

serverVars == <<server, writes>>
saveVars   == <<clock, saves, linked, store>>
lockVars   == <<isLocalSyncing, pendingPull, work>>
listenVars == <<poll, previous, first, relisten>>
historyVars == <<used, touched, private, gaveUp>>
boundVars  == <<faults, restarts>>
vars == <<serverVars, saveVars, lockVars, retain, edited, requests, listenVars,
          historyVars, boundVars>>

-----------------------------------------------------------------------------
NoDoc  == [rev |-> 0, stamp |-> 0]
NoDocs == [a \in Anni |-> NoDoc]
Doc    == {NoDoc} \cup [rev : Nat \ {0}, stamp : Nat \ {0}]

NoEntry == [rev |-> 0, isShared |-> FALSE]
Entry   == {NoEntry} \cup [rev : Nat \ {0}, isShared : BOOLEAN]

(* group is the save whose uploads an answer is counted for, 0 for a push  *)
(* of its own.                                                             *)
Request == [dev : Device, op : {"set", "delete"}, anni : Anni, rev : Nat,
            group : Nat, seq : Nat, state : {"sent", "lost"}]

(* annisyncItem (rev is what it writes) and annideleteItem (rev is 0).     *)
Job == [anni : Anni, rev : Nat]

(* An upload waits for the answers of a save and then 2 s; a pull is asked,*)
(* answered at the server, and becomes an apply as an answer of the        *)
(* listener does.                                                          *)
Work == [kind : {"upload"}, id : Nat]
        \cup [kind : {"asked"}]
        \cup [kind : {"pulled"}, snap : [Anni -> Doc]]
        \cup [kind : {"apply"}, jobs : SUBSET Job]

Idle == [sent |-> FALSE, snap |-> NoDocs]

TypeOK ==
    /\ server \in [Anni -> Doc]
    /\ writes \in Nat /\ clock \in Nat /\ saves \in Nat
    /\ linked \in [Device -> BOOLEAN]
    /\ store \in [Device -> [Anni -> Entry]]
    /\ isLocalSyncing \in [Device -> BOOLEAN]
    /\ pendingPull \in [Device -> BOOLEAN]
    /\ retain \in [Device -> SUBSET Anni]
    /\ work \in [Device -> SUBSET Work]
    /\ edited \in [Device -> SUBSET [anni : Anni, seq : Nat]]
    /\ requests \in SUBSET Request
    /\ poll \in [Device -> [sent : BOOLEAN, snap : [Anni -> Doc]]]
    /\ previous \in [Device -> [Anni -> Doc]]
    /\ first \in [Device -> BOOLEAN]
    /\ relisten \in [Device -> BOOLEAN]
    /\ used \in SUBSET Anni
    /\ touched \in [Device -> SUBSET Anni]
    /\ private \in [Device -> SUBSET Anni]
    /\ gaveUp \in [Device -> BOOLEAN]
    /\ faults \in Nat /\ restarts \in Nat

Init ==
    /\ server = NoDocs
    /\ writes = 0 /\ clock = 0 /\ saves = 0
    /\ linked = [d \in Device |-> FALSE]
    /\ store = [d \in Device |-> [a \in Anni |-> NoEntry]]
    /\ isLocalSyncing = [d \in Device |-> FALSE]
    /\ pendingPull = [d \in Device |-> FALSE]
    /\ retain = [d \in Device |-> {}]
    /\ work = [d \in Device |-> {}]
    /\ edited = [d \in Device |-> {}]
    /\ requests = {}
    /\ poll = [d \in Device |-> Idle]
    /\ previous = [d \in Device |-> NoDocs]
    /\ first = [d \in Device |-> TRUE]
    /\ relisten = [d \in Device |-> FALSE]
    /\ used = {}
    /\ touched = [d \in Device |-> {}]
    /\ private = [d \in Device |-> {}]
    /\ gaveUp = [d \in Device |-> FALSE]
    /\ faults = 0 /\ restarts = 0

Has(d, a) == store[d][a] # NoEntry

-----------------------------------------------------------------------------
(* Local saves.  A save of the default context runs the observer           *)
(* handleContextDidSave; with isLocalSyncing set it returns at once.       *)
Write(d, op, a, rev, group, seq) ==
    [dev |-> d, op |-> op, anni |-> a, rev |-> rev,
     group |-> group, seq |-> seq, state |-> "sent"]

Observed(d, set) == IF isLocalSyncing[d] THEN {} ELSE set

Upload == [kind |-> "upload", id |-> clock + 1]

(* A variant: the observer does not take part in the lock.                 *)
HandleEverySave(d) ==
    /\ isLocalSyncing' = [isLocalSyncing EXCEPT ![d] = TRUE]
    /\ work' = [work EXCEPT ![d] = @ \cup {Upload}]

HandleContextDidSave(d) ==
    /\ isLocalSyncing' = [isLocalSyncing EXCEPT ![d] = TRUE]
    /\ work' = [work EXCEPT ![d] = @ \cup Observed(d, {Upload})]

Save == clock' = clock + 1

Saves ==
    /\ saves < MaxSaves
    /\ saves' = saves + 1
    /\ Save

(* The phone hears that it is linked: it creates the anniversary of the    *)
(* day the user gave, registers the listener, and pushes the anniversary   *)
(* once more in case the observer has skipped it.                          *)
CoupleDidLink(d) ==
    /\ ~ linked[d]
    /\ linked' = [linked EXCEPT ![d] = TRUE]
    /\ \/ /\ d \in Dated
          /\ Save
          /\ store' = [store EXCEPT ![d][Day] = [rev |-> clock + 1, isShared |-> TRUE]]
          /\ HandleContextDidSave(d)
          /\ requests' = requests \cup {Write(d, "set", Day, clock + 1, 0, clock + 1)}
                 \cup Observed(d, {Write(d, "set", Day, clock + 1, clock + 1, clock + 1)})
          /\ used' = used \cup {Day}
       \/ UNCHANGED <<clock, store, isLocalSyncing, work, requests, used>>
    /\ UNCHANGED <<serverVars, saves, pendingPull, retain, edited, listenVars,
                   touched, private, gaveUp, boundVars>>

UserMay(d) == linked[d] /\ d \in Editors /\ Saves

(* A new id; that of the date stays free for a phone that may still link.  *)
AddModel(d, a, shared) ==
    /\ UserMay(d)
    /\ a \notin used
    /\ a = Day => \A e \in Dated : linked[e]
    /\ used' = used \cup {a}
    /\ store' = [store EXCEPT ![d][a] = [rev |-> clock + 1, isShared |-> shared]]
    /\ HandleContextDidSave(d)
    /\ requests' = requests \cup IF shared
           THEN Observed(d, {Write(d, "set", a, clock + 1, clock + 1, clock + 1)}) ELSE {}
    /\ UNCHANGED <<serverVars, linked, pendingPull, retain, edited, listenVars,
                   touched, private, gaveUp, boundVars>>

(* Nothing is on its way that the phone will still hear of.                *)
Quiet(d) ==
    /\ requests = {}
    /\ edited[d] = {} /\ ~ poll[d].sent
    /\ d \in Listeners => server = previous[d]
    /\ \A v \in work[d] : v.kind = "upload"

(* AnniupdateItem saves in the background, where the observer does not see *)
(* it, and pushes in the completion.                                       *)
AnniupdateItem(d, a, shared) ==
    /\ UserMay(d)
    /\ Has(d, a)
    /\ d \in Patient /\ ~ shared => Quiet(d)
    /\ store' = [store EXCEPT ![d][a] = [rev |-> clock + 1, isShared |-> shared]]
    /\ edited' = [edited EXCEPT ![d] = @ \cup {[anni |-> a, seq |-> clock + 1]}]
    /\ touched' = [touched EXCEPT ![d] = @ \cup {a}]
    /\ private' = [private EXCEPT ![d] = IF shared THEN @ \ {a} ELSE @ \cup {a}]
    /\ UNCHANGED <<serverVars, linked, lockVars, retain, requests, listenVars,
                   used, gaveUp, boundVars>>

(* A variant: the document is deleted like any other.                      *)
RegisteredNot(d, a) == UNCHANGED retain

(* The phone keeps its own copy when the document goes.                    *)
Registered(d, a) == retain' = [retain EXCEPT ![d] = @ \cup {a}]

(* Shared: uploaded.  No longer shared: registered, and the document       *)
(* deleted.                                                                *)
AnniupdateItemSaved(d, e) ==
    LET a == e.anni IN
    /\ e \in edited[d]
    /\ edited' = [edited EXCEPT ![d] = @ \ {e}]
    /\ \/ ~ Has(d, a) /\ UNCHANGED <<requests, retain>>
       \/ /\ store[d][a].isShared
          /\ requests' = requests \cup {Write(d, "set", a, store[d][a].rev, 0, e.seq)}
          /\ UNCHANGED retain
       \/ /\ Has(d, a) /\ ~ store[d][a].isShared
          /\ Registered(d, a)
          /\ requests' = requests \cup {Write(d, "delete", a, 0, 0, e.seq)}
    /\ UNCHANGED <<serverVars, saveVars, lockVars, listenVars, historyVars, boundVars>>

(* Only the observer deletes the document, and only of a shared one.       *)
DeleteModel(d, a) ==
    /\ UserMay(d)
    /\ Has(d, a)
    /\ store' = [store EXCEPT ![d][a] = NoEntry]
    /\ HandleContextDidSave(d)
    /\ requests' = requests \cup
           IF store[d][a].isShared
           THEN Observed(d, {Write(d, "delete", a, 0, clock + 1, clock + 1)}) ELSE {}
    /\ touched' = [touched EXCEPT ![d] = @ \cup {a}]
    /\ private' = [private EXCEPT ![d] = @ \ {a}]
    /\ UNCHANGED <<serverVars, linked, pendingPull, retain, edited, listenVars,
                   used, gaveUp, boundVars>>

(* Another manager saves the default context.                              *)
OtherSave(d) ==
    /\ d \in Savers /\ Saves
    /\ HandleContextDidSave(d)
    /\ UNCHANGED <<serverVars, linked, store, pendingPull, retain, edited,
                   requests, listenVars, historyVars, boundVars>>

-----------------------------------------------------------------------------
(* Writes at the server, and their answers.                                *)
MoreFaults == faults + restarts < MaxFaults

(* A variant: a deletion empties the document instead of removing it.      *)
EffectEmptied(r) ==
    /\ server' = [server EXCEPT ![r.anni] = [rev |-> r.rev, stamp |-> writes + 1]]
    /\ writes' = writes + 1
    /\ UNCHANGED private

Effect(r) ==
    /\ \/ /\ r.op = "set"
          /\ server' = [server EXCEPT ![r.anni] = [rev |-> r.rev, stamp |-> writes + 1]]
          /\ writes' = writes + 1
       \/ /\ r.op = "delete"
          /\ server' = [server EXCEPT ![r.anni] = NoDoc]
          /\ UNCHANGED writes
    /\ private' = [d \in Device |-> IF d = r.dev THEN private[d] ELSE private[d] \ {r.anni}]

Served(r) ==
    /\ r.state = "sent"
    /\ Effect(r)
    /\ requests' = requests \ {r}
    /\ UNCHANGED <<saveVars, lockVars, retain, edited, listenVars, used, touched, gaveUp, boundVars>>

AnswerLost(r) ==
    /\ r.state = "sent"
    /\ MoreFaults
    /\ faults' = faults + 1
    /\ Effect(r)
    /\ requests' = (requests \ {r}) \cup {[r EXCEPT !.state = "lost"]}
    /\ UNCHANGED <<saveVars, lockVars, retain, edited, listenVars, used, touched, gaveUp, restarts>>

(* A failure is logged; nothing is tried again.                            *)
Failed(r) ==
    /\ \/ r.state = "lost" /\ UNCHANGED faults
       \/ r.state = "sent" /\ MoreFaults /\ faults' = faults + 1
    /\ requests' = requests \ {r}
    /\ UNCHANGED <<serverVars, saveVars, lockVars, retain, edited, listenVars,
                   historyVars, restarts>>

-----------------------------------------------------------------------------
Pull == [kind |-> "asked"]

(* A variant: nobody asks for the pull.                                    *)
DoneForgetting(d, v) ==
    /\ work' = [work EXCEPT ![d] = @ \ {v}]
    /\ isLocalSyncing' = [isLocalSyncing EXCEPT ![d] = FALSE]
    /\ UNCHANGED pendingPull

(* The holder of the lock is done: it clears the flag, and asks for a pull *)
(* if an answer was dropped meanwhile (schedulePullAllAnnisIfPending).     *)
Done(d, v) ==
    /\ work' = [work EXCEPT ![d] = (@ \ {v}) \cup IF pendingPull[d] THEN {Pull} ELSE {}]
    /\ isLocalSyncing' = [isLocalSyncing EXCEPT ![d] = pendingPull[d]]
    /\ pendingPull' = [pendingPull EXCEPT ![d] = FALSE]

(* Two seconds after all writes of a save have been answered.              *)
UploadDone(d, v) ==
    /\ v \in work[d] /\ v.kind = "upload"
    /\ \A r \in requests : r.dev = d => r.group # v.id
    /\ Done(d, v)
    /\ UNCHANGED <<serverVars, saveVars, retain, edited, requests, listenVars,
                   historyVars, boundVars>>

Apply(jobs) == [kind |-> "apply", jobs |-> jobs]

Become(d, v, new) == work' = [work EXCEPT ![d] = (@ \ {v}) \cup {new}]

(* annisyncItem finds or creates the anniversary, annideleteItem looks it  *)
(* up first; both report back in any case.                                 *)
JobRuns(d, v, j) ==
    /\ v \in work[d] /\ v.kind = "apply"
    /\ j \in v.jobs
    /\ store' = [store EXCEPT ![d][j.anni] =
           IF j.rev = 0 THEN NoEntry ELSE [rev |-> j.rev, isShared |-> TRUE]]
    /\ Become(d, v, Apply(v.jobs \ {j}))
    /\ UNCHANGED <<serverVars, clock, saves, linked, isLocalSyncing, pendingPull,
                   retain, edited, requests, listenVars, historyVars, boundVars>>

ApplyDone(d, v) ==
    /\ v = Apply({})
    /\ v \in work[d]
    /\ Done(d, v)
    /\ UNCHANGED <<serverVars, saveVars, retain, edited, requests, listenVars,
                   historyVars, boundVars>>

(* pullAllAnnisFromFirestoreAndMergeIntoCoreData.                          *)
Saved(docs) == {a \in Anni : docs[a] # NoDoc}
Syncs(docs, as) == {[anni |-> a, rev |-> docs[a].rev] : a \in as}

PullServed(d) ==
    /\ Pull \in work[d]
    /\ Become(d, Pull, [kind |-> "pulled", snap |-> server])
    /\ UNCHANGED <<serverVars, saveVars, isLocalSyncing, pendingPull, retain, edited,
                   requests, listenVars, historyVars, boundVars>>

PullAnswered(d, v) ==
    /\ v \in work[d] /\ v.kind = "pulled"
    /\ Saved(v.snap) # {}
    /\ Become(d, v, Apply(Syncs(v.snap, Saved(v.snap))))
    /\ UNCHANGED <<serverVars, saveVars, isLocalSyncing, pendingPull, retain, edited,
                   requests, listenVars, historyVars, boundVars>>

(* An error and an empty collection clear the flag, and that is all.       *)
GivesUp(d, v) ==
    /\ work' = [work EXCEPT ![d] = @ \ {v}]
    /\ isLocalSyncing' = [isLocalSyncing EXCEPT ![d] = FALSE]
    /\ gaveUp' = [gaveUp EXCEPT ![d] = TRUE]
    /\ UNCHANGED <<serverVars, saveVars, pendingPull, retain, edited, requests,
                   listenVars, used, touched, private, restarts>>

PullEmpty(d, v) ==
    /\ v \in work[d] /\ v.kind = "pulled"
    /\ Saved(v.snap) = {}
    /\ GivesUp(d, v)
    /\ UNCHANGED faults

PullFailed(d) ==
    /\ Pull \in work[d]
    /\ MoreFaults
    /\ faults' = faults + 1
    /\ GivesUp(d, Pull)

-----------------------------------------------------------------------------
(* The listener.                                                           *)
Listening(d) == d \in Listeners /\ linked[d] /\ ~ poll[d].sent

News(d) == first[d] \/ server # previous[d]

(* A query that finds nothing new reports nothing.                         *)
PollUnchanged(d) ==
    /\ Listening(d) /\ ~ News(d)
    /\ UNCHANGED vars

PollQuery(d) ==
    /\ Listening(d) /\ News(d)
    /\ poll' = [poll EXCEPT ![d] = [sent |-> TRUE, snap |-> server]]
    /\ UNCHANGED <<serverVars, saveVars, lockVars, retain, edited, requests,
                   previous, first, relisten, historyVars, boundVars>>

(* An error is answered by registering the listener again, 2 s later; the  *)
(* old one goes on until then.                                             *)
PollFailed(d) ==
    /\ Listening(d)
    /\ MoreFaults
    /\ faults' = faults + 1
    /\ relisten' = [relisten EXCEPT ![d] = TRUE]
    /\ UNCHANGED <<serverVars, saveVars, lockVars, retain, edited, requests,
                   poll, previous, first, historyVars, restarts>>

Relisten(d) ==
    /\ relisten[d] /\ ~ poll[d].sent
    /\ relisten' = [relisten EXCEPT ![d] = FALSE]
    /\ previous' = [previous EXCEPT ![d] = NoDocs]
    /\ first' = [first EXCEPT ![d] = TRUE]
    /\ UNCHANGED <<serverVars, saveVars, lockVars, retain, edited, requests, poll,
                   historyVars, boundVars>>

(* A variant: only documents that come or go are reported.                 *)
ChangedIds(d) == {a \in Anni : (poll[d].snap[a] = NoDoc) # (previous[d][a] = NoDoc)}

Changed(d) == {a \in Anni : poll[d].snap[a] # previous[d][a]}
AnswerTaken(d) ==
    /\ poll[d].sent
    /\ poll' = [poll EXCEPT ![d] = Idle]
    /\ previous' = [previous EXCEPT ![d] = poll[d].snap]
    /\ first' = [first EXCEPT ![d] = FALSE]
    /\ UNCHANGED <<serverVars, saveVars, edited, requests, relisten, historyVars, boundVars>>

(* A first answer without documents.                                       *)
PollIgnored(d) ==
    /\ AnswerTaken(d)
    /\ Changed(d) = {} /\ ~ isLocalSyncing[d]
    /\ UNCHANGED <<lockVars, retain>>

PollDropped(d) ==
    /\ AnswerTaken(d)
    /\ isLocalSyncing[d]
    /\ pendingPull' = [pendingPull EXCEPT ![d] = TRUE]
    /\ UNCHANGED <<isLocalSyncing, work, retain>>

Removed(d) == {a \in Changed(d) : poll[d].snap[a] = NoDoc}

PollApplied(d) ==
    LET written == Changed(d) \ Removed(d)
        dropped == Removed(d) \ retain[d]
    IN
    /\ AnswerTaken(d)
    /\ Changed(d) # {} /\ ~ isLocalSyncing[d]
    /\ isLocalSyncing' = [isLocalSyncing EXCEPT ![d] = TRUE]
    /\ work' = [work EXCEPT ![d] = @ \cup
           {Apply(Syncs(poll[d].snap, written) \cup {[anni |-> a, rev |-> 0] : a \in dropped})}]
    /\ retain' = [retain EXCEPT ![d] = @ \ Removed(d)]
    /\ UNCHANGED pendingPull

-----------------------------------------------------------------------------
(* The process is killed and started again: Core Data and the link survive,*)
(* requests that have not been served are lost.                            *)
Restart(d) ==
    /\ d \in Restarters
    /\ MoreFaults
    /\ restarts' = restarts + 1
    /\ isLocalSyncing' = [isLocalSyncing EXCEPT ![d] = FALSE]
    /\ pendingPull' = [pendingPull EXCEPT ![d] = FALSE]
    /\ retain' = [retain EXCEPT ![d] = {}]
    /\ work' = [work EXCEPT ![d] = {}]
    /\ edited' = [edited EXCEPT ![d] = {}]
    /\ requests' = {r \in requests : r.dev # d}
    /\ poll' = [poll EXCEPT ![d] = Idle]
    /\ previous' = [previous EXCEPT ![d] = NoDocs]
    /\ first' = [first EXCEPT ![d] = TRUE]
    /\ relisten' = [relisten EXCEPT ![d] = FALSE]
    /\ UNCHANGED <<serverVars, saveVars, historyVars, faults>>

-----------------------------------------------------------------------------
UserNext(d) ==
    \/ \E a \in Anni : DeleteModel(d, a)
    \/ \E a \in Anni, shared \in BOOLEAN : AddModel(d, a, shared) \/ AnniupdateItem(d, a, shared)
    \/ OtherSave(d)

CallNext == \E r \in requests : Served(r) \/ AnswerLost(r) \/ Failed(r)

WorkNext(d) ==
    \/ PullServed(d)
    \/ \E v \in work[d] :
        \/ UploadDone(d, v) \/ ApplyDone(d, v) \/ PullAnswered(d, v) \/ PullEmpty(d, v)
        \/ v.kind = "apply" /\ \E j \in v.jobs : JobRuns(d, v, j)

Answered(d) == PollIgnored(d) \/ PollDropped(d) \/ PollApplied(d)

Next ==
    \/ CallNext
    \/ \E d \in Device :
        \/ CoupleDidLink(d) \/ UserNext(d) \/ WorkNext(d)
        \/ \E e \in edited[d] : AnniupdateItemSaved(d, e)
        \/ PollUnchanged(d) \/ PollQuery(d) \/ PollFailed(d) \/ Answered(d) \/ Relisten(d)
        \/ PullFailed(d) \/ Restart(d)

Spec == Init /\ [][Next]_vars

(* Calls are answered, timers fire and queues run.  Nothing makes anybody  *)
(* link or edit, a call fail, or the process die.                          *)
Fairness ==
    /\ WF_vars(CallNext)
    /\ \A d \in Device :
        /\ WF_vars(\E e \in edited[d] : AnniupdateItemSaved(d, e))
        /\ WF_vars(WorkNext(d))
        /\ WF_vars(PollQuery(d))
        /\ WF_vars(Answered(d))
        /\ WF_vars(Relisten(d))

FairSpec == Spec /\ Fairness

-----------------------------------------------------------------------------
(* isLocalSyncing is a lock: while it is set exactly one upload, pull or   *)
(* application is under way, and none while it is clear.  So a document is *)
(* never applied twice at a time, and the flag is always cleared again by  *)
(* the one that has set it.                                                *)
OneAtATime ==
    \A d \in Device :
        /\ isLocalSyncing[d] <=> work[d] # {}
        /\ \A v, w \in work[d] : v = w

(* A dropped answer is made up for: as long as a pull is owed, somebody    *)
(* holds the lock and will ask for it, unless a pull has given up before.  *)
OwedPullHasOwner ==
    \A d \in Device : pendingPull[d] => isLocalSyncing[d] \/ gaveUp[d]

(* Where no process dies, a patient user who stops sharing an anniversary  *)
(* keeps it until they or the partner write or delete it again; failures,  *)
(* removals that are dropped and later pulls make no difference.           *)
UnsharedIsKept ==
    restarts = 0 => \A d \in Patient : \A a \in private[d] : Has(d, a)

(* What stays in the collection reaches every linked phone whose own user  *)
(* has not edited or deleted it, whatever answers were dropped, polls      *)
(* failed or processes died, unless a pull has given up.                   *)
SharedArrives ==
    \A d \in Listeners :
        <>[](linked[d] /\ ~ gaveUp[d] =>
                \A a \in Anni \ touched[d] :
                    server[a] # NoDoc => store[d][a].rev = server[a].rev)

(* A partner who has not written the anniversary loses it when sharing     *)
(* ends (AnniupdateItem: the partner receives the deletion and deletes     *)
(* their copy).                                                            *)
UnsharedLeavesPartner ==
    \A d \in Device, e \in Listeners \ Editors :
        <>[](\A a \in Anni : a \in private[d] => ~ Has(e, a))
===============================================================================
