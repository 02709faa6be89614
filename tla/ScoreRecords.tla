----------------------------- MODULE ScoreRecords -----------------------------
(***************************************************************************)
(* The archive of scores: ScoreManager (one instance per phone) and the    *)
(* collection couples/{coupleId}/score_records, for one task worth one     *)
(* point.                                                                  *)
(*                                                                         *)
(* Completing the task adds a record for each user it is assigned to,      *)
(* taking the completion back removes them, a check every five minutes     *)
(* adds a penalty once the deadline has passed, the edit form rewrites the *)
(* records and deleting the task removes them all.  Each of these first    *)
(* asks the collection and acts on the answer; each phone keeps a cache of *)
(* the records (scoreRecordsCache) that decides whether a completion       *)
(* counts.                                                                 *)
(*                                                                         *)
(* The task itself reaches the other phone as TaskSync describes: here its *)
(* completion flag and its deletion are adopted at any later time.         *)
(***************************************************************************)
EXTENDS Integers, FiniteSets

CONSTANTS
    Phone,        \* the phones that are in use; a phone stands for its user
    Partner,      \* [Phone -> user]: the user's partner (getCoupleUsers)
    Assign,       \* assignIndex: "partner" (0), "self" (1) or "both" (2)
    Acts,         \* what users do to the task: of {"tap", "edit", "delete"}
    Waits,        \* who waits until all else has settled: "users", "checks"
    MaxActs,      \* bound: user actions
    MaxChecks,    \* bound: checks for overdue tasks
    MaxBrowses,   \* bound: visits of the breakdown page
    MaxFaults,    \* bound: failing queries and writes of the calls
    MaxMisses,    \* bound: failing refreshes of the cache
    MaxRestarts   \* bound: process restarts

User == Phone \cup {Partner[p] : p \in Phone}

ASSUME ConstantsAssumption ==
    /\ Assign \in {"partner", "self", "both"}
    /\ Acts \subseteq {"tap", "edit", "delete"}
    /\ Waits \subseteq {"users", "checks"}
    /\ MaxActs \in Nat /\ MaxChecks \in Nat /\ MaxBrowses \in Nat
    /\ MaxFaults \in Nat /\ MaxMisses \in Nat /\ MaxRestarts \in Nat

VARIABLES
    records,      \* the collection score_records
    cache,        \* [Phone -> SUBSET Record]: scoreRecordsCache
    done,         \* [Phone -> BOOLEAN]: isCompleted in Core Data
    published,    \* isCompleted in the items collection
    holds,        \* [Phone -> BOOLEAN]: the phone has the task
    deleted,      \* the task has been deleted from the collection
    late,         \* the deadline is over
    jobs,         \* ScoreManager's calls in progress
    calls,        \* operations so far: names their jobs and records
    lateAwards,   \* history: keys of the records of a late completion
    deductions,   \* history: keys of the records added as penalties
    acts, checks, browses, faults, misses, restarts

taskVars  == <<done, published, holds, deleted, late>>
history   == <<lateAwards, deductions>>
boundVars == <<acts, checks, browses, faults, misses, restarts>>
vars == <<records, cache, taskVars, jobs, calls, history, boundVars>>

-----------------------------------------------------------------------------
(* n numbers the operation that wrote the record; one operation writes at  *)
(* most one record per user, so n and target stand for its recordId.       *)
Record == [n : Nat, target : User, score : {-1, 0, 1}, isOnTime : BOOLEAN]
Key(r) == <<r.n, r.target>>

(* A call in progress: at first it waits for the answer of a query, then   *)
(* for the end of the writes to the records it found.  A refresh waits for *)
(* the collection to be read, and then for the answer.                     *)
Job == [n : Nat, phone : Phone, op : {"upload", "withdraw", "remove",
                           "removeAgain", "edit", "check", "refresh", "expire"},
        target : User, step : {"query", "write", "answer"}, docs : SUBSET Record]

Query(p, op, u) == [n |-> calls + 1, phone |-> p, op |-> op, target |-> u,
                    step |-> "query", docs |-> {}]
Upload(p, r)    == [n |-> calls + 1, phone |-> p, op |-> "upload", target |-> r.target,
                    step |-> "write", docs |-> {r}]

NewRecord(u, score, onTime) ==
    [n |-> calls + 1, target |-> u, score |-> score, isOnTime |-> onTime]

TypeOK ==
    /\ records \in SUBSET Record
    /\ cache \in [Phone -> SUBSET Record]
    /\ done \in [Phone -> BOOLEAN] /\ published \in BOOLEAN
    /\ holds \in [Phone -> BOOLEAN] /\ deleted \in BOOLEAN
    /\ late \in BOOLEAN
    /\ jobs \in SUBSET Job
    /\ calls \in Nat
    /\ lateAwards \in SUBSET (Nat \X User) /\ deductions \in SUBSET (Nat \X User)
    /\ acts \in Nat /\ checks \in Nat /\ browses \in Nat
    /\ faults \in Nat /\ misses \in Nat /\ restarts \in Nat

Init ==
    /\ records = {}
    /\ cache = [p \in Phone |-> {}]
    /\ done = [p \in Phone |-> FALSE] /\ published = FALSE
    /\ holds = [p \in Phone |-> TRUE] /\ deleted = FALSE
    /\ late = FALSE
    /\ jobs = {}
    /\ calls = 0
    /\ lateAwards = {} /\ deductions = {}
    /\ acts = 0 /\ checks = 0 /\ browses = 0
    /\ faults = 0 /\ misses = 0 /\ restarts = 0

-----------------------------------------------------------------------------
(* Whom a task is for, seen from the user of p.                            *)
Targets(p) ==
    CASE Assign = "partner" -> {Partner[p]}
      [] Assign = "self"    -> {p}
      [] Assign = "both"    -> {p, Partner[p]}

(* The task counts as completed before if the cache has a record of it     *)
(* that is not a penalty.                                                  *)
AwardedBefore(p) == \E r \in cache[p] : r.score >= 0

Score == IF late THEN 0 ELSE 1

(* calculateTaskScore: a completion on time earns the points, a late one 0.*)
CalculateTaskScore(p) ==
    LET new == {NewRecord(u, Score, ~ late) : u \in Targets(p)} IN
    IF AwardedBefore(p)
    THEN UNCHANGED <<cache, jobs, lateAwards>>
    ELSE /\ cache' = [cache EXCEPT ![p] = @ \cup new]
         /\ jobs' = jobs \cup {Upload(p, r) : r \in new}
         /\ lateAwards' = IF late THEN lateAwards \cup {Key(r) : r \in new}
                          ELSE lateAwards

(* withdrawTaskScore: each target's records of the completion are removed. *)
WithdrawTaskScore(p) ==
    /\ jobs' = jobs \cup {Query(p, "withdraw", u) : u \in Targets(p)}
    /\ UNCHANGED <<cache, lateAwards>>

Settled ==
    /\ jobs = {}
    /\ \A p \in Phone : holds[p] = ~ deleted /\ (holds[p] => done[p] = published)

UserActs(p, act) ==
    /\ act \in Acts
    /\ holds[p]
    /\ "users" \in Waits => Settled
    /\ acts < MaxActs
    /\ acts' = acts + 1
    /\ calls' = calls + 1

(* The completion box (updateModel).                                       *)
Tap(p) ==
    /\ UserActs(p, "tap")
    /\ done' = [done EXCEPT ![p] = ~ @]
    /\ published' = ~ done[p]
    /\ IF done[p] THEN WithdrawTaskScore(p) ELSE CalculateTaskScore(p)
    /\ UNCHANGED <<records, holds, deleted, late, deductions, checks, browses, faults,
                   misses, restarts>>

(* The edit form may move the deadline; it always rewrites the records     *)
(* (updateScoreRecordsTaskInfo).                                           *)
Edit(p) ==
    /\ UserActs(p, "edit")
    /\ late' \in {late, FALSE}
    /\ jobs' = jobs \cup {Query(p, "edit", p)}
    /\ UNCHANGED <<records, cache, done, published, holds, deleted, history,
                   checks, browses, faults, misses, restarts>>

(* deleteModel, and deleteItem on the phone the deletion arrives at, both  *)
(* remove the records (minusScoreForDeletedTask).  On the deleting phone   *)
(* the save observer does it again, unless a save is being uploaded.       *)
Delete(p) ==
    /\ UserActs(p, "delete")
    /\ holds' = [holds EXCEPT ![p] = FALSE]
    /\ deleted' = TRUE
    /\ \E ops \in {{"remove"}, {"remove", "removeAgain"}} :
           jobs' = jobs \cup {Query(p, op, p) : op \in ops}
    /\ UNCHANGED <<records, cache, done, published, late, history, checks, browses,
                   faults, misses, restarts>>

DeletionSynced(p) ==
    /\ deleted /\ holds[p]
    /\ holds' = [holds EXCEPT ![p] = FALSE]
    /\ calls' = calls + 1
    /\ jobs' = jobs \cup {Query(p, "remove", p)}
    /\ UNCHANGED <<records, cache, done, published, deleted, late, history, boundVars>>

(* The flag of the other phone arrives; syncItem leaves the scores alone.  *)
FlagSynced(p) ==
    /\ holds[p] /\ ~ deleted /\ done[p] # published
    /\ done' = [done EXCEPT ![p] = published]
    /\ UNCHANGED <<records, cache, published, holds, deleted, late, jobs, calls,
                   history, boundVars>>

DeadlinePasses ==
    /\ ~ late
    /\ late' = TRUE
    /\ UNCHANGED <<records, cache, done, published, holds, deleted, jobs, calls,
                   history, boundVars>>

-----------------------------------------------------------------------------
(* checkAndDeductOverdueTasks, on launch and every five minutes: with the  *)
(* records of getAllScoreRecords at hand, an overdue task without a        *)
(* penalty gets one.  A cache that is not empty and not too old answers    *)
(* at once and is refreshed behind; otherwise the collection is asked.     *)
Overdue(p) == holds[p] /\ late /\ ~ done[p]

Penalties(p, seen) ==
    IF Overdue(p) /\ ~ \E r \in seen : r.score < 0 /\ ~ r.isOnTime
    THEN {Query(p, "expire", u) : u \in Targets(p)} ELSE {}

(* Checks are 300 s apart, more than the requests of one can take: a phone *)
(* runs one at a time.                                                     *)
CheckRuns(p) ==
    \E j \in jobs :
        /\ j.phone = p
        /\ \/ j.op \in {"check", "expire"}
           \/ j.op = "upload" /\ \E r \in j.docs : r.score < 0

Checks(p) ==
    /\ ~ CheckRuns(p)
    /\ "checks" \in Waits => Settled
    /\ checks < MaxChecks
    /\ checks' = checks + 1
    /\ calls' = calls + 1
    /\ UNCHANGED <<records, cache, taskVars, history, acts, browses, faults, misses, restarts>>

CheckFromCache(p) ==
    /\ cache[p] # {}
    /\ jobs' = jobs \cup Penalties(p, cache[p]) \cup {Query(p, "refresh", p)}
    /\ Checks(p)

CheckFromServer(p) ==
    /\ jobs' = jobs \cup {Query(p, "check", p)}
    /\ Checks(p)

(* The breakdown of the points is opened.                                  *)
Browse(p) ==
    /\ "checks" \in Waits => Settled
    /\ browses < MaxBrowses
    /\ browses' = browses + 1
    /\ jobs' = jobs \cup {Query(p, "refresh", p)}
    /\ calls' = calls + 1
    /\ UNCHANGED <<records, cache, taskVars, history, acts, checks, faults, misses, restarts>>

(* The collection is read; others may write to it before the answer comes. *)
Served(j) ==
    /\ j.op \in {"check", "refresh"} /\ j.step = "query"
    /\ jobs' = (jobs \ {j}) \cup {[j EXCEPT !.step = "answer", !.docs = records]}
    /\ UNCHANGED <<records, cache, taskVars, calls, history, boundVars>>

(* The answer replaces the cache.  After an error it is the empty list.    *)
RefreshAnswered(j, answer) ==
    /\ cache' = [cache EXCEPT ![j.phone] = answer]
    /\ calls' = calls + 1
    /\ jobs' = (jobs \ {j}) \cup IF j.op = "check" THEN Penalties(j.phone, answer) ELSE {}
    /\ UNCHANGED <<records, taskVars, history, acts, checks, browses, faults, restarts>>

Refreshed(j) ==
    /\ j.op \in {"check", "refresh"}
    /\ \/ j.step = "answer" /\ RefreshAnswered(j, j.docs) /\ UNCHANGED misses
       \/ misses < MaxMisses /\ misses' = misses + 1 /\ RefreshAnswered(j, {})

-----------------------------------------------------------------------------
(* The other calls.                                                        *)
Uploaded(j) ==
    /\ j.op = "upload"
    /\ records' = records \cup j.docs
    /\ jobs' = jobs \ {j}
    /\ UNCHANGED <<cache, taskVars, calls, history, boundVars>>

Removal == {"remove", "removeAgain"}

(* Variants of the queries: removals find points only, a withdrawal finds  *)
(* penalties too, or a penalty replaces completions without points as well.*)
SoughtPoints(j) ==
    {r \in records :
        CASE j.op \in {"withdraw", "expire"} -> r.target = j.target /\ r.score > 0
          [] j.op \in Removal -> r.score > 0
          [] OTHER             -> TRUE}

SoughtAll(j) ==
    {r \in records :
        CASE j.op = "withdraw" -> r.target = j.target
          [] j.op = "expire"   -> r.target = j.target /\ r.score > 0
          [] OTHER             -> TRUE}

SoughtCompletions(j) ==
    {r \in records :
        CASE j.op \in {"withdraw", "expire"} -> r.target = j.target /\ r.score >= 0
          [] OTHER                           -> TRUE}

(* What the query of a call is for.                                        *)
Sought(j) ==
    {r \in records :
        CASE j.op = "withdraw" -> r.target = j.target /\ r.score >= 0
          [] j.op = "expire"   -> r.target = j.target /\ r.score > 0
          [] OTHER             -> TRUE}

(* Without a record there is nothing to write.                             *)
Found(j) ==
    /\ j.step = "query" /\ j.op \in Removal \cup {"withdraw", "edit"}
    /\ jobs' = (jobs \ {j}) \cup
           IF Sought(j) = {} THEN {}
           ELSE {[j EXCEPT !.step = "write", !.docs = Sought(j)]}
    /\ UNCHANGED <<records, cache, taskVars, calls, history, boundVars>>

(* The penalty becomes a record of its own.                                *)
PenaltyAdded(j) ==
    LET new == NewRecord(j.target, -1, FALSE) IN
    /\ cache' = [cache EXCEPT ![j.phone] = @ \cup {new}]
    /\ jobs' = (jobs \ {j}) \cup {Upload(j.phone, new)}
    /\ calls' = calls + 1
    /\ deductions' = deductions \cup {Key(new)}

(* An award is turned into the penalty if there is one; else the penalty   *)
(* is a new record.                                                        *)
FoundToExpire(j) ==
    /\ j.step = "query" /\ j.op = "expire"
    /\ \/ \E r \in Sought(j) :
            /\ jobs' = (jobs \ {j}) \cup {[j EXCEPT !.step = "write", !.docs = {r}]}
            /\ UNCHANGED <<cache, calls, deductions>>
       \/ Sought(j) = {} /\ PenaltyAdded(j)
    /\ UNCHANGED <<records, taskVars, lateAwards, boundVars>>

(* The cached records a removal drops.                                     *)
Dropped(j) ==
    IF j.op \in Removal THEN cache[j.phone]
    ELSE {r \in cache[j.phone] : r.target = j.target /\ r.score >= 0}

(* The writes of a call: a failure spares some documents, and goes         *)
(* unnoticed.                                                              *)
Reached(j, docs) ==
    \/ docs = j.docs /\ UNCHANGED faults
    \/ docs # j.docs /\ faults < MaxFaults /\ faults' = faults + 1

Keys(docs) == {Key(r) : r \in docs}

(* The documents found are deleted, whether or not somebody changed them   *)
(* meanwhile.                                                              *)
Removed(j) ==
    /\ j.step = "write" /\ j.op \in Removal \cup {"withdraw"}
    /\ \E docs \in SUBSET j.docs :
        /\ Reached(j, docs)
        /\ records' = {r \in records : Key(r) \notin Keys(docs)}
    /\ cache' = [cache EXCEPT ![j.phone] = @ \ Dropped(j)]
    /\ jobs' = jobs \ {j}
    /\ UNCHANGED <<taskVars, calls, history, acts, checks, browses, misses, restarts>>

(* A variant: the points are added to what was there.                      *)
RewrittenOnTop(r) == [r EXCEPT !.score = @ + IF r.isOnTime THEN 1 ELSE -1]

Rewritten(r) == [r EXCEPT !.score = IF r.isOnTime THEN 1 ELSE -1]

(* A variant: the whole record that was read is written.                   *)
RevisedWhole(d) == {Rewritten(d) : r \in {x \in records : Key(x) = Key(d)}}

(* The new score follows from the isOnTime that was read.                  *)
Revised(d) ==
    {[r EXCEPT !.score = Rewritten(d).score] : r \in {x \in records : Key(x) = Key(d)}}

Edited(j) ==
    /\ j.step = "write" /\ j.op = "edit"
    /\ \E docs \in SUBSET j.docs :
        /\ Reached(j, docs)
        /\ records' = {r \in records : Key(r) \notin Keys(docs)} \cup UNION {Revised(d) : d \in docs}
    /\ cache' = [cache EXCEPT ![j.phone] = {Rewritten(r) : r \in @}]
    /\ jobs' = jobs \ {j}
    /\ UNCHANGED <<taskVars, calls, history, acts, checks, browses, misses, restarts>>

Penalised(r) == [r EXCEPT !.score = -1, !.isOnTime = FALSE]

(* The update of a document that is gone fails.                            *)
Exists(j) == Keys(j.docs) \subseteq Keys(records)

AfterPenalty(j) ==
    {IF Key(r) \in Keys(j.docs) THEN Penalised(r) ELSE r : r \in records}

(* A variant: the penalty is merged, which creates a document that is gone.*)
ExpiredByMerge(j) ==
    /\ j.step = "write" /\ j.op = "expire"
    /\ records' = AfterPenalty(j) \cup {Penalised(d) : d \in j.docs}
    /\ jobs' = jobs \ {j}
    /\ UNCHANGED <<cache, calls, taskVars, history, boundVars>>

(* A variant: a penalty is added besides the update.                       *)
ExpiredAndAdded(j) ==
    /\ j.step = "write" /\ j.op = "expire"
    /\ records' = AfterPenalty(j)
    /\ PenaltyAdded(j)
    /\ UNCHANGED <<taskVars, lateAwards, boundVars>>

(* If the update fails, the penalty is added as a record.                  *)
Expired(j) ==
    /\ j.step = "write" /\ j.op = "expire"
    /\ \/ /\ Exists(j)
          /\ records' = AfterPenalty(j)
          /\ jobs' = jobs \ {j}
          /\ UNCHANGED <<cache, calls, deductions>>
       \/ /\ ~ Exists(j)
          /\ PenaltyAdded(j)
          /\ UNCHANGED records
    /\ UNCHANGED <<taskVars, lateAwards, boundVars>>

(* A query or a write that fails ends the call; what was cached stays.     *)
Failed(j) ==
    /\ j.op \in Removal \cup {"upload", "withdraw", "edit"}
    /\ faults < MaxFaults
    /\ faults' = faults + 1
    /\ \/ j.step = "query" \/ j.op = "upload"
    /\ jobs' = jobs \ {j}
    /\ UNCHANGED <<records, cache, taskVars, calls, history, acts, checks, browses, misses,
                   restarts>>

(* A failing query or update of a penalty adds a record instead, also when *)
(* the update was done and only its answer got lost.                       *)
ExpireFailed(j) ==
    /\ j.op = "expire"
    /\ faults < MaxFaults
    /\ faults' = faults + 1
    /\ \/ UNCHANGED records
       \/ j.step = "write" /\ Exists(j) /\ records' = AfterPenalty(j)
    /\ PenaltyAdded(j)
    /\ UNCHANGED <<taskVars, lateAwards, acts, checks, browses, misses, restarts>>

(* The process is killed and started again: the cache starts empty.  Calls *)
(* that were under way are lost, which counts as a fault.                  *)
Restart(p) ==
    LET lost == {j \in jobs : j.phone = p} IN
    /\ restarts < MaxRestarts
    /\ restarts' = restarts + 1
    /\ \/ lost = {} /\ UNCHANGED faults
       \/ lost # {} /\ faults < MaxFaults /\ faults' = faults + 1
    /\ cache' = [cache EXCEPT ![p] = {}]
    /\ jobs' = jobs \ lost
    /\ UNCHANGED <<records, taskVars, calls, history, acts, checks, browses, misses>>

-----------------------------------------------------------------------------
UserNext == \E p \in Phone : Tap(p) \/ Edit(p) \/ Delete(p)
SyncNext == \E p \in Phone : FlagSynced(p) \/ DeletionSynced(p)
CheckNext == \E p \in Phone : CheckFromCache(p) \/ CheckFromServer(p) \/ Browse(p)
CallNext == \E j \in jobs :
    \/ Uploaded(j) \/ Found(j) \/ FoundToExpire(j) \/ Removed(j) \/ Edited(j)
    \/ Expired(j) \/ Served(j) \/ Refreshed(j) \/ Failed(j) \/ ExpireFailed(j)

Next ==
    \/ UserNext
    \/ SyncNext
    \/ CheckNext
    \/ CallNext
    \/ DeadlinePasses
    \/ \E p \in Phone : Restart(p)

Spec == Init /\ [][Next]_vars

-----------------------------------------------------------------------------
Uploads == UNION {j.docs : j \in {i \in jobs : i.op = "upload"}}
OnFile  == records \cup Uploads
Quiet   == Settled /\ faults = 0

(* A completion counts once: whatever is in the collection or on its way,  *)
(* no user has two records that are not penalties ("prevent awarding       *)
(* twice", calculateTaskScore).                                            *)
AwardedOnce ==
    \A r, s \in OnFile :
        r.score >= 0 /\ s.score >= 0 /\ r.target = s.target => Key(r) = Key(s)

(* When all calls have ended without a failure, a task that is not         *)
(* completed has no record of a completion: the withdrawal found it,       *)
(* whatever checks, edits and refreshes did to it (withdrawTaskScore).     *)
WithdrawnLeavesNoAward ==
    \A p \in Phone : Quiet /\ holds[p] /\ ~ done[p] => ~ \E r \in records : r.score >= 0

(* Once a deletion has reached every phone and all calls have ended, no    *)
(* record of the task is left (minusScoreForDeletedTask).                  *)
DeletedLeavesNothing == Quiet /\ deleted => records = {}

(* A record added as a penalty stays what it is until the task is deleted: *)
(* no withdrawal, edit or other check takes it back                        *)
(* (minusScoreForExpiredTask).                                             *)
PenaltyStays ==
    [][\A r \in records : Key(r) \in deductions /\ ~ deleted => r \in records']_vars

(* A record that is not on time never becomes so again, also when an edit  *)
(* writes what it found before the penalty (updateScoreRecordsTaskInfo).   *)
LatenessStays ==
    [][\A r \in records, s \in records' :
           Key(r) = Key(s) /\ ~ r.isOnTime => ~ s.isOnTime]_vars

(* A record enters the collection by its own upload only and only once:    *)
(* no update or late answer brings a removed record back.                  *)
RemovedStaysRemoved ==
    [][Keys(records') \ Keys(records) \subseteq Keys(Uploads) \ Keys(Uploads')]_vars

(* A late completion earns nothing, and only the edit form ever makes a    *)
(* penalty of it: no check does, also one that takes the task for open     *)
(* (calculateTaskScore, updateExistingScoreRecord).                        *)
LateCompletionIsFree ==
    [][\A r \in records' :
           Key(r) \in lateAwards' =>
               \/ r.score = 0
               \/ r.score = -1 /\ (r \in records \/ \E j \in jobs \ jobs' : j.op = "edit")]_vars

(* The records by which a check has charged the user u.                    *)
Charges(u) == Keys({r \in OnFile : r.target = u /\ r.score < 0}) \ lateAwards

(* A check charges a user at most once: it turns an award into the penalty *)
(* or adds one, and does both only when the answer of an update got lost   *)
(* (minusScoreForExpiredTask).                                             *)
OnePenaltyPerCheck == \A u \in User : Cardinality(Charges(u)) <= checks + faults
===============================================================================
