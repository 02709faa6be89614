---------------------- MODULE ScoreRecords_orderly_proofs ----------------------
(***************************************************************************)
(* Proofs about ScoreRecords when users wait until all else has settled,   *)
(* so that each of their operations starts when no call is in progress and *)
(* the phones agree.  Then nobody is awarded twice and a task taken back   *)
(* keeps no award, whatever the checks of the phones do meanwhile; and if  *)
(* the checks wait as well, a deletion leaves no record.                   *)
(***************************************************************************)
EXTENDS ScoreRecords_proofs

-----------------------------------------------------------------------------
(* An operation that waits starts from rest.                               *)
LEMMA ActsAtRest ==
    ASSUME "users" \in Waits, NEW p \in Phone, NEW act, UserActs(p, act)
    PROVE  Settled /\ ~ deleted /\ jobs = {} /\ holds[p] /\ done[p] = published
BY DEF UserActs, Settled

Looks(p) == CheckFromCache(p) \/ CheckFromServer(p) \/ Browse(p)

LEMMA LooksAtRest ==
    ASSUME "checks" \in Waits, NEW p \in Phone, Looks(p)
    PROVE  Settled /\ jobs = {} /\ (deleted => \A q \in Phone : ~ holds[q])
BY DEF Looks, CheckFromCache, CheckFromServer, Browse, Checks, Settled

LEMMA LooksOnly ==
    ASSUME NEW p \in Phone, Looks(p)
    PROVE  /\ jobs' \subseteq jobs \cup Penalties(p, cache[p])
                                   \cup {Query(p, "refresh", p), Query(p, "check", p)}
           /\ jobs \subseteq jobs'
           /\ UNCHANGED <<records, taskVars, faults>>
BY DEF Looks, CheckFromCache, CheckFromServer, Browse, Checks, taskVars

LEMMA NoFaultYet == ASSUME IInv, [Next]_vars, faults' = 0 PROVE faults = 0
<1>1. faults \in Nat /\ \A n \in Nat : n + 1 # 0 BY DEF IInv, TypeOK
<1>2. CASE UserNext BY <1>2 DEF UserNext, Tap, Edit, Delete
<1>3. CASE SyncNext BY <1>3 DEF SyncNext, FlagSynced, DeletionSynced, boundVars
<1>4. CASE CheckNext BY <1>4, LooksOnly DEF CheckNext, Looks
<1>5. ASSUME NEW j \in jobs, AnyCall(j) PROVE faults = 0
  BY <1>1, <1>5 DEF AnyCall, Uploaded, Found, FoundToExpire, Removed, Edited, Expired, Served,
         Refreshed, RefreshAnswered, Reached, Failed, ExpireFailed, boundVars
<1>6. CASE CallNext BY <1>5, <1>6, CallsAre
<1>7. CASE DeadlinePasses \/ (\E p \in Phone : Restart(p)) \/ UNCHANGED vars
  BY <1>1, <1>7 DEF DeadlinePasses, Restart, vars, boundVars
<1> QED BY <1>2, <1>3, <1>4, <1>6, <1>7 DEF Next

-----------------------------------------------------------------------------
(* After a deletion there are removals and the reads of phones that no     *)
(* longer have the task; as long as nothing fails, a record that is left   *)
(* is about to be found or has been found by a removal.                    *)
Clears(j) == j.op \in Removal /\ (j.step = "query" \/ Keys(records) \subseteq Keys(j.docs))

RemovalRuns ==
    deleted =>
        /\ \A j \in jobs : j.op \in Removal \cup {"check", "refresh"}
        /\ \A j \in jobs : j.op \in {"check", "refresh"} => \A p \in Phone : ~ holds[p]
        /\ faults = 0 => records = {} \/ \E j \in jobs : Clears(j)

LEMMA RemovalQuery ==
    ASSUME NEW p, NEW op \in Removal, NEW u, NEW i, i = Query(p, op, u)
    PROVE  i.op = op /\ i.step = "query" /\ Clears(i)'
<1>1. i.op = op /\ i.step = "query" BY DEF Query
<1> QED BY <1>1 DEF Clears

LEMMA RemovalDelete ==
    ASSUME "users" \in Waits, NEW p \in Phone, Delete(p)
    PROVE  RemovalRuns'
<1>1. jobs = {} BY ActsAtRest DEF Delete
<1>2. PICK ops \in {{"remove"}, {"remove", "removeAgain"}} :
          jobs' = jobs \cup {Query(p, op, p) : op \in ops}
  BY DEF Delete
<1>3. ops \subseteq Removal /\ "remove" \in ops BY DEF Removal
<1>4. \A i \in jobs' : \E op \in Removal : i = Query(p, op, p) BY <1>1, <1>2, <1>3
<1>5. \A i \in jobs' : i.op \in Removal /\ Clears(i)' BY <1>4, RemovalQuery
<1>6. \E i : i \in jobs' BY <1>2, <1>3
<1> QED BY <1>5, <1>6 DEF RemovalRuns, Removal

LEMMA RemovalDeletionSynced ==
    ASSUME RemovalRuns, NEW p \in Phone, DeletionSynced(p), IInv
    PROVE  RemovalRuns'
<1>1. PICK i : i = Query(p, "remove", p) /\ jobs' = jobs \cup {i} BY DEF DeletionSynced
<1>2. i.op \in Removal /\ Clears(i)' BY <1>1, RemovalQuery DEF Removal
<1>3. \A q \in Phone : ~ holds[q] => ~ holds'[q] BY DEF DeletionSynced, IInv, TypeOK
<1>4. deleted /\ deleted' = deleted BY DEF DeletionSynced
<1> QED BY <1>1, <1>2, <1>3, <1>4 DEF RemovalRuns, Removal

(* At rest, the records of a deleted task are gone: reads find no removal. *)
LEMMA RemovalLooks ==
    ASSUME "checks" \in Waits, RemovalRuns, NEW p \in Phone, Looks(p)
    PROVE  RemovalRuns'
<1>1. records' = records /\ faults' = faults /\ holds' = holds /\ deleted' = deleted
  BY LooksOnly DEF taskVars
<1>2. SUFFICES ASSUME deleted PROVE RemovalRuns'
  BY <1>1 DEF RemovalRuns
<1>3. jobs = {} /\ \A q \in Phone : ~ holds[q] BY <1>2, LooksAtRest
<1>4. Penalties(p, cache[p]) = {} BY <1>3 DEF Penalties, Overdue
<1>5. \A i \in jobs' : i.op \in {"check", "refresh"}
  <2>1. \A i \in jobs' : i = Query(p, "refresh", p) \/ i = Query(p, "check", p)
    BY <1>3, <1>4, LooksOnly
  <2> QED BY <2>1, QueryAsks
<1>6. faults = 0 => records = {} BY <1>2, <1>3 DEF RemovalRuns
<1> QED BY <1>1, <1>3, <1>5, <1>6 DEF RemovalRuns, Removal

LEMMA RemovalCalls ==
    ASSUME IInv, RemovalRuns, NEW j \in jobs, AnyCall(j)
    PROVE  RemovalRuns'
<1>1. deleted' = deleted /\ holds' = holds
  BY DEF AnyCall, Uploaded, Found, FoundToExpire, Removed, Edited, Expired, Served, Refreshed,
         RefreshAnswered, Failed, ExpireFailed, taskVars
<1>2. SUFFICES ASSUME deleted PROVE RemovalRuns'
  BY <1>1 DEF RemovalRuns
<1>3. j.op \in Removal \cup {"check", "refresh"} /\ j \in Job /\ faults \in Nat
  BY <1>2, JobFields DEF RemovalRuns, TypeOK
<1>4. ASSUME \A i \in jobs' : i \in jobs \/ i.op \in Removal,
             faults' = 0 => faults = 0 /\ (records' = {} \/ \E i \in jobs' : Clears(i)')
      PROVE  RemovalRuns'
  BY <1>1, <1>2, <1>4 DEF RemovalRuns, Removal
<1>5. \A n \in Nat : n + 1 # 0 OBVIOUS
<1>6. CASE Found(j)
  <2>1. j.op \in Removal /\ j.step = "query" BY <1>3, <1>6 DEF Found, Removal
  <2>2. Sought(j) = records BY <2>1 DEF Sought, Removal
  <2>3. records' = records /\ faults' = faults BY <1>6 DEF Found, boundVars
  <2>4. CASE records = {}
    <3>1. jobs' = jobs \ {j} BY <1>6, <2>2, <2>4 DEF Found
    <3> QED BY <1>4, <2>3, <2>4, <3>1
  <2>5. CASE records # {}
    <3>1. PICK new : new = [j EXCEPT !.step = "write", !.docs = records] OBVIOUS
    <3>2. jobs' = (jobs \ {j}) \cup {new} BY <1>6, <2>2, <2>5, <3>1 DEF Found
    <3>3. new.op = j.op /\ new.docs = records BY <1>3, <3>1 DEF Job
    <3>4. Clears(new)' BY <2>1, <2>3, <3>3 DEF Clears, Keys
    <3> QED BY <1>4, <2>1, <2>3, <3>2, <3>3, <3>4
  <2> QED BY <2>4, <2>5
<1>7. CASE Removed(j)
  <2>1. j.op \in Removal /\ j.step = "write" /\ jobs' = jobs \ {j}
    BY <1>3, <1>7 DEF Removed, Removal
  <2>2. PICK docs \in SUBSET j.docs :
            Reached(j, docs) /\ records' = {r \in records : Key(r) \notin Keys(docs)}
    BY <1>7 DEF Removed
  <2>3. faults' = 0 => faults = 0 /\ docs = j.docs BY <1>3, <1>5, <2>2 DEF Reached
  <2>4. Keys(records') \subseteq Keys(records) BY <2>2 DEF Keys
  <2>5. ASSUME faults' = 0 PROVE records' = {} \/ \E i \in jobs' : Clears(i)'
    <3>1. CASE Clears(j) \/ records = {}
      <4>1. \A r \in records : Key(r) \in Keys(docs) BY <2>1, <2>3, <2>5, <3>1 DEF Clears, Keys
      <4> QED BY <2>2, <4>1
    <3>2. ASSUME NEW i \in jobs, i # j, Clears(i) PROVE Clears(i)'
      BY <2>4, <3>2 DEF Clears, Keys
    <3> QED BY <1>2, <2>1, <2>3, <2>5, <3>1, <3>2 DEF RemovalRuns
  <2> QED BY <1>4, <2>1, <2>3, <2>5
(* The reads of a phone change no record and start nothing.                *)
<1>8. ASSUME j.op \in {"check", "refresh"}, records' = records,
             \A i \in jobs' : i \in jobs \/ i.op = j.op, jobs \ {j} \subseteq jobs'
      PROVE  RemovalRuns'
  <2>1. \A p \in Phone : ~ holds'[p] BY <1>1, <1>2, <1>8 DEF RemovalRuns
  <2>2. ~ Clears(j) BY <1>8 DEF Clears, Removal
  <2>3. \A i : Clears(i)' <=> Clears(i) BY <1>8 DEF Clears, Keys
  <2>4. faults' = 0 => faults = 0
    BY <1>3, <1>5 DEF AnyCall, Uploaded, Found, FoundToExpire, Removed, Edited, Expired, Served,
           Refreshed, RefreshAnswered, Reached, Failed, ExpireFailed, boundVars
  <2> QED BY <1>2, <1>8, <2>1, <2>2, <2>3, <2>4 DEF RemovalRuns
<1>9. CASE Served(j)
  <2>1. [j EXCEPT !.step = "answer", !.docs = records].op = j.op BY <1>3 DEF Job
  <2> QED BY <1>8, <1>9, <2>1 DEF Served
<1>10. CASE Refreshed(j)
  <2>1. j.op \in {"check", "refresh"} BY <1>10 DEF Refreshed
  <2>2. \A p \in Phone : ~ holds[p] BY <1>2, <2>1 DEF RemovalRuns
  <2>3. PICK answer : RefreshAnswered(j, answer) BY <1>10 DEF Refreshed
  <2>4. Penalties(j.phone, answer) = {} BY <2>2, JobFields DEF Penalties, Overdue
  <2>5. jobs' = jobs \ {j} /\ records' = records BY <2>3, <2>4 DEF RefreshAnswered
  <2> QED BY <1>8, <2>1, <2>5
<1>11. CASE Failed(j)
  <2>1. faults' # 0 /\ jobs' = jobs \ {j} BY <1>3, <1>5, <1>11 DEF Failed
  <2> QED BY <1>4, <2>1
<1> QED BY <1>3, <1>6, <1>7, <1>9, <1>10, <1>11
       DEF AnyCall, Uploaded, FoundToExpire, Edited, Expired, ExpireFailed, Removal

LEMMA RemovalStep ==
    ASSUME {"users", "checks"} \subseteq Waits, IInv, RemovalRuns, [Next]_vars
    PROVE  RemovalRuns'
<1>1. ASSUME ~ deleted' PROVE RemovalRuns' BY <1>1 DEF RemovalRuns
<1>2. ASSUME NEW p \in Phone, Tap(p) \/ Edit(p) PROVE RemovalRuns'
  BY <1>1, <1>2, ActsAtRest DEF Tap, Edit
<1>3. CASE UserNext BY <1>2, <1>3, RemovalDelete DEF UserNext
<1>4. ASSUME records' = records, jobs' = jobs, faults' = faults, holds' = holds, deleted' = deleted
      PROVE  RemovalRuns'
  BY <1>4 DEF RemovalRuns, Clears, Keys
<1>5. ASSUME NEW p \in Phone, FlagSynced(p) PROVE RemovalRuns'
  BY <1>1, <1>5 DEF FlagSynced
<1>6. CASE SyncNext BY <1>5, <1>6, RemovalDeletionSynced DEF SyncNext
<1>7. CASE CheckNext BY <1>7, RemovalLooks DEF CheckNext, Looks
<1>8. CASE CallNext BY <1>8, RemovalCalls, CallsAre
<1>9. CASE DeadlinePasses BY <1>4, <1>9 DEF DeadlinePasses, boundVars
<1>10. ASSUME NEW p \in Phone, Restart(p) PROVE RemovalRuns'
  <2>1. faults \in Nat /\ \A n \in Nat : n + 1 # 0 BY DEF IInv, TypeOK
  <2>2. /\ records' = records /\ deleted' = deleted /\ holds' = holds /\ jobs' \subseteq jobs
        /\ (jobs' = jobs /\ faults' = faults) \/ faults' # 0
    BY <1>10, <2>1 DEF Restart, taskVars
  <2> QED BY <1>4, <2>2 DEF RemovalRuns
<1>11. CASE UNCHANGED vars BY <1>4, <1>11 DEF vars, taskVars, boundVars
<1> QED BY <1>3, <1>6, <1>7, <1>8, <1>9, <1>10, <1>11 DEF Next

(* When users and checks wait for rest, a deletion that has reached every  *)
(* phone leaves no record of the task, on any number of phones, also after *)
(* edits and restarts: after the removal of the deleting phone nothing     *)
(* writes a record any more.                                               *)
THEOREM DeletedAlwaysLeavesNothing ==
    ASSUME {"users", "checks"} \subseteq Waits
    PROVE  Spec => []DeletedLeavesNothing
<1>1. Init => RemovalRuns BY DEF Init, RemovalRuns
<1>2. IInv /\ RemovalRuns /\ [Next]_vars => RemovalRuns' BY RemovalStep
<1>3. RemovalRuns => DeletedLeavesNothing BY DEF RemovalRuns, DeletedLeavesNothing, Quiet, Settled
<1> QED BY <1>1, <1>2, <1>3, Initially, Inductive, PTL DEF Spec

-----------------------------------------------------------------------------
(* Awards while users wait.  While the task is completed each user has at  *)
(* most one; when it is taken back, each award left is about to be found   *)
(* or has been found by a withdrawal.  An edit runs alone with the checks: *)
(* either there is no award, or the task is completed on every phone and   *)
(* no check makes a penalty, so what the edit read is still so.            *)
Award(r) == r.score >= 0

Covers(j, r) ==
    /\ j.op = "withdraw" /\ j.target = r.target
    /\ j.step = "query" \/ Key(r) \in Keys(j.docs)

PenaltiesLate == \A r \in OnFile : r.score < 0 => ~ r.isOnTime

AwardsForTargets == \A r \in OnFile, p \in Phone : Award(r) => r.target \in Targets(p)

AwardsEnd ==
    ~ deleted /\ ~ published =>
        /\ \A r \in Uploads : ~ Award(r)
        /\ \A r \in records : Award(r) => \E j \in jobs : Covers(j, r)

NoAward == \A r \in OnFile : ~ Award(r)

StaysDone ==
    /\ published /\ \A p \in Phone : holds[p] => done[p]
    /\ \A i \in jobs : i.op # "expire"

EditsFit ==
    \A j \in jobs : j.op = "edit" =>
        /\ NoAward \/ StaysDone
        /\ \A d \in j.docs, r \in records : Key(d) = Key(r) => d.isOnTime = r.isOnTime

AwardsFit == PenaltiesLate /\ AwardedOnce /\ AwardsForTargets /\ AwardsEnd /\ EditsFit

OneTask == \A p, q \in Phone : Targets(p) = Targets(q)

-----------------------------------------------------------------------------
LEMMA OnFileIs ==
    \A r : r \in OnFile <=> r \in records \/ \E j \in jobs : j.op = "upload" /\ r \in j.docs
BY DEF OnFile, Uploads

LEMMA OnFileIsNext ==
    \A r : r \in OnFile' <=> r \in records' \/ \E j \in jobs' : j.op = "upload" /\ r \in j.docs
BY DEF OnFile, Uploads

LEMMA OnFileType == ASSUME IInv PROVE OnFile \subseteq Record
<1>1. records \subseteq Record BY DEF IInv, TypeOK
<1> QED BY <1>1, OnFileIs, JobFields

(* New calls by what they are: only a completion uploads an award, only    *)
(* the edit form starts an edit, only an overdue task a penalty.           *)
Completes == \E p \in Phone : Tap(p) /\ ~ done[p]

LEMMA NewJobs ==
    ASSUME IInv, [Next]_vars, NEW i \in jobs', i \notin jobs
    PROVE  /\ i.op = "upload" => Completes \/ \E r : i.docs = {r} /\ IsPenalty(r)
           /\ i.op = "edit" => (\E p \in Phone : Edit(p)) \/ Goes(i)
           /\ i.op = "expire" => (\E j \in jobs : j.op = "expire") \/ \E p \in Phone : Overdue(p)
<1>1. ASSUME NEW p \in Phone, NEW seen, i \in Penalties(p, seen)
      PROVE  i.op = "expire" /\ Overdue(p)
  BY <1>1, PenaltiesAsk DEF Penalties
<1>2. CASE UserNext
  <2>1. PICK p \in Phone : Tap(p) \/ Edit(p) \/ Delete(p) BY <1>2 DEF UserNext
  <2>2. CASE Tap(p)
    <3>1. \/ i.op = "withdraw"
          \/ i.op = "upload" /\ ~ done[p]
      BY <2>2, TapUpload DEF FreshUpload
    <3> QED BY <2>2, <3>1 DEF Completes
  <2>3. CASE Edit(p)
    <3>1. i.op = "edit" BY <2>3, QueryAsks DEF Edit
    <3> QED BY <2>3, <3>1
  <2>4. CASE Delete(p)
    <3>1. \E op \in {"remove", "removeAgain"} : i = Query(p, op, p) BY <2>4 DEF Delete
    <3>2. i.op \in {"remove", "removeAgain"} BY <3>1, QueryAsks
    <3> QED BY <3>2
  <2> QED BY <2>1, <2>2, <2>3, <2>4
<1>3. CASE SyncNext
  <2>1. i.op = "remove" BY <1>3, QueryAsks DEF SyncNext, FlagSynced, DeletionSynced
  <2> QED BY <2>1
<1>4. CASE CheckNext
  <2>1. PICK p \in Phone : Looks(p) BY <1>4 DEF CheckNext, Looks
  <2>2. \/ i \in Penalties(p, cache[p]) \/ i = Query(p, "refresh", p) \/ i = Query(p, "check", p)
    BY <2>1, LooksOnly
  <2>3. i \in Penalties(p, cache[p]) \/ i.op \in {"refresh", "check"} BY <2>2, QueryAsks
  <2> QED BY <1>1, <2>3
<1>5. CASE CallNext
  <2>1. PICK j \in jobs : AnyCall(j) BY <1>5, CallsAre
  <2>2. CASE Asks(i) /\ i.op = "expire"
    <3>1. CASE Refreshed(j)
      <4>1. PICK answer : RefreshAnswered(j, answer) BY <3>1 DEF Refreshed
      <4>2. i \in Penalties(j.phone, answer) BY <4>1 DEF RefreshAnswered
      <4> QED BY <1>1, <2>2, <4>2, JobFields
    <3>2. CASE j.op = "expire" BY <2>2, <3>2
    <3>3. CASE Found(j) \/ Served(j)
      <4>1. /\ j.op \in Removal \cup {"withdraw", "edit", "check", "refresh"} /\ j \in Job
            /\ \E docs, step : i = [j EXCEPT !.step = step, !.docs = docs]
        BY <3>3, JobFields DEF Found, Served
      <4>2. i.op = j.op BY <4>1 DEF Job
      <4> QED BY <2>2, <4>1, <4>2 DEF Removal
    <3> QED BY <2>1, <3>1, <3>2, <3>3
           DEF AnyCall, Uploaded, FoundToExpire, Removed, Edited, Expired, Failed, ExpireFailed
  <2>3. CASE Goes(i)
    <3>1. PICK k \in jobs : k.op # "upload" /\ i.op = k.op BY <2>3 DEF Goes
    <3> QED BY <2>3, <3>1
  <2>4. ASSUME NEW r, FreshUpload(i, r), IsPenalty(r)
        PROVE  i.op = "upload" /\ \E s : i.docs = {s} /\ IsPenalty(s)
    BY <2>4 DEF FreshUpload
  <2>5. \/ Asks(i) /\ i.op = "expire"
        \/ Goes(i)
        \/ \E r : FreshUpload(i, r) /\ IsPenalty(r)
    BY <2>1, CallGrows
  <2> QED BY <2>2, <2>3, <2>4, <2>5
<1>6. CASE DeadlinePasses \/ (\E p \in Phone : Restart(p)) \/ UNCHANGED vars
  BY <1>6 DEF DeadlinePasses, Restart, vars
<1> QED BY <1>2, <1>3, <1>4, <1>5, <1>6 DEF Next

(* A completion that waits begins without awards and calls.                *)
LEMMA CompletesAtRest ==
    ASSUME "users" \in Waits, IInv, AwardsEnd, Completes
    PROVE  jobs = {} /\ ~ deleted /\ ~ published /\ NoAward
<1>1. PICK p \in Phone : Tap(p) /\ ~ done[p] BY DEF Completes
<1>2. jobs = {} /\ ~ deleted /\ ~ published BY <1>1, ActsAtRest DEF Tap
<1> QED BY <1>2, OnFileIs DEF AwardsEnd, NoAward

(* Rewriting by what an edit read keeps the kind of each record.           *)
LEMMA EditKeeps ==
    ASSUME IInv, AwardsFit, NEW j \in jobs, j.op = "edit", NEW x \in records, NEW d \in j.docs,
           Key(x) = Key(d), NEW s, s = [x EXCEPT !.score = Rewritten(d).score]
    PROVE  /\ Key(s) = Key(x) /\ s.isOnTime = x.isOnTime
           /\ ~ s.isOnTime \/ Award(s)
           /\ Award(s) => Award(x)
<1>1. x \in Record /\ d \in Record BY JobFields DEF IInv, TypeOK
<1>2. x.isOnTime = d.isOnTime BY DEF AwardsFit, EditsFit
<1>3. Rewritten(d).score = IF d.isOnTime THEN 1 ELSE -1 BY <1>1 DEF Rewritten, Record
<1>4. Key(s) = Key(x) /\ s.isOnTime = x.isOnTime /\ s.score = Rewritten(d).score
  BY <1>1 DEF Key, Record
<1>5. ~ s.isOnTime \/ Award(s) BY <1>2, <1>3, <1>4 DEF Award
<1>6. Award(s) => x.isOnTime BY <1>2, <1>3, <1>4 DEF Award
<1>7. x.isOnTime => Award(x)
  BY <1>1, OnFileIs DEF AwardsFit, PenaltiesLate, Award, Record
<1> QED BY <1>4, <1>5, <1>6, <1>7

(* A rewritten record is a record.                                         *)
LEMMA EditScore ==
    ASSUME IInv, NEW j \in jobs, NEW x \in records, NEW d \in j.docs,
           NEW s, s = [x EXCEPT !.score = Rewritten(d).score]
    PROVE  s \in Record /\ s.score \in Int
<1>1. x \in Record /\ d \in Record BY JobFields DEF IInv, TypeOK
<1>2. Rewritten(d).score \in {-1, 1} BY <1>1 DEF Rewritten, Record
<1> QED BY <1>1, <1>2 DEF Record

(* Except by a completion, no award comes into being.                      *)
LEMMA AwardOrigin ==
    ASSUME IInv, AwardsFit, [Next]_vars, NEW s \in records', Award(s)
    PROVE  \/ \E r \in records : Award(r) /\ Key(r) = Key(s)
           \/ \E j \in jobs : j.op = "upload" /\ s \in j.docs
<1>1. ASSUME NEW x \in records, s = Penalised(x) PROVE FALSE
  <2>1. x \in Record BY DEF IInv, TypeOK
  <2>2. s.score = -1 BY <1>1, <2>1 DEF Penalised, Record
  <2> QED BY <2>2 DEF Award
<1>2. ASSUME NEW j \in jobs, NEW x \in records, NEW d \in j.docs, Edited(j), Key(x) = Key(d),
             s = [x EXCEPT !.score = Rewritten(d).score]
      PROVE  Award(x) /\ Key(x) = Key(s)
  BY <1>2, EditKeeps DEF Edited
<1> QED BY <1>1, <1>2, Origin DEF Uploaded

LEMMA AwardsKept ==
    ASSUME IInv, AwardsFit, [Next]_vars, ~ Completes, NEW s \in OnFile', Award(s)
    PROVE  \E r \in OnFile : Award(r) /\ Key(r) = Key(s)
<1>1. CASE s \in records' BY <1>1, AwardOrigin, OnFileIs
<1>2. ASSUME NEW i \in jobs', i.op = "upload", s \in i.docs
      PROVE  \E r \in OnFile : Award(r) /\ Key(r) = Key(s)
  <2>1. CASE i \in jobs BY <1>2, <2>1, OnFileIs
  <2>2. CASE i \notin jobs
    <3>1. IsPenalty(s) BY <1>2, <2>2, NewJobs
    <3> QED BY <3>1 DEF IsPenalty, Award
  <2> QED BY <2>1, <2>2
<1> QED BY <1>1, <1>2, OnFileIsNext

-----------------------------------------------------------------------------
LEMMA PenaltiesLateStep ==
    ASSUME IInv, AwardsFit, [Next]_vars
    PROVE  PenaltiesLate'
<1>0. records \subseteq Record BY DEF IInv, TypeOK
<1>1. ASSUME NEW s \in records', s.score < 0 PROVE ~ s.isOnTime
  <2>1. CASE s \in OnFile BY <1>1, <2>1 DEF AwardsFit, PenaltiesLate
  <2>2. ASSUME NEW x \in records, s = Penalised(x) PROVE ~ s.isOnTime
    BY <1>0, <2>2 DEF Penalised, Record
  <2>3. ASSUME NEW j \in jobs, NEW x \in records, NEW d \in j.docs, Edited(j), Key(x) = Key(d),
               s = [x EXCEPT !.score = Rewritten(d).score]
        PROVE  ~ s.isOnTime
    <3>1. j.op = "edit" BY <2>3 DEF Edited
    <3>2. ~ s.isOnTime \/ Award(s) BY <2>3, <3>1, EditKeeps
    <3>3. s \in Record /\ s.score \in Int BY <1>0, <2>3, EditScore
    <3> QED BY <1>1, <3>2, <3>3 DEF Award
  <2>4. ASSUME NEW j \in jobs, Uploaded(j), s \in j.docs PROVE s \in OnFile
    BY <2>4, OnFileIs DEF Uploaded
  <2> QED BY <1>1, <2>1, <2>2, <2>3, <2>4, Origin, OnFileIs
<1>2. ASSUME NEW i \in jobs', i.op = "upload", NEW s \in i.docs, s.score < 0 PROVE ~ s.isOnTime
  <2>1. CASE i \in jobs BY <1>2, <2>1, OnFileIs DEF AwardsFit, PenaltiesLate
  <2>2. CASE i \notin jobs
    <3>1. PICK r : FreshUpload(i, r) /\ (IsPenalty(r) \/ IsAward(r))
      BY <1>2, <2>2, JobsGrow DEF Asks, Goes
    <3>2. s = r BY <1>2, <3>1 DEF FreshUpload
    <3> QED BY <1>2, <3>1, <3>2 DEF IsPenalty, IsAward, Score
  <2> QED BY <2>1, <2>2
<1> QED BY <1>1, <1>2, OnFileIsNext DEF PenaltiesLate

(* A completion awards each of its targets once.                           *)
LEMMA CompletionAwards ==
    ASSUME "users" \in Waits, OneTask, IInv, AwardsFit, Completes, NEW s \in OnFile', Award(s)
    PROVE  /\ s.n = calls + 1
           /\ \A q \in Phone : s.target \in Targets(q)
<1>1. PICK p \in Phone : Tap(p) /\ ~ done[p] BY DEF Completes
<1>2. jobs = {} /\ NoAward /\ records' = records
  BY <1>1, CompletesAtRest DEF AwardsFit, Tap
<1>3. s \notin records' BY <1>2, OnFileIs DEF NoAward
<1>4. PICK i \in jobs' : i.op = "upload" /\ s \in i.docs BY <1>3, OnFileIsNext
<1>5. PICK r : FreshUpload(i, r) /\ r.target \in Targets(p)
  BY <1>1, <1>2, <1>4, TapUpload
<1>6. s = r BY <1>4, <1>5 DEF FreshUpload
<1> QED BY <1>5, <1>6 DEF FreshUpload, OneTask

LEMMA AwardedOnceStep ==
    ASSUME "users" \in Waits, OneTask, IInv, AwardsFit, [Next]_vars
    PROVE  AwardedOnce' /\ AwardsForTargets'
<1>1. CASE Completes
  <2>1. AwardsForTargets' BY <1>1, CompletionAwards DEF AwardsForTargets, Targets
  <2>2. ASSUME NEW r \in OnFile', NEW s \in OnFile', Award(r), Award(s), r.target = s.target
        PROVE  Key(r) = Key(s)
    BY <1>1, <2>2, CompletionAwards DEF Key
  <2> QED BY <2>1, <2>2 DEF AwardedOnce, Award, Key
<1>2. CASE ~ Completes
  <2>1. ASSUME NEW s \in OnFile', Award(s)
        PROVE  \E r \in OnFile : Award(r) /\ Key(r) = Key(s) /\ r.target = s.target
    <3>1. PICK r \in OnFile : Award(r) /\ Key(r) = Key(s) BY <1>2, <2>1, AwardsKept
    <3> QED BY <3>1 DEF Key
  <2>2. AwardsForTargets' BY <2>1 DEF AwardsFit, AwardsForTargets, Targets
  <2>3. ASSUME NEW r \in OnFile', NEW s \in OnFile', Award(r), Award(s), r.target = s.target
        PROVE  Key(r) = Key(s)
    <3>1. PICK x \in OnFile : Award(x) /\ Key(x) = Key(r) /\ x.target = r.target BY <2>1, <2>3
    <3>2. PICK y \in OnFile : Award(y) /\ Key(y) = Key(s) /\ y.target = s.target BY <2>1, <2>3
    <3> QED BY <2>3, <3>1, <3>2 DEF AwardsFit, AwardedOnce, Award
  <2> QED BY <2>2, <2>3 DEF AwardedOnce, Award, Key
<1> QED BY <1>1, <1>2

-----------------------------------------------------------------------------
(* Without a failure, a withdrawal ends by finding and removing.           *)
LEMMA WithdrawEnds ==
    ASSUME IInv, [Next]_vars, faults' = 0, NEW j \in jobs, j.op = "withdraw", j \notin jobs'
    PROVE  Found(j) \/ Removed(j)
<1>1. faults \in Nat /\ \A n \in Nat : n + 1 # 0 BY DEF IInv, TypeOK
<1>2. CASE UserNext
  BY <1>2 DEF UserNext, Tap, WithdrawTaskScore, CalculateTaskScore, Edit, Delete
<1>3. CASE SyncNext BY <1>3 DEF SyncNext, FlagSynced, DeletionSynced
<1>4. CASE CheckNext BY <1>4, LooksOnly DEF CheckNext, Looks
<1>5. CASE CallNext
  <2>1. PICK k \in jobs : AnyCall(k) BY <1>5, CallsAre
  <2>2. k = j
    BY <2>1 DEF AnyCall, Uploaded, Found, FoundToExpire, Removed, Edited, Expired, Served,
           Refreshed, RefreshAnswered, Failed, ExpireFailed, PenaltyAdded
  <2> QED BY <1>1, <2>1, <2>2
         DEF AnyCall, Uploaded, FoundToExpire, Edited, Expired, Served, Refreshed, Failed,
             ExpireFailed
<1>6. CASE DeadlinePasses \/ UNCHANGED vars BY <1>6 DEF DeadlinePasses, vars
<1>7. CASE \E p \in Phone : Restart(p) BY <1>1, <1>7 DEF Restart
<1> QED BY <1>2, <1>3, <1>4, <1>5, <1>6, <1>7 DEF Next

LEMMA CoverStays ==
    ASSUME IInv, [Next]_vars, faults' = 0, NEW j \in jobs,
           NEW r \in records, Award(r), Covers(j, r),
           NEW s \in records', Key(s) = Key(r)
    PROVE  \E i \in jobs' : Covers(i, s)
<1>0. r.target = s.target /\ j \in Job BY JobFields DEF Key
<1>1. CASE j \in jobs' BY <1>0, <1>1 DEF Covers
<1>2. CASE Found(j)
  <2>1. r \in Sought(j) BY DEF Sought, Covers, Award
  <2>2. PICK i : i = [j EXCEPT !.step = "write", !.docs = Sought(j)] OBVIOUS
  <2>3. i.op = j.op /\ i.target = j.target /\ i.docs = Sought(j) BY <1>0, <2>2 DEF Job
  <2>4. i \in jobs' BY <1>2, <2>1, <2>2 DEF Found
  <2>5. Key(s) \in Keys(i.docs) BY <2>1, <2>3 DEF Keys
  <2> QED BY <1>0, <2>3, <2>4, <2>5 DEF Covers
<1>3. CASE Removed(j)
  <2>1. Key(s) \in Keys(j.docs) BY <1>3 DEF Removed, Covers
  <2>2. PICK docs \in SUBSET j.docs :
            Reached(j, docs) /\ records' = {x \in records : Key(x) \notin Keys(docs)}
    BY <1>3 DEF Removed
  <2>3. faults \in Nat /\ \A n \in Nat : n + 1 # 0 BY DEF IInv, TypeOK
  <2>4. docs = j.docs BY <2>2, <2>3 DEF Reached
  <2> QED BY <2>1, <2>2, <2>4
<1> QED BY <1>1, <1>2, <1>3, WithdrawEnds DEF Covers

LEMMA FlagsMove ==
    ASSUME [Next]_vars, ~ UserNext
    PROVE  deleted' = deleted /\ published' = published
<1>1. ASSUME NEW p \in Phone, Looks(p) PROVE deleted' = deleted /\ published' = published
  BY <1>1, LooksOnly DEF taskVars
<1>2. ASSUME NEW j \in jobs, AnyCall(j) PROVE deleted' = deleted /\ published' = published
  BY <1>2 DEF AnyCall, Uploaded, Found, FoundToExpire, Removed, Edited, Expired, Served,
         Refreshed, RefreshAnswered, Failed, ExpireFailed, taskVars
<1>3. CASE CheckNext BY <1>1, <1>3 DEF CheckNext, Looks
<1>4. CASE CallNext BY <1>2, <1>4, CallsAre
<1> QED BY <1>3, <1>4
       DEF Next, SyncNext, FlagSynced, DeletionSynced, DeadlinePasses, Restart, vars, taskVars

LEMMA AwardsEndStep ==
    ASSUME "users" \in Waits, OneTask, IInv, AwardsFit, [Next]_vars, faults' = 0
    PROVE  AwardsEnd'
<1> SUFFICES ASSUME ~ deleted', ~ published'
             PROVE  /\ \A r \in Uploads' : ~ Award(r)
                    /\ \A s \in records' : Award(s) => \E j \in jobs' : Covers(j, s)
  BY DEF AwardsEnd, Award, Covers, Keys, Key
<1>1. ~ Completes BY DEF Completes, Tap
(* With no award before there is none after.                               *)
<1>2. ASSUME NoAward
      PROVE  /\ \A r \in Uploads' : ~ Award(r)
             /\ \A s \in records' : Award(s) => \E j \in jobs' : Covers(j, s)
  <2>1. ASSUME NEW s \in OnFile' PROVE ~ Award(s) BY <1>1, <1>2, <2>1, AwardsKept DEF NoAward
  <2> QED BY <2>1 DEF OnFile
<1>3. CASE UserNext
  <2>1. PICK p \in Phone : Tap(p) \/ Edit(p) BY <1>3 DEF UserNext, Delete
  <2>2. jobs = {} /\ ~ deleted /\ done[p] = published
    BY <2>1, ActsAtRest DEF Tap, Edit
  <2>3. CASE Edit(p)
    <3>1. ~ published BY <2>3 DEF Edit
    <3>2. NoAward BY <2>2, <3>1, OnFileIs DEF AwardsFit, AwardsEnd, NoAward, Covers
    <3> QED BY <1>2, <3>2
  <2>4. CASE Tap(p)
    <3>1. done[p] /\ records' = records BY <1>1, <2>4 DEF Completes, Tap
    <3>2. jobs' = {Query(p, "withdraw", u) : u \in Targets(p)}
      BY <2>2, <2>4, <3>1 DEF Tap, WithdrawTaskScore
    <3>3. ASSUME NEW i \in jobs' PROVE i.op # "upload"
      <4>1. PICK u \in Targets(p) : i = Query(p, "withdraw", u) BY <3>2
      <4> QED BY <4>1, QueryAsks
    <3>4. Uploads' = {} BY <3>3 DEF Uploads
    <3>5. ASSUME NEW s \in records', Award(s) PROVE \E j \in jobs' : Covers(j, s)
      <4>1. s.target \in Targets(p) BY <3>1, <3>5, OnFileIs DEF AwardsFit, AwardsForTargets
      <4>2. PICK j \in jobs' : j = Query(p, "withdraw", s.target) BY <3>2, <4>1
      <4>3. j.op = "withdraw" /\ j.target = s.target /\ j.step = "query" BY <4>2 DEF Query
      <4> QED BY <4>3 DEF Covers
    <3> QED BY <3>4, <3>5
  <2> QED BY <2>1, <2>3, <2>4
<1>4. CASE ~ UserNext
  <2>1. ~ deleted /\ ~ published BY <1>4, FlagsMove
  <2>2. \A r \in Uploads : ~ Award(r) BY <2>1 DEF AwardsFit, AwardsEnd
  <2>3. ASSUME NEW r \in Uploads' PROVE ~ Award(r)
    <3>1. PICK i \in jobs' : i.op = "upload" /\ r \in i.docs BY <2>3 DEF Uploads
    <3>2. CASE i \in jobs BY <2>2, <3>1, <3>2 DEF Uploads
    <3>3. CASE i \notin jobs
      <4>1. IsPenalty(r) BY <1>1, <3>1, <3>3, NewJobs
      <4> QED BY <4>1 DEF IsPenalty, Award
    <3> QED BY <3>2, <3>3
  <2>4. ASSUME NEW s \in records', Award(s) PROVE \E j \in jobs' : Covers(j, s)
    <3>1. PICK r \in records : Award(r) /\ Key(r) = Key(s)
      BY <2>2, <2>4, AwardOrigin DEF Uploads
    <3>2. PICK j \in jobs : Covers(j, r) BY <2>1, <3>1 DEF AwardsFit, AwardsEnd
    <3> QED BY <3>1, <3>2, CoverStays
  <2> QED BY <2>3, <2>4
<1> QED BY <1>3, <1>4

-----------------------------------------------------------------------------
LEMMA EditStarts ==
    ASSUME "users" \in Waits, IInv, AwardsFit, NEW p \in Phone, Edit(p)
    PROVE  EditsFit'
<1>1. /\ jobs = {} /\ ~ deleted /\ records' = records /\ published' = published
      /\ done' = done /\ holds' = holds /\ \A q \in Phone : holds[q] => done[q] = published
  BY ActsAtRest DEF Edit, Settled
<1>2. jobs' = {Query(p, "edit", p)} BY <1>1 DEF Edit
<1>3. \A i \in jobs' : i.op = "edit" /\ i.docs = {} BY <1>2 DEF Query
<1>4. CASE published
  <2>1. StaysDone' BY <1>1, <1>3, <1>4 DEF StaysDone
  <2> QED BY <1>3, <2>1 DEF EditsFit
<1>5. CASE ~ published
  <2>1. \A r \in records : ~ Award(r) BY <1>1, <1>5 DEF AwardsFit, AwardsEnd, Covers
  <2>2. ASSUME NEW r \in OnFile' PROVE ~ Award(r) BY <1>1, <1>3, <2>1, <2>2, OnFileIsNext
  <2>3. NoAward' BY <2>2 DEF NoAward, Award
  <2> QED BY <1>3, <2>3 DEF EditsFit
<1> QED BY <1>4, <1>5

(* While the task is completed on every phone that has it, no check makes  *)
(* a penalty.                                                              *)
LEMMA StaysDoneStep ==
    ASSUME IInv, [Next]_vars, ~ UserNext, StaysDone
    PROVE  StaysDone'
<1>1. published' BY FlagsMove DEF StaysDone
<1>2. /\ \A p \in Phone : holds'[p] => holds[p]
      /\ \A p \in Phone : holds[p] => done'[p] = done[p]
  <2>1. CASE SyncNext
    <3>1. ASSUME NEW q \in Phone, DeletionSynced(q)
          PROVE  done' = done /\ \A p \in Phone : holds'[p] => holds[p]
      BY <3>1 DEF DeletionSynced, IInv, TypeOK
    <3>2. ASSUME NEW q \in Phone, FlagSynced(q) PROVE FALSE
      <4>1. done[q] \in BOOLEAN /\ published \in BOOLEAN BY DEF IInv, TypeOK
      <4> QED BY <3>2, <4>1 DEF FlagSynced, StaysDone
    <3> QED BY <2>1, <3>1, <3>2 DEF SyncNext
  <2>2. CASE CheckNext
    <3>1. PICK p \in Phone : Looks(p) BY <2>2 DEF CheckNext, Looks
    <3> QED BY <3>1, LooksOnly DEF taskVars
  <2>3. ASSUME NEW j \in jobs, AnyCall(j) PROVE holds' = holds /\ done' = done
    BY <2>3 DEF AnyCall, Uploaded, Found, FoundToExpire, Removed, Edited, Expired, Served,
           Refreshed, RefreshAnswered, Failed, ExpireFailed, taskVars
  <2>4. CASE CallNext BY <2>3, <2>4, CallsAre
  <2>5. CASE DeadlinePasses \/ (\E p \in Phone : Restart(p)) \/ UNCHANGED vars
    BY <2>5 DEF DeadlinePasses, Restart, vars, taskVars
  <2> QED BY <2>1, <2>2, <2>4, <2>5 DEF Next
<1>3. ASSUME NEW i \in jobs' PROVE i.op # "expire"
  <2>1. CASE i \in jobs BY <2>1 DEF StaysDone
  <2>2. CASE i \notin jobs BY <2>2, NewJobs DEF StaysDone, Overdue
  <2> QED BY <2>1, <2>2
<1> QED BY <1>1, <1>2, <1>3 DEF StaysDone

LEMMA EditsFitStep ==
    ASSUME "users" \in Waits, IInv, UniqueInv, AwardsFit, [Next]_vars
    PROVE  EditsFit'
<1>1. CASE \E p \in Phone : Edit(p) BY <1>1, EditStarts
<1>2. ASSUME ~ (\E p \in Phone : Edit(p)), NEW j \in jobs', j.op = "edit"
      PROVE  /\ NoAward' \/ StaysDone'
             /\ \A d \in j.docs, s \in records' : Key(d) = Key(s) => d.isOnTime = s.isOnTime
  <2>0. records \subseteq Record BY DEF IInv, TypeOK
  <2>1. j \in jobs \/ Goes(j) BY <1>2, NewJobs
  <2>2. NoAward \/ StaysDone
    <3>1. \E k \in jobs : k.op = "edit" BY <1>2, <2>1 DEF Goes
    <3> QED BY <3>1 DEF AwardsFit, EditsFit
  <2>3. ~ UserNext
    <3>1. jobs # {} BY <2>1 DEF Goes
    <3> QED BY <3>1, ActsAtRest DEF UserNext, Tap, Edit, Delete
  <2>4. NoAward' \/ StaysDone'
    <3>1. ASSUME NoAward PROVE NoAward'
      <4>1. ~ Completes BY <2>3 DEF Completes, UserNext
      <4>2. ASSUME NEW s \in OnFile' PROVE ~ Award(s) BY <3>1, <4>1, <4>2, AwardsKept DEF NoAward
      <4> QED BY <4>2 DEF NoAward, Award
    <3> QED BY <2>2, <2>3, <3>1, StaysDoneStep
  <2>5. ASSUME NEW d \in j.docs
        PROVE  /\ \A x \in records : Key(d) = Key(x) => d.isOnTime = x.isOnTime
               /\ \A i \in jobs : i.op = "upload" => \A e \in i.docs : Key(e) # Key(d)
    <3>1. CASE j \in jobs BY <1>2, <3>1 DEF AwardsFit, EditsFit, UniqueInv
    <3>2. CASE Goes(j)
      <4>1. d \in records BY <3>2 DEF Goes
      <4> QED BY <4>1 DEF UniqueInv
    <3> QED BY <2>1, <3>1, <3>2
  <2>6. ASSUME NEW d \in j.docs, NEW s \in records', Key(d) = Key(s)
        PROVE  d.isOnTime = s.isOnTime
    <3>1. CASE s \in records BY <2>5, <2>6, <3>1
    <3>2. ASSUME NEW i \in jobs, Uploaded(i), s \in i.docs PROVE FALSE
      BY <2>5, <2>6, <3>2 DEF Uploaded
    <3>3. ASSUME NEW i \in jobs, NEW x \in records, i.op = "expire", s = Penalised(x)
          PROVE  d.isOnTime = s.isOnTime
      <4>1. NoAward BY <2>2, <3>3 DEF StaysDone
      <4>2. x \in OnFile /\ x \in Record BY <2>0, OnFileIs
      <4>3. x.score < 0 BY <4>1, <4>2 DEF NoAward, Award, Record
      <4>4. x.isOnTime = FALSE BY <4>2, <4>3 DEF AwardsFit, PenaltiesLate, Record
      <4>5. Key(s) = Key(x) /\ s.isOnTime = FALSE
        BY <3>3, <4>2 DEF Penalised, Key, Record
      <4>6. d.isOnTime = x.isOnTime BY <2>5, <2>6, <4>5
      <4> QED BY <4>4, <4>5, <4>6
    <3>4. ASSUME NEW i \in jobs, NEW x \in records, NEW e \in i.docs,
                 s = [x EXCEPT !.score = Rewritten(e).score]
          PROVE  d.isOnTime = s.isOnTime
      <4>1. Key(s) = Key(x) /\ s.isOnTime = x.isOnTime BY <2>0, <3>4 DEF Key, Record
      <4> QED BY <2>5, <2>6, <4>1
    <3> QED BY <3>1, <3>2, <3>3, <3>4, Origin
  <2> QED BY <2>4, <2>6
<1>3. CASE ~ (\E p \in Phone : Edit(p))
  BY <1>2, <1>3 DEF EditsFit, Key
<1> QED BY <1>1, <1>3

-----------------------------------------------------------------------------
(* What holds as long as nothing has failed.                               *)
AwardsInv == IInv /\ HistoryInv /\ UniqueInv /\ (faults = 0 => AwardsFit)

LEMMA AwardsStart == Init => AwardsInv
<1> SUFFICES ASSUME Init PROVE AwardsInv
  OBVIOUS
<1>1. records = {} /\ jobs = {} BY DEF Init
<1>2. OnFile = {} BY <1>1, OnFileIs
<1>3. AwardsFit
  BY <1>1, <1>2 DEF AwardsFit, PenaltiesLate, AwardedOnce, AwardsForTargets, AwardsEnd, EditsFit,
     Uploads
<1> QED BY <1>3, Initially, HistoryStarts, UniqueStarts DEF AwardsInv

LEMMA AwardsStep ==
    ASSUME "users" \in Waits, OneTask
    PROVE  AwardsInv /\ [Next]_vars => AwardsInv'
<1> SUFFICES ASSUME AwardsInv, [Next]_vars PROVE AwardsInv'
  OBVIOUS
<1>1. IInv /\ HistoryInv /\ UniqueInv BY DEF AwardsInv
<1>2. IInv' /\ HistoryInv' /\ UniqueInv' BY <1>1, Inductive, HistoryStep, UniqueStep
<1>3. ASSUME faults' = 0 PROVE AwardsFit'
  <2>1. AwardsFit BY <1>1, <1>3, NoFaultYet DEF AwardsInv
  <2> QED BY <1>1, <1>3, <2>1, PenaltiesLateStep, AwardedOnceStep, AwardsEndStep, EditsFitStep
         DEF AwardsFit
<1> QED BY <1>2, <1>3 DEF AwardsInv

(* When users wait until all has settled, nobody is awarded twice as long  *)
(* as no call has failed, on any number of phones for which the task is    *)
(* for the same users, whatever their checks do at whatever time and       *)
(* however often a refresh fails and empties the cache: a completion       *)
(* begins without awards, for the withdrawal before it has ended.  (A run  *)
(* without failures, MaxFaults = 0, has faults = 0 throughout.)            *)
THEOREM AlwaysAwardedOnce ==
    ASSUME "users" \in Waits, \A p, q \in Phone : Targets(p) = Targets(q)
    PROVE  Spec => [](faults = 0 => AwardedOnce)
<1>1. AwardsInv => (faults = 0 => AwardedOnce) BY DEF AwardsInv, AwardsFit
<1>2. OneTask BY DEF OneTask
<1>3. AwardsInv /\ [Next]_vars => AwardsInv' BY <1>2, AwardsStep
<1> QED BY <1>1, <1>3, AwardsStart, PTL DEF Spec

(* Under the same conditions a task that is taken back keeps no record of  *)
(* a completion once all calls have ended: each award is found by its      *)
(* withdrawal, and neither an edit nor a check makes a new one meanwhile.  *)
THEOREM WithdrawnAlwaysLeavesNoAward ==
    ASSUME "users" \in Waits, \A p, q \in Phone : Targets(p) = Targets(q)
    PROVE  Spec => []WithdrawnLeavesNoAward
<1>1. ASSUME AwardsInv, NEW p \in Phone, Quiet, holds[p], ~ done[p]
      PROVE  ~ \E r \in records : r.score >= 0
  <2>1. jobs = {} /\ ~ deleted /\ ~ published BY <1>1 DEF Quiet, Settled
  <2> QED BY <1>1, <2>1 DEF Quiet, AwardsInv, AwardsFit, AwardsEnd, Award
<1>2. AwardsInv => WithdrawnLeavesNoAward BY <1>1 DEF WithdrawnLeavesNoAward
<1>3. OneTask BY DEF OneTask
<1>4. AwardsInv /\ [Next]_vars => AwardsInv' BY <1>3, AwardsStep
<1> QED BY <1>2, <1>4, AwardsStart, PTL DEF Spec
================================================================================
