-------------------------- MODULE ScoreRecords_proofs --------------------------
(***************************************************************************)
(* Proofs about ScoreRecords for any number of phones, users, checks,      *)
(* failures and restarts, and without patience: the variables keep their   *)
(* types, a record enters the collection only through its own upload,      *)
(* once, a penalty stays, a record that is late remains so, and only an    *)
(* edit makes a penalty of a late completion.                              *)
(***************************************************************************)
EXTENDS ScoreRecords, TLAPS

(* An upload carries the one record its number and target name.            *)
Carries(j) == \E r \in Record : j.docs = {r} /\ r.n = j.n /\ r.target = j.target

(* No two uploads carry the same record: their numbers come from calls.    *)
UploadsDistinct ==
    /\ \A j \in jobs : j.n <= calls
    /\ \A j \in jobs : j.op = "upload" => Carries(j)
    /\ \A i, j \in jobs :
           i.op = "upload" /\ j.op = "upload" /\ i.n = j.n /\ i.target = j.target => i = j

IInv == TypeOK /\ UploadsDistinct

-----------------------------------------------------------------------------
LEMMA TargetsAreUsers == ASSUME NEW p \in Phone PROVE Targets(p) \subseteq User
  BY ConstantsAssumption DEF Targets, User

LEMMA NewRecordType ==
    ASSUME TypeOK, NEW u \in User, NEW s \in {-1, 0, 1}, NEW b \in BOOLEAN
    PROVE  NewRecord(u, s, b) \in Record
  BY DEF NewRecord, Record, TypeOK

LEMMA QueryType ==
    ASSUME TypeOK, NEW p \in Phone, NEW u \in User,
           NEW op \in {"withdraw", "remove", "removeAgain", "edit", "check", "refresh", "expire"}
    PROVE  /\ Query(p, op, u) \in Job
           /\ Query(p, op, u).n = calls + 1 /\ Query(p, op, u).op # "upload"
  BY DEF Query, Job, TypeOK

LEMMA UploadType ==
    ASSUME TypeOK, NEW p \in Phone, NEW r \in Record, r.n = calls + 1
    PROVE  /\ Upload(p, r) \in Job
           /\ Upload(p, r).n = calls + 1 /\ Upload(p, r).op = "upload"
           /\ Upload(p, r).target = r.target
           /\ Carries(Upload(p, r))
<1>1. r.target \in User BY DEF Record
<1>2. Upload(p, r) \in Job BY <1>1 DEF Upload, Job, TypeOK
<1> QED BY <1>2 DEF Upload, Carries

LEMMA PhoneIsUser == Phone \subseteq User
  BY DEF User

(* What an operation may do to the calls in progress: end some, move some  *)
(* that are not uploads on, and start new ones under a new number.         *)
LEMMA JobsStep ==
    ASSUME IInv, NEW new, new \subseteq Job,
           jobs' \subseteq jobs \cup new, calls' \in Nat, calls <= calls',
           \A i \in new : \/ i.n <= calls /\ i.op # "upload"
                          \/ i.n = calls + 1 /\ calls' = calls + 1
                             /\ (i.op = "upload" => Carries(i)),
           \A i, k \in new : i.op = "upload" /\ k.op = "upload" /\ i.target = k.target => i = k
    PROVE  UploadsDistinct'
<1> USE DEF IInv, TypeOK
<1>0. jobs \subseteq Job BY DEF Job
<1>1. \A j \in jobs : j.n \in Nat /\ j.n <= calls BY <1>0 DEF UploadsDistinct, Job
<1>2. \A j \in jobs' : j.n <= calls' BY <1>1 DEF Job
<1>3. \A j \in jobs' : j.op = "upload" => Carries(j) BY DEF UploadsDistinct
<1>4. ASSUME NEW i \in jobs', NEW j \in jobs', i.op = "upload", j.op = "upload",
             i.n = j.n, i.target = j.target
      PROVE  i = j
  <2>1. CASE i \in jobs /\ j \in jobs BY <2>1, <1>4 DEF UploadsDistinct
  <2>2. CASE i \in jobs /\ j \notin jobs
    <3>1. j.n = calls + 1 BY <2>2, <1>4
    <3> QED BY <3>1, <2>2, <1>1, <1>4
  <2>3. CASE i \notin jobs /\ j \in jobs
    <3>1. i.n = calls + 1 BY <2>3, <1>4
    <3> QED BY <3>1, <2>3, <1>1, <1>4
  <2>4. CASE i \notin jobs /\ j \notin jobs BY <2>4, <1>4
  <2> QED BY <2>1, <2>2, <2>3, <2>4
<1>5. \A j : Carries(j)' <=> Carries(j) BY DEF Carries
<1> QED BY <1>2, <1>3, <1>4, <1>5 DEF UploadsDistinct

(* An operation that ends calls and starts none.                           *)
LEMMA JobsEnd ==
    ASSUME IInv, jobs' \subseteq jobs, calls' \in Nat, calls <= calls'
    PROVE  UploadsDistinct'
<1>1. PICK new : new = {} OBVIOUS
<1>2. new \subseteq Job /\ jobs' \subseteq jobs \cup new BY <1>1
<1>3. \A i \in new : FALSE BY <1>1
<1> QED BY <1>2, <1>3, JobsStep

(* An operation that starts queries.                                       *)
LEMMA JobsAsk ==
    ASSUME IInv, NEW new \in SUBSET Job, jobs' = jobs \cup new, calls' = calls + 1,
           \A i \in new : i.n = calls + 1 /\ i.op # "upload"
    PROVE  jobs' \in SUBSET Job /\ calls' \in Nat /\ UploadsDistinct'
<1>1. calls \in Nat /\ jobs \subseteq Job BY DEF IInv, TypeOK
<1>2. calls' \in Nat /\ calls <= calls' BY <1>1
<1>3. jobs' \subseteq jobs \cup new OBVIOUS
<1>4. UploadsDistinct' BY <1>2, <1>3, JobsStep
<1> QED BY <1>1, <1>2, <1>4

(* The same for one query.                                                 *)
LEMMA JobsAskOne ==
    ASSUME IInv, NEW p \in Phone, calls' = calls + 1,
           NEW op \in {"withdraw", "remove", "removeAgain", "edit", "check", "refresh", "expire"},
           jobs' = jobs \cup {Query(p, op, p)}
    PROVE  jobs' \in SUBSET Job /\ calls' \in Nat /\ UploadsDistinct'
<1>1. PICK new : new = {Query(p, op, p)} OBVIOUS
<1>2. \A i \in new : i \in Job /\ i.n = calls + 1 /\ i.op # "upload"
  BY <1>1, QueryType, PhoneIsUser DEF IInv
<1>3. new \in SUBSET Job /\ jobs' = jobs \cup new BY <1>1, <1>2
<1> QED BY <1>2, <1>3, JobsAsk

-----------------------------------------------------------------------------
(* The operations of the users and the arrival of their changes.           *)
LEMMA TapStep == ASSUME IInv, NEW p \in Phone, Tap(p) PROVE IInv'
<1> USE DEF IInv
<1>1. TypeOK /\ UploadsDistinct OBVIOUS
<1>2. calls' = calls + 1 /\ calls \in Nat /\ calls' \in Nat BY DEF Tap, UserActs, TypeOK
<1>3. /\ done' \in [Phone -> BOOLEAN] /\ published' \in BOOLEAN /\ acts' \in Nat
      /\ records' = records /\ holds' = holds /\ deleted' = deleted /\ late' = late
      /\ deductions' = deductions
      /\ UNCHANGED <<checks, browses, faults, misses, restarts>>
  BY DEF Tap, UserActs, TypeOK
<1>4. /\ jobs' \in SUBSET Job /\ cache' \in [Phone -> SUBSET Record]
      /\ lateAwards' \in SUBSET (Nat \X User) /\ UploadsDistinct'
  <2>1. CASE done[p]
    <3> DEFINE new == {Query(p, "withdraw", u) : u \in Targets(p)}
    <3>1. jobs' = jobs \cup new /\ cache' = cache /\ lateAwards' = lateAwards
      BY <2>1 DEF Tap, WithdrawTaskScore
    <3>2. new \in SUBSET Job /\ \A i \in new : i.n = calls + 1 /\ i.op # "upload"
      BY QueryType, TargetsAreUsers
    <3>3. jobs' \in SUBSET Job /\ UploadsDistinct' BY <1>2, <3>1, <3>2, JobsAsk
    <3> QED BY <3>1, <3>3 DEF TypeOK
  <2>2. CASE ~ done[p] /\ AwardedBefore(p)
    <3>1. jobs' = jobs /\ cache' = cache /\ lateAwards' = lateAwards
      BY <2>2 DEF Tap, CalculateTaskScore
    <3> QED BY <1>2, <3>1, JobsEnd DEF TypeOK
  <2>3. CASE ~ done[p] /\ ~ AwardedBefore(p)
    <3> DEFINE recs == {NewRecord(u, Score, ~ late) : u \in Targets(p)}
               new == {Upload(p, r) : r \in recs}
    <3>1. /\ jobs' = jobs \cup new
          /\ cache' = [cache EXCEPT ![p] = @ \cup recs]
          /\ lateAwards' = IF late THEN lateAwards \cup {Key(r) : r \in recs} ELSE lateAwards
      BY <2>3 DEF Tap, CalculateTaskScore
    <3>2. Score \in {-1, 0, 1} /\ (~ late) \in BOOLEAN BY DEF Score
    <3>3. \A r \in recs : r \in Record /\ r.n = calls + 1
      <4>1. \A u \in Targets(p) : NewRecord(u, Score, ~ late) \in Record
        BY <1>1, <3>2, TargetsAreUsers, NewRecordType
      <4>2. \A u \in Targets(p) : NewRecord(u, Score, ~ late).n = calls + 1 BY DEF NewRecord
      <4> QED BY <4>1, <4>2
    <3>4. \A i \in new : i \in Job /\ i.n = calls + 1 /\ Carries(i)
      BY <1>1, <3>3, UploadType
    <3>5. \A i, k \in new : i.target = k.target => i = k
      <4> SUFFICES ASSUME NEW u \in Targets(p), NEW v \in Targets(p),
                          Upload(p, NewRecord(u, Score, ~ late)).target
                              = Upload(p, NewRecord(v, Score, ~ late)).target
                   PROVE  u = v
        OBVIOUS
      <4> QED BY DEF Upload, NewRecord
    <3>6. jobs' \subseteq jobs \cup new /\ new \subseteq Job BY <3>1, <3>4
    <3>7. UploadsDistinct'
      <4>1. calls <= calls' BY <1>2
      <4> HIDE DEF new, IInv
      <4> QED BY <1>2, <3>4, <3>5, <3>6, <4>1, JobsStep
    <3>8. cache' \in [Phone -> SUBSET Record] BY <3>1, <3>3 DEF TypeOK
    <3>9. \A r \in recs : Key(r) \in Nat \X User BY <3>3 DEF Key, Record
    <3>10. lateAwards' \in SUBSET (Nat \X User) BY <3>1, <3>9 DEF TypeOK
    <3> QED BY <3>1, <3>6, <3>7, <3>8, <3>10 DEF TypeOK
  <2> QED BY <2>1, <2>2, <2>3
<1> QED BY <1>2, <1>3, <1>4 DEF TypeOK

LEMMA EditStep == ASSUME IInv, NEW p \in Phone, Edit(p) PROVE IInv'
<1>1. TypeOK BY DEF IInv
<1>2. jobs' = jobs \cup {Query(p, "edit", p)} /\ calls' = calls + 1 BY DEF Edit, UserActs
<1>3. jobs' \in SUBSET Job /\ calls' \in Nat /\ UploadsDistinct' BY <1>2, JobsAskOne
<1>4. late' \in BOOLEAN BY <1>1 DEF Edit, TypeOK
<1>5. acts' \in Nat BY <1>1 DEF Edit, UserActs, TypeOK
<1> QED BY <1>1, <1>3, <1>4, <1>5 DEF Edit, history, IInv, TypeOK

LEMMA DeleteStep == ASSUME IInv, NEW p \in Phone, Delete(p) PROVE IInv'
<1>1. TypeOK BY DEF IInv
<1>2. PICK ops \in {{"remove"}, {"remove", "removeAgain"}} :
          jobs' = jobs \cup {Query(p, op, p) : op \in ops}
  BY DEF Delete
<1> DEFINE new == {Query(p, op, p) : op \in ops}
<1>3. \A i \in new : i \in Job /\ i.n = calls + 1 /\ i.op # "upload"
  BY <1>1, QueryType, PhoneIsUser
<1>4. calls' = calls + 1 BY DEF Delete, UserActs
<1>5. jobs' \in SUBSET Job /\ calls' \in Nat /\ UploadsDistinct'
  <2>1. new \in SUBSET Job /\ jobs' = jobs \cup new BY <1>2, <1>3
  <2> HIDE DEF new
  <2> QED BY <1>3, <1>4, <2>1, JobsAsk
<1>6. holds' \in [Phone -> BOOLEAN] /\ deleted' \in BOOLEAN /\ acts' \in Nat
  BY <1>1 DEF Delete, UserActs, TypeOK
<1> QED BY <1>1, <1>5, <1>6 DEF Delete, history, IInv, TypeOK

LEMMA DeletionSyncedStep == ASSUME IInv, NEW p \in Phone, DeletionSynced(p) PROVE IInv'
<1>1. TypeOK BY DEF IInv
<1>2. jobs' = jobs \cup {Query(p, "remove", p)} /\ calls' = calls + 1 BY DEF DeletionSynced
<1>4. jobs' \in SUBSET Job /\ calls' \in Nat /\ UploadsDistinct' BY <1>2, JobsAskOne
<1>5. holds' \in [Phone -> BOOLEAN] BY <1>1 DEF DeletionSynced, TypeOK
<1> QED BY <1>1, <1>4, <1>5 DEF DeletionSynced, history, boundVars, IInv, TypeOK

LEMMA FlagSyncedStep == ASSUME IInv, NEW p \in Phone, FlagSynced(p) PROVE IInv'
<1>1. TypeOK BY DEF IInv
<1>2. jobs' = jobs /\ calls' = calls BY DEF FlagSynced
<1>3. UploadsDistinct' BY <1>1, <1>2, JobsEnd DEF TypeOK
<1> QED BY <1>1, <1>3 DEF FlagSynced, history, boundVars, IInv, TypeOK

LEMMA DeadlineStep == ASSUME IInv, DeadlinePasses PROVE IInv'
<1>1. TypeOK BY DEF IInv
<1>2. jobs' = jobs /\ calls' = calls BY DEF DeadlinePasses
<1>3. UploadsDistinct' BY <1>1, <1>2, JobsEnd DEF TypeOK
<1> QED BY <1>1, <1>3 DEF DeadlinePasses, history, boundVars, IInv, TypeOK

LEMMA RestartStep == ASSUME IInv, NEW p \in Phone, Restart(p) PROVE IInv'
<1>1. TypeOK BY DEF IInv
<1>2. jobs' \subseteq jobs /\ calls' = calls BY DEF Restart
<1>3. UploadsDistinct' BY <1>1, <1>2, JobsEnd DEF TypeOK
<1>4. /\ cache' \in [Phone -> SUBSET Record] /\ restarts' \in Nat /\ faults' \in Nat
      /\ jobs' \in SUBSET Job
  BY <1>1 DEF Restart, TypeOK
<1> QED BY <1>1, <1>2, <1>3, <1>4 DEF Restart, taskVars, history, IInv, TypeOK

-----------------------------------------------------------------------------
(* The checks.                                                             *)
LEMMA PenaltiesType ==
    ASSUME TypeOK, NEW p \in Phone, NEW seen
    PROVE  \A i \in Penalties(p, seen) : i \in Job /\ i.n = calls + 1 /\ i.op # "upload"
BY QueryType, TargetsAreUsers DEF Penalties

LEMMA ChecksType ==
    ASSUME TypeOK, NEW p \in Phone, Checks(p), jobs' \in SUBSET Job, UploadsDistinct'
    PROVE  IInv'
BY DEF Checks, taskVars, history, IInv, TypeOK

LEMMA CheckFromCacheStep == ASSUME IInv, NEW p \in Phone, CheckFromCache(p) PROVE IInv'
<1>1. TypeOK BY DEF IInv
<1> DEFINE new == Penalties(p, cache[p]) \cup {Query(p, "refresh", p)}
<1>2. jobs' = jobs \cup new /\ calls' = calls + 1 BY DEF CheckFromCache, Checks
<1>3. \A i \in new : i \in Job /\ i.n = calls + 1 /\ i.op # "upload"
  BY <1>1, QueryType, PhoneIsUser, PenaltiesType
<1>4. jobs' \in SUBSET Job /\ UploadsDistinct'
  <2>1. new \in SUBSET Job BY <1>3
  <2> HIDE DEF new
  <2> QED BY <1>2, <1>3, <2>1, JobsAsk
<1> QED BY <1>1, <1>4, ChecksType DEF CheckFromCache

LEMMA CheckFromServerStep == ASSUME IInv, NEW p \in Phone, CheckFromServer(p) PROVE IInv'
<1>1. TypeOK BY DEF IInv
<1>2. jobs' = jobs \cup {Query(p, "check", p)} /\ calls' = calls + 1
  BY DEF CheckFromServer, Checks
<1>4. jobs' \in SUBSET Job /\ UploadsDistinct' BY <1>2, JobsAskOne
<1> QED BY <1>1, <1>4, ChecksType DEF CheckFromServer

LEMMA BrowseStep == ASSUME IInv, NEW p \in Phone, Browse(p) PROVE IInv'
<1>1. TypeOK BY DEF IInv
<1>2. jobs' = jobs \cup {Query(p, "refresh", p)} /\ calls' = calls + 1
  BY DEF Browse
<1>4. jobs' \in SUBSET Job /\ UploadsDistinct' BY <1>2, JobsAskOne
<1>5. calls' \in Nat /\ browses' \in Nat BY <1>1, <1>2 DEF Browse, TypeOK
<1> QED BY <1>1, <1>4, <1>5 DEF Browse, taskVars, history, IInv, TypeOK

LEMMA RefreshedStep == ASSUME IInv, NEW j \in jobs, Refreshed(j) PROVE IInv'
<1>1. TypeOK /\ j.phone \in Phone BY DEF IInv, TypeOK, Job
<1>2. PICK answer \in SUBSET Record : RefreshAnswered(j, answer)
  BY <1>1 DEF Refreshed, IInv, TypeOK, Job
<1>3. misses' \in Nat BY <1>1 DEF Refreshed, TypeOK
<1> DEFINE new == IF j.op = "check" THEN Penalties(j.phone, answer) ELSE {}
<1>4. jobs' = (jobs \ {j}) \cup new /\ calls' = calls + 1 /\ calls \in Nat
  BY <1>1, <1>2 DEF RefreshAnswered, TypeOK
<1>5. \A i \in new : i \in Job /\ i.n = calls + 1 /\ i.op # "upload"
  BY <1>1, PenaltiesType
<1>6. jobs' \in SUBSET Job BY <1>1, <1>4, <1>5 DEF TypeOK
<1>7. UploadsDistinct'
  <2>1. new \subseteq Job /\ jobs' \subseteq jobs \cup new BY <1>4, <1>5
  <2>2. calls' \in Nat /\ calls <= calls' BY <1>4
  <2> HIDE DEF new
  <2> QED BY <1>4, <1>5, <2>1, <2>2, JobsStep
<1>8. cache' \in [Phone -> SUBSET Record] BY <1>1, <1>2 DEF RefreshAnswered, TypeOK
<1> QED BY <1>1, <1>2, <1>3, <1>4, <1>6, <1>7, <1>8 DEF RefreshAnswered, taskVars, history, IInv, TypeOK

-----------------------------------------------------------------------------
(* The other calls.                                                        *)
LEMMA JobFields ==
    ASSUME IInv, NEW j \in jobs
    PROVE  /\ j \in Job /\ j.n \in Nat /\ j.n <= calls /\ j.phone \in Phone
           /\ j.target \in User /\ j.docs \in SUBSET Record
           /\ TypeOK /\ calls \in Nat
BY DEF IInv, TypeOK, Job, UploadsDistinct

LEMMA UploadedStep == ASSUME IInv, NEW j \in jobs, Uploaded(j) PROVE IInv'
<1>1. TypeOK /\ j.docs \in SUBSET Record BY JobFields
<1>2. jobs' \subseteq jobs /\ calls' = calls BY DEF Uploaded
<1>3. UploadsDistinct' BY <1>1, <1>2, JobsEnd DEF TypeOK
<1>4. records' \in SUBSET Record BY <1>1 DEF Uploaded, TypeOK
<1> QED BY <1>1, <1>2, <1>3, <1>4 DEF Uploaded, taskVars, history, boundVars, IInv, TypeOK

(* A call that is no upload moves on with the records it found.            *)
LEMMA JobMoves ==
    ASSUME IInv, NEW j \in jobs, j.op # "upload", NEW docs \in SUBSET Record, calls' = calls,
           NEW step \in {"write", "answer"},
           jobs' \subseteq jobs \cup {[j EXCEPT !.step = step, !.docs = docs]}
    PROVE  jobs' \in SUBSET Job /\ UploadsDistinct'
<1>1. /\ j \in Job /\ j.n \in Nat /\ j.n <= calls /\ TypeOK /\ calls \in Nat
      /\ jobs \subseteq Job
  BY JobFields DEF TypeOK
<1>2. PICK i : i = [j EXCEPT !.step = step, !.docs = docs] OBVIOUS
<1>3. i \in Job /\ i.n = j.n /\ i.op = j.op BY <1>1, <1>2 DEF Job
<1>4. PICK new : new = {i} OBVIOUS
<1>5. new \subseteq Job /\ jobs' \subseteq jobs \cup new BY <1>2, <1>3, <1>4
<1>6. \A k \in new : k.n <= calls /\ k.op # "upload" BY <1>1, <1>3, <1>4
<1>7. calls' \in Nat /\ calls <= calls' BY <1>1
<1>8. UploadsDistinct' BY <1>5, <1>6, <1>7, JobsStep
<1> QED BY <1>1, <1>5, <1>8

LEMMA ServedStep == ASSUME IInv, NEW j \in jobs, Served(j) PROVE IInv'
<1>1. TypeOK /\ j.op # "upload" /\ records \in SUBSET Record BY JobFields DEF Served, TypeOK
<1>2. /\ jobs' \subseteq jobs \cup {[j EXCEPT !.step = "answer", !.docs = records]}
      /\ calls' = calls
  BY DEF Served
<1>3. jobs' \in SUBSET Job /\ UploadsDistinct' BY <1>1, <1>2, JobMoves
<1> QED BY <1>1, <1>3 DEF Served, taskVars, history, boundVars, IInv, TypeOK

LEMMA FoundStep == ASSUME IInv, NEW j \in jobs, Found(j) PROVE IInv'
<1>1. TypeOK /\ j.op # "upload" BY JobFields DEF Found, Removal
<1>2. Sought(j) \in SUBSET Record BY <1>1 DEF Sought, TypeOK
<1>3. /\ jobs' \subseteq jobs \cup {[j EXCEPT !.step = "write", !.docs = Sought(j)]}
      /\ calls' = calls
  BY DEF Found
<1>4. jobs' \in SUBSET Job /\ UploadsDistinct' BY <1>1, <1>2, <1>3, JobMoves
<1> QED BY <1>1, <1>4 DEF Found, taskVars, history, boundVars, IInv, TypeOK

LEMMA PenaltyAddedStep ==
    ASSUME IInv, NEW j \in jobs, PenaltyAdded(j)
    PROVE  /\ cache' \in [Phone -> SUBSET Record]
           /\ jobs' \in SUBSET Job /\ calls' \in Nat /\ UploadsDistinct'
           /\ deductions' \in SUBSET (Nat \X User)
<1>1. TypeOK /\ j.phone \in Phone /\ j.target \in User /\ calls \in Nat BY JobFields
<1>2. PICK r : r = NewRecord(j.target, -1, FALSE) OBVIOUS
<1>3. r \in Record BY <1>1, <1>2, NewRecordType
<1>4. r.n = calls + 1 BY <1>2 DEF NewRecord
<1>5. PICK i : i = Upload(j.phone, r) OBVIOUS
<1>6. i \in Job /\ i.n = calls + 1 /\ Carries(i) BY <1>1, <1>3, <1>4, <1>5, UploadType
<1>7. /\ cache' = [cache EXCEPT ![j.phone] = @ \cup {r}]
      /\ jobs' = (jobs \ {j}) \cup {i}
      /\ calls' = calls + 1
      /\ deductions' = deductions \cup {Key(r)}
  BY <1>2, <1>5 DEF PenaltyAdded
<1>8. cache' \in [Phone -> SUBSET Record] BY <1>1, <1>3, <1>7 DEF TypeOK
<1>9. jobs' \in SUBSET Job BY <1>1, <1>6, <1>7 DEF TypeOK
<1>10. calls' \in Nat /\ calls <= calls' BY <1>1, <1>7
<1>11. UploadsDistinct'
  <2>1. PICK new : new = {i} OBVIOUS
  <2>2. new \subseteq Job /\ jobs' \subseteq jobs \cup new BY <1>6, <1>7, <2>1
  <2>3. \A k \in new : k.n = calls + 1 /\ Carries(k) BY <1>6, <2>1
  <2>4. \A k, l \in new : k = l BY <2>1
  <2> QED BY <1>7, <1>10, <2>2, <2>3, <2>4, JobsStep
<1>12. deductions' \in SUBSET (Nat \X User) BY <1>1, <1>3, <1>7 DEF TypeOK, Key, Record
<1> QED BY <1>8, <1>9, <1>10, <1>11, <1>12

LEMMA FoundToExpireStep == ASSUME IInv, NEW j \in jobs, FoundToExpire(j) PROVE IInv'
<1>1. TypeOK /\ j.op # "upload" BY JobFields DEF FoundToExpire
<1>2. /\ cache' \in [Phone -> SUBSET Record] /\ calls' \in Nat
      /\ jobs' \in SUBSET Job /\ UploadsDistinct' /\ deductions' \in SUBSET (Nat \X User)
  <2>1. ASSUME NEW r \in Sought(j), UNCHANGED <<cache, calls, deductions>>,
               jobs' = (jobs \ {j}) \cup {[j EXCEPT !.step = "write", !.docs = {r}]}
        PROVE  /\ cache' \in [Phone -> SUBSET Record] /\ calls' \in Nat
               /\ jobs' \in SUBSET Job /\ UploadsDistinct' /\ deductions' \in SUBSET (Nat \X User)
    <3>1. {r} \in SUBSET Record BY <1>1 DEF Sought, TypeOK
    <3>2. jobs' \in SUBSET Job /\ UploadsDistinct' BY <1>1, <2>1, <3>1, JobMoves
    <3> QED BY <1>1, <2>1, <3>2 DEF TypeOK
  <2>2. CASE PenaltyAdded(j) BY <2>2, PenaltyAddedStep
  <2> QED BY <2>1, <2>2 DEF FoundToExpire
<1> QED BY <1>1, <1>2 DEF FoundToExpire, taskVars, boundVars, IInv, TypeOK

LEMMA ReachedType ==
    ASSUME TypeOK, NEW j, NEW docs, Reached(j, docs)
    PROVE  faults' \in Nat
BY DEF Reached, TypeOK

LEMMA RemovedStep == ASSUME IInv, NEW j \in jobs, Removed(j) PROVE IInv'
<1>1. TypeOK /\ j.phone \in Phone BY JobFields
<1>2. jobs' \subseteq jobs /\ calls' = calls BY DEF Removed
<1>3. UploadsDistinct' BY <1>1, <1>2, JobsEnd DEF TypeOK
<1>4. faults' \in Nat BY <1>1, ReachedType DEF Removed
<1>5. records' \in SUBSET Record BY <1>1 DEF Removed, TypeOK
<1>6. cache' \in [Phone -> SUBSET Record] BY <1>1 DEF Removed, Dropped, TypeOK
<1> QED BY <1>1, <1>2, <1>3, <1>4, <1>5, <1>6 DEF Removed, taskVars, history, IInv, TypeOK

LEMMA RewrittenType ==
    ASSUME NEW r \in Record
    PROVE  Rewritten(r) \in Record /\ Rewritten(r).score \in {-1, 0, 1}
BY DEF Rewritten, Record

LEMMA RevisedType ==
    ASSUME TypeOK, NEW d \in Record
    PROVE  Revised(d) \in SUBSET Record /\ Keys(Revised(d)) \subseteq Keys(records)
<1> SUFFICES ASSUME NEW r \in records, Key(r) = Key(d)
             PROVE  /\ [r EXCEPT !.score = Rewritten(d).score] \in Record
                    /\ Key([r EXCEPT !.score = Rewritten(d).score]) = Key(r)
  BY DEF Revised, Keys
<1>1. r \in Record BY DEF TypeOK
<1>2. Rewritten(d).score \in {-1, 0, 1} BY RewrittenType
<1>3. [r EXCEPT !.score = Rewritten(d).score] \in Record BY <1>1, <1>2 DEF Record
<1>4. Key([r EXCEPT !.score = Rewritten(d).score]) = Key(r) BY <1>1 DEF Record, Key
<1> QED BY <1>3, <1>4

LEMMA EditedStep == ASSUME IInv, NEW j \in jobs, Edited(j) PROVE IInv'
<1>1. TypeOK /\ j.phone \in Phone /\ j.docs \in SUBSET Record BY JobFields
<1>2. jobs' \subseteq jobs /\ calls' = calls BY DEF Edited
<1>3. UploadsDistinct' BY <1>1, <1>2, JobsEnd DEF TypeOK
<1>4. PICK docs \in SUBSET j.docs :
          /\ Reached(j, docs)
          /\ records' = {r \in records : Key(r) \notin Keys(docs)}
                           \cup UNION {Revised(d) : d \in docs}
  BY DEF Edited
<1>5. faults' \in Nat BY <1>1, <1>4, ReachedType
<1>6. records' \in SUBSET Record BY <1>1, <1>4, RevisedType DEF TypeOK
<1>7. cache' \in [Phone -> SUBSET Record]
  <2>1. {Rewritten(r) : r \in cache[j.phone]} \in SUBSET Record
    BY <1>1, RewrittenType DEF TypeOK
  <2>2. cache' = [cache EXCEPT ![j.phone] = {Rewritten(r) : r \in cache[j.phone]}]
    BY DEF Edited
  <2> QED BY <1>1, <2>1, <2>2 DEF TypeOK
<1> QED BY <1>1, <1>2, <1>3, <1>5, <1>6, <1>7 DEF Edited, taskVars, history, IInv, TypeOK

LEMMA PenalisedType ==
    ASSUME NEW r \in Record
    PROVE  Penalised(r) \in Record /\ Key(Penalised(r)) = Key(r)
BY DEF Penalised, Record, Key

LEMMA AfterPenaltyType ==
    ASSUME TypeOK, NEW j
    PROVE  AfterPenalty(j) \in SUBSET Record /\ Keys(AfterPenalty(j)) \subseteq Keys(records)
<1>1. \A r \in records : r \in Record /\ Penalised(r) \in Record /\ Key(Penalised(r)) = Key(r)
  BY PenalisedType DEF TypeOK
<1> QED BY <1>1 DEF AfterPenalty, Keys

LEMMA ExpiredStep == ASSUME IInv, NEW j \in jobs, Expired(j) PROVE IInv'
<1>1. TypeOK BY DEF IInv
<1>2. CASE /\ Exists(j) /\ records' = AfterPenalty(j) /\ jobs' = jobs \ {j}
           /\ UNCHANGED <<cache, calls, deductions>>
  <2>1. UploadsDistinct' BY <1>1, <1>2, JobsEnd DEF TypeOK
  <2>2. records' \in SUBSET Record BY <1>1, <1>2, AfterPenaltyType
  <2>3. /\ jobs' \in SUBSET Job /\ cache' = cache /\ calls' = calls
        /\ deductions' = deductions
    BY <1>1, <1>2 DEF TypeOK
  <2> QED BY <1>1, <2>1, <2>2, <2>3 DEF Expired, taskVars, boundVars, IInv, TypeOK
<1>3. CASE PenaltyAdded(j) /\ UNCHANGED records
  <2>1. /\ cache' \in [Phone -> SUBSET Record]
        /\ jobs' \in SUBSET Job /\ calls' \in Nat /\ UploadsDistinct'
        /\ deductions' \in SUBSET (Nat \X User)
    BY <1>3, PenaltyAddedStep
  <2> QED BY <1>1, <1>3, <2>1 DEF Expired, taskVars, boundVars, IInv, TypeOK
<1> QED BY <1>2, <1>3 DEF Expired

LEMMA FailedStep == ASSUME IInv, NEW j \in jobs, Failed(j) PROVE IInv'
<1>1. TypeOK BY DEF IInv
<1>2. jobs' \subseteq jobs /\ calls' = calls BY DEF Failed
<1>3. UploadsDistinct' BY <1>1, <1>2, JobsEnd DEF TypeOK
<1>4. faults' \in Nat BY <1>1 DEF Failed, TypeOK
<1> QED BY <1>1, <1>2, <1>3, <1>4 DEF Failed, taskVars, history, IInv, TypeOK

LEMMA ExpireFailedStep == ASSUME IInv, NEW j \in jobs, ExpireFailed(j) PROVE IInv'
<1>1. TypeOK BY DEF IInv
<1>2. records' \in SUBSET Record BY <1>1, AfterPenaltyType DEF ExpireFailed, TypeOK
<1>3. /\ cache' \in [Phone -> SUBSET Record]
      /\ jobs' \in SUBSET Job /\ calls' \in Nat /\ UploadsDistinct'
      /\ deductions' \in SUBSET (Nat \X User)
  BY PenaltyAddedStep DEF ExpireFailed
<1>4. faults' \in Nat BY <1>1 DEF ExpireFailed, TypeOK
<1> QED BY <1>1, <1>2, <1>3, <1>4 DEF ExpireFailed, taskVars, IInv, TypeOK

-----------------------------------------------------------------------------
LEMMA Initially == Init => IInv
<1> SUFFICES ASSUME Init PROVE IInv
  OBVIOUS
<1>1. TypeOK BY DEF Init, TypeOK
<1>2. UploadsDistinct BY DEF Init, UploadsDistinct
<1> QED BY <1>1, <1>2 DEF IInv

LEMMA Stutter == ASSUME IInv, UNCHANGED vars PROVE IInv'
<1>1. TypeOK BY DEF IInv
<1>2. jobs' = jobs /\ calls' = calls BY DEF vars
<1>3. UploadsDistinct' BY <1>1, <1>2, JobsEnd DEF TypeOK
<1> QED BY <1>1, <1>3 DEF vars, taskVars, history, boundVars, IInv, TypeOK

LEMMA Inductive == IInv /\ [Next]_vars => IInv'
<1> SUFFICES ASSUME IInv, [Next]_vars PROVE IInv'
  OBVIOUS
<1>1. CASE UserNext BY <1>1, TapStep, EditStep, DeleteStep DEF UserNext
<1>2. CASE SyncNext BY <1>2, FlagSyncedStep, DeletionSyncedStep DEF SyncNext
<1>3. CASE CheckNext BY <1>3, CheckFromCacheStep, CheckFromServerStep, BrowseStep DEF CheckNext
<1>4. CASE CallNext
  BY <1>4, UploadedStep, FoundStep, FoundToExpireStep, RemovedStep, EditedStep, ExpiredStep,
     ServedStep, RefreshedStep, FailedStep, ExpireFailedStep DEF CallNext
<1>5. CASE DeadlinePasses BY <1>5, DeadlineStep
<1>6. CASE \E p \in Phone : Restart(p) BY <1>6, RestartStep
<1>7. CASE UNCHANGED vars BY <1>7, Stutter
<1> QED BY <1>1, <1>2, <1>3, <1>4, <1>5, <1>6, <1>7 DEF Next

(* Every variable of the archive keeps its type, whatever the number of    *)
(* phones, actions, failures and restarts.                                 *)
THEOREM TypeCorrect == Spec => []TypeOK
<1>1. IInv => TypeOK BY DEF IInv
<1> QED BY <1>1, Initially, Inductive, PTL DEF Spec

-----------------------------------------------------------------------------
(* A step that adds no key to the collection.                              *)
LEMMA NoNewKeys ==
    ASSUME Keys(records') \subseteq Keys(records)
    PROVE  Keys(records') \ Keys(records) \subseteq Keys(Uploads) \ Keys(Uploads')
OBVIOUS

LEMMA UploadedOnce ==
    ASSUME IInv, NEW j \in jobs, Uploaded(j)
    PROVE  Keys(records') \ Keys(records) \subseteq Keys(Uploads) \ Keys(Uploads')
<1>1. j.op = "upload" /\ records' = records \cup j.docs /\ jobs' = jobs \ {j} BY DEF Uploaded
<1>2. PICK r : j.docs = {r} /\ r.n = j.n /\ r.target = j.target
  BY <1>1 DEF IInv, UploadsDistinct, Carries
<1>3. Keys(records') \ Keys(records) \subseteq {Key(r)} BY <1>1, <1>2 DEF Keys
<1>4. Key(r) \in Keys(Uploads) BY <1>1, <1>2 DEF Keys, Uploads
<1>5. Key(r) \notin Keys(Uploads')
  <2>1. SUFFICES ASSUME NEW i \in jobs', i.op = "upload", NEW s \in i.docs, Key(s) = Key(r)
                 PROVE  FALSE
    BY DEF Keys, Uploads
  <2>2. i \in jobs /\ i # j BY <1>1, <2>1
  <2>3. PICK t : i.docs = {t} /\ t.n = i.n /\ t.target = i.target
    BY <2>1, <2>2 DEF IInv, UploadsDistinct, Carries
  <2>4. s.n = r.n /\ s.target = r.target BY <2>1 DEF Key
  <2>5. i.n = j.n /\ i.target = j.target BY <1>2, <2>1, <2>3, <2>4
  <2> QED BY <1>1, <2>1, <2>2, <2>5 DEF IInv, UploadsDistinct
<1> QED BY <1>3, <1>4, <1>5

LEMMA EveryStepWritesOnce ==
    ASSUME IInv, [Next]_vars
    PROVE  Keys(records') \ Keys(records) \subseteq Keys(Uploads) \ Keys(Uploads')
<1>1. TypeOK BY DEF IInv
<1>2. CASE UserNext BY <1>2, NoNewKeys DEF UserNext, Tap, Edit, Delete
<1>3. CASE SyncNext BY <1>3, NoNewKeys DEF SyncNext, FlagSynced, DeletionSynced
<1>4. CASE CheckNext
  BY <1>4, NoNewKeys DEF CheckNext, CheckFromCache, CheckFromServer, Browse, Checks
<1>5. CASE DeadlinePasses \/ \E p \in Phone : Restart(p)
  BY <1>5, NoNewKeys DEF DeadlinePasses, Restart
<1>6. ASSUME NEW j \in jobs,
             \/ Found(j) \/ FoundToExpire(j) \/ Served(j) \/ Refreshed(j) \/ Failed(j)
      PROVE  records' = records
  BY <1>6 DEF Found, FoundToExpire, Served, Refreshed, RefreshAnswered, Failed
<1>7. ASSUME NEW j \in jobs, Removed(j) PROVE Keys(records') \subseteq Keys(records)
  BY <1>7 DEF Removed, Keys
<1>8. ASSUME NEW j \in jobs, Edited(j) PROVE Keys(records') \subseteq Keys(records)
  <2>1. PICK docs \in SUBSET j.docs :
            records' = {r \in records : Key(r) \notin Keys(docs)}
                         \cup UNION {Revised(d) : d \in docs}
    BY <1>8 DEF Edited
  <2>2. \A d \in docs : Keys(Revised(d)) \subseteq Keys(records) BY <1>1, RevisedType, JobFields
  <2> QED BY <2>1, <2>2 DEF Keys
<1>9. ASSUME NEW j \in jobs, Expired(j) \/ ExpireFailed(j)
      PROVE  Keys(records') \subseteq Keys(records)
  <2>1. records' = records \/ records' = AfterPenalty(j) BY <1>9 DEF Expired, ExpireFailed
  <2> QED BY <1>1, <2>1, AfterPenaltyType
<1>10. CASE CallNext
  BY <1>10, <1>6, <1>7, <1>8, <1>9, UploadedOnce, NoNewKeys DEF CallNext
<1>11. CASE UNCHANGED vars BY <1>11, NoNewKeys DEF vars
<1> QED BY <1>2, <1>3, <1>4, <1>5, <1>10, <1>11 DEF Next

(* Whatever fails and whoever acts, a record enters the collection by its  *)
(* own upload and only once, so a removed record never returns.            *)
THEOREM RemovedAlwaysStaysRemoved == Spec => RemovedStaysRemoved
<1>1. IInv /\ [Next]_vars
          => [Keys(records') \ Keys(records) \subseteq Keys(Uploads) \ Keys(Uploads')]_vars
  BY EveryStepWritesOnce
<1> QED BY <1>1, Initially, Inductive, PTL DEF Spec, RemovedStaysRemoved

-----------------------------------------------------------------------------
AnyCall(j) ==
    \/ Uploaded(j) \/ Found(j) \/ FoundToExpire(j) \/ Removed(j) \/ Edited(j)
    \/ Expired(j) \/ Served(j) \/ Refreshed(j) \/ Failed(j) \/ ExpireFailed(j)

(* What each call may add to the calls in progress: a query, itself with   *)
(* the records it found, or the upload of a new record.                    *)
Asks(i)  == i.op # "upload" /\ i.docs = {} /\ i.step = "query" /\ i.n = calls + 1

Goes(i) ==
    \E j \in jobs :
        /\ j.op # "upload" /\ i.op = j.op /\ i.target = j.target /\ i.docs \subseteq records
        /\ j.op \in {"withdraw", "expire"} => i.docs \subseteq Sought(j)
        /\ j.op = "expire" => \A d, e \in i.docs : d = e

FreshUpload(i, r) ==
    /\ r \in Record /\ r.n = calls + 1
    /\ i.op = "upload" /\ i.docs = {r}

(* The record of a completion, and of a penalty.                           *)
IsAward(r)   == r.score = Score /\ r.isOnTime = ~ late
IsPenalty(r) == r.score = -1 /\ r.isOnTime = FALSE

LEMMA QueryAsks ==
    ASSUME NEW p, NEW u, NEW op, op # "upload", NEW i, i = Query(p, op, u)
    PROVE  Asks(i) /\ i.op = op /\ i.phone = p /\ i.target = u
BY DEF Query, Asks

LEMMA PenaltiesAsk ==
    ASSUME NEW p, NEW seen, NEW i \in Penalties(p, seen)
    PROVE  Asks(i) /\ i.op = "expire" /\ i = Query(p, "expire", i.target)
<1>1. PICK u : i = Query(p, "expire", u) BY DEF Penalties
<1> QED BY <1>1, QueryAsks

LEMMA PenaltyUpload ==
    ASSUME IInv, NEW j \in jobs, PenaltyAdded(j)
    PROVE  \E i, r : /\ jobs' = (jobs \ {j}) \cup {i} /\ calls' = calls + 1
                     /\ FreshUpload(i, r) /\ IsPenalty(r) /\ r.target = j.target
                     /\ deductions' = deductions \cup {Key(r)}
<1>1. NewRecord(j.target, -1, FALSE) \in Record BY JobFields, NewRecordType
<1>2. PICK r \in Record : r = NewRecord(j.target, -1, FALSE) BY <1>1
<1>3. r.n = calls + 1 /\ IsPenalty(r) /\ r.target = j.target
  BY <1>2 DEF NewRecord, IsPenalty
<1>4. PICK i : i = Upload(j.phone, r) OBVIOUS
<1>5. FreshUpload(i, r) BY <1>3, <1>4 DEF Upload, FreshUpload
<1>6. /\ jobs' = (jobs \ {j}) \cup {i} /\ calls' = calls + 1
      /\ deductions' = deductions \cup {Key(r)}
  BY <1>2, <1>4 DEF PenaltyAdded
<1> QED BY <1>3, <1>5, <1>6

LEMMA TapUpload ==
    ASSUME IInv, NEW p \in Phone, Tap(p), NEW i \in jobs', i \notin jobs
    PROVE  \/ Asks(i) /\ i.op = "withdraw" /\ done[p] /\ i.target \in Targets(p)
           \/ \E r : /\ FreshUpload(i, r) /\ IsAward(r) /\ r.target \in Targets(p)
                     /\ ~ done[p] /\ (late => Key(r) \in lateAwards')
<1>1. CASE done[p]
  <2>1. PICK u \in Targets(p) : i = Query(p, "withdraw", u) BY <1>1 DEF Tap, WithdrawTaskScore
  <2> QED BY <1>1, <2>1, QueryAsks
<1>2. CASE ~ done[p]
  <2>1. PICK u \in Targets(p) : i = Upload(p, NewRecord(u, Score, ~ late))
    BY <1>2 DEF Tap, CalculateTaskScore
  <2>2. Score \in {-1, 0, 1} /\ (~ late) \in BOOLEAN BY DEF Score
  <2>3. PICK r \in Record : r = NewRecord(u, Score, ~ late)
    BY <2>2, TargetsAreUsers, NewRecordType DEF IInv
  <2>4. r.n = calls + 1 /\ IsAward(r) /\ r.target = u BY <2>3 DEF NewRecord, IsAward
  <2>5. i.op = "upload" /\ i.docs = {r} BY <2>1, <2>3 DEF Upload
  <2>6. late => Key(r) \in lateAwards'
    BY <1>2, <2>1, <2>3 DEF Tap, CalculateTaskScore
  <2> QED BY <1>2, <2>4, <2>5, <2>6 DEF FreshUpload
<1> QED BY <1>1, <1>2

LEMMA CallsAre ==
    ASSUME CallNext
    PROVE  \E j \in jobs : AnyCall(j)
BY DEF CallNext, AnyCall

LEMMA CallGrows ==
    ASSUME IInv, NEW j \in jobs, AnyCall(j), NEW i \in jobs', i \notin jobs
    PROVE  /\ lateAwards' = lateAwards
           /\ \/ Asks(i) /\ i.op = "expire" /\ calls' = calls + 1 /\ deductions' = deductions
              \/ Goes(i) /\ calls' = calls /\ deductions' = deductions
              \/ \E r : /\ FreshUpload(i, r) /\ IsPenalty(r) /\ calls' = calls + 1
                        /\ j.op = "expire" /\ r.target = j.target
                        /\ deductions' = deductions \cup {Key(r)}
<1>0. j \in Job BY JobFields
<1>1. ASSUME j.op = "expire", PenaltyAdded(j)
      PROVE  \E r : /\ FreshUpload(i, r) /\ IsPenalty(r) /\ calls' = calls + 1
                    /\ j.op = "expire" /\ r.target = j.target
                    /\ deductions' = deductions \cup {Key(r)}
  BY <1>1, PenaltyUpload
<1>2. ASSUME NEW docs \in SUBSET records, NEW step, i = [j EXCEPT !.step = step, !.docs = docs],
             j.op # "upload",
             j.op \in {"withdraw", "expire"} => docs \subseteq Sought(j),
             j.op = "expire" => \A d, e \in docs : d = e
      PROVE  Goes(i)
  <2>1. i.op = j.op /\ i.target = j.target /\ i.docs = docs BY <1>0, <1>2 DEF Job
  <2> QED BY <1>2, <2>1 DEF Goes
<1>3. CASE Found(j)
  <2>1. /\ Sought(j) \subseteq records /\ j.op # "upload" /\ j.op # "expire"
        /\ calls' = calls /\ lateAwards' = lateAwards /\ deductions' = deductions
    BY <1>3 DEF Sought, Found, Removal, history
  <2>2. i = [j EXCEPT !.step = "write", !.docs = Sought(j)] BY <1>3 DEF Found
  <2> QED BY <1>2, <2>1, <2>2
<1>4. CASE FoundToExpire(j)
  <2>1. /\ Sought(j) \subseteq records /\ j.op = "expire" /\ j.op # "upload"
        /\ lateAwards' = lateAwards
    BY <1>4 DEF Sought, FoundToExpire
  <2>2. ASSUME NEW r \in Sought(j), i = [j EXCEPT !.step = "write", !.docs = {r}] PROVE Goes(i)
    <3>1. {r} \in SUBSET records BY <2>1
    <3> QED BY <1>2, <2>1, <2>2, <3>1
  <2> QED BY <1>1, <1>4, <2>1, <2>2 DEF FoundToExpire
<1>5. CASE Served(j)
  <2>1. /\ j.op # "upload" /\ j.op \notin {"withdraw", "expire"}
        /\ calls' = calls /\ lateAwards' = lateAwards /\ deductions' = deductions
        /\ i = [j EXCEPT !.step = "answer", !.docs = records]
    BY <1>5 DEF Served, history
  <2> QED BY <1>2, <2>1
<1>6. CASE Refreshed(j)
  <2>1. PICK answer : RefreshAnswered(j, answer) BY <1>6 DEF Refreshed
  <2>2. /\ i \in Penalties(j.phone, answer) /\ calls' = calls + 1
        /\ lateAwards' = lateAwards /\ deductions' = deductions
    BY <2>1 DEF RefreshAnswered, history
  <2> QED BY <2>2, PenaltiesAsk
<1>7. CASE Expired(j) \/ ExpireFailed(j)
  <2>1. j.op = "expire" /\ lateAwards' = lateAwards /\ PenaltyAdded(j)
    BY <1>7 DEF Expired, ExpireFailed
  <2> QED BY <1>1, <2>1
<1> QED BY <1>3, <1>4, <1>5, <1>6, <1>7 DEF AnyCall, Uploaded, Removed, Edited, Failed

(* Any step: a new call is a query, a call that goes on, or the upload of  *)
(* a new record, whose key may become history.                             *)
LEMMA JobsGrow ==
    ASSUME IInv, [Next]_vars, NEW i \in jobs', i \notin jobs
    PROVE  \/ Asks(i) /\ calls' = calls + 1 /\ (i.op \in Removal => deleted')
           \/ Goes(i) /\ calls' = calls
           \/ \E r : /\ FreshUpload(i, r) /\ calls' = calls + 1
                     /\ \/ IsPenalty(r) /\ lateAwards' = lateAwards
                        \/ IsAward(r) /\ deductions' = deductions
                           /\ (late => Key(r) \in lateAwards')
<1>1. CASE UserNext
  <2>1. PICK p \in Phone : Tap(p) \/ Edit(p) \/ Delete(p) BY <1>1 DEF UserNext
  <2>2. calls' = calls + 1 BY <2>1 DEF Tap, Edit, Delete, UserActs
  <2>3. CASE Tap(p) BY <2>2, <2>3, TapUpload DEF Removal, Tap
  <2>4. CASE Edit(p)
    <3>1. i = Query(p, "edit", p) BY <2>4 DEF Edit
    <3> QED BY <2>2, <3>1, QueryAsks DEF Removal
  <2>5. CASE Delete(p)
    <3>1. deleted' /\ \E op \in {"remove", "removeAgain"} : i = Query(p, op, p)
      BY <2>5 DEF Delete
    <3> QED BY <2>2, <3>1, QueryAsks
  <2> QED BY <2>1, <2>3, <2>4, <2>5
<1>2. CASE SyncNext
  <2>1. PICK p \in Phone : DeletionSynced(p) BY <1>2 DEF SyncNext, FlagSynced
  <2>2. i = Query(p, "remove", p) /\ calls' = calls + 1 /\ deleted'
    BY <2>1 DEF DeletionSynced
  <2> QED BY <2>2, QueryAsks
<1>3. CASE CheckNext
  <2>1. PICK p \in Phone : \/ i \in Penalties(p, cache[p])
                           \/ i = Query(p, "refresh", p) \/ i = Query(p, "check", p)
    BY <1>3 DEF CheckNext, CheckFromCache, CheckFromServer, Browse
  <2>2. calls' = calls + 1 BY <1>3 DEF CheckNext, CheckFromCache, CheckFromServer, Browse, Checks
  <2> QED BY <2>1, <2>2, PenaltiesAsk, QueryAsks DEF Removal
<1>4. CASE CallNext
  <2>1. PICK j \in jobs : AnyCall(j) BY <1>4, CallsAre
  <2> QED BY <2>1, CallGrows DEF Removal
<1>5. CASE DeadlinePasses \/ (\E p \in Phone : Restart(p)) \/ UNCHANGED vars
  BY <1>5 DEF DeadlinePasses, Restart, vars
<1> QED BY <1>1, <1>2, <1>3, <1>4, <1>5 DEF Next

(* Where a record of the collection comes from.                            *)
LEMMA Origin ==
    ASSUME IInv, [Next]_vars, NEW s \in records'
    PROVE  \/ s \in records
           \/ \E j \in jobs : Uploaded(j) /\ s \in j.docs
           \/ \E j \in jobs, x \in records : /\ j.op = "expire" /\ records' = AfterPenalty(j)
                                             /\ Key(x) \in Keys(j.docs) /\ s = Penalised(x)
           \/ \E j \in jobs, x \in records : \E d \in j.docs :
                  Edited(j) /\ Key(x) = Key(d) /\ s = [x EXCEPT !.score = Rewritten(d).score]
<1>1. CASE UserNext \/ SyncNext
  BY <1>1 DEF UserNext, Tap, Edit, Delete, SyncNext, FlagSynced, DeletionSynced
<1>2. CASE CheckNext
  BY <1>2 DEF CheckNext, CheckFromCache, CheckFromServer, Browse, Checks
<1>3. CASE CallNext
  <2>1. PICK j \in jobs : AnyCall(j) BY <1>3, CallsAre
  <2>2. CASE Edited(j)
    <3>1. PICK docs \in SUBSET j.docs :
              records' = {r \in records : Key(r) \notin Keys(docs)}
                           \cup UNION {Revised(d) : d \in docs}
      BY <2>2 DEF Edited
    <3>2. CASE s \notin records
      <4>1. PICK d \in docs : s \in Revised(d) BY <3>1, <3>2
      <4> QED BY <2>2, <4>1 DEF Revised
    <3> QED BY <3>2
  <2>3. ASSUME j.op = "expire", records' = AfterPenalty(j), s \notin records
        PROVE  \E x \in records : Key(x) \in Keys(j.docs) /\ s = Penalised(x)
    BY <2>3 DEF AfterPenalty
  <2>4. CASE Expired(j) BY <2>3, <2>4 DEF Expired
  <2>5. CASE ExpireFailed(j) BY <2>3, <2>5 DEF ExpireFailed
  <2>6. CASE Uploaded(j) BY <2>6 DEF Uploaded
  <2> QED BY <2>1, <2>2, <2>4, <2>5, <2>6
         DEF AnyCall, Found, FoundToExpire, Removed, Served, Refreshed, RefreshAnswered, Failed
<1>4. CASE DeadlinePasses \/ (\E p \in Phone : Restart(p)) \/ UNCHANGED vars
  BY <1>4 DEF DeadlinePasses, Restart, vars
<1> QED BY <1>1, <1>2, <1>3, <1>4 DEF Next

(* The history notes keys of the operation that runs.                      *)
New(k) == k[1] = calls + 1 /\ calls' = calls + 1

LEMMA HistoryGrows ==
    ASSUME IInv, [Next]_vars
    PROVE  /\ calls' \in Nat /\ calls <= calls' /\ (deleted => deleted')
           /\ lateAwards \subseteq lateAwards'
           /\ \A k \in lateAwards' : k \in lateAwards \/ New(k)
           /\ \A k \in deductions' : k \in deductions \/ New(k)
<1>0. calls \in Nat /\ calls' \in Nat BY Inductive DEF IInv, TypeOK
<1> SUFFICES /\ calls' \in {calls, calls + 1} /\ (deleted => deleted')
             /\ lateAwards \subseteq lateAwards'
             /\ \A k \in lateAwards' : k \in lateAwards \/ New(k)
             /\ \A k \in deductions' : k \in deductions \/ New(k)
  BY <1>0
<1>1. ASSUME NEW p \in Phone, Tap(p)
      PROVE  /\ lateAwards \subseteq lateAwards'
             /\ \A k \in lateAwards' : k \in lateAwards \/ New(k)
  <2>1. \A u \in Targets(p) : Key(NewRecord(u, Score, ~ late))[1] = calls + 1
    BY DEF NewRecord, Key
  <2>2. calls' = calls + 1 BY <1>1 DEF Tap, UserActs
  <2>3. CASE done[p] \/ AwardedBefore(p)
    BY <1>1, <2>3 DEF Tap, CalculateTaskScore, WithdrawTaskScore
  <2>4. CASE ~ done[p] /\ ~ AwardedBefore(p)
    <3>1. /\ lateAwards \subseteq lateAwards'
          /\ \A k \in lateAwards' : \/ k \in lateAwards
                                    \/ \E u \in Targets(p) : k = Key(NewRecord(u, Score, ~ late))
      BY <1>1, <2>4 DEF Tap, CalculateTaskScore
    <3> QED BY <2>1, <2>2, <3>1 DEF New
  <2> QED BY <2>3, <2>4
<1>2. CASE UserNext
  <2>1. PICK p \in Phone : Tap(p) \/ Edit(p) \/ Delete(p) BY <1>2 DEF UserNext
  <2>2. CASE Tap(p)
    <3>1. calls' = calls + 1 /\ deductions' = deductions /\ deleted' = deleted
      BY <2>2 DEF Tap, UserActs
    <3> QED BY <1>1, <2>2, <3>1
  <2>3. CASE Edit(p) \/ Delete(p)
    <3>1. calls' = calls + 1 /\ lateAwards' = lateAwards /\ deductions' = deductions
      BY <2>3 DEF Edit, Delete, UserActs, history
    <3>2. deleted => deleted'
      <4>1. CASE Edit(p) BY <4>1 DEF Edit
      <4>2. CASE Delete(p) BY <4>2 DEF Delete
      <4> QED BY <2>3, <4>1, <4>2
    <3> QED BY <3>1, <3>2
  <2> QED BY <2>1, <2>2, <2>3
<1>3. CASE SyncNext BY <1>3 DEF SyncNext, FlagSynced, DeletionSynced, history
<1>4. CASE CheckNext
  BY <1>4 DEF CheckNext, CheckFromCache, CheckFromServer, Browse, Checks, taskVars, history
<1>5. CASE CallNext
  <2>1. PICK j \in jobs : AnyCall(j) BY <1>5, CallsAre
  <2>2. lateAwards' = lateAwards /\ deleted' = deleted
    BY <2>1 DEF AnyCall, Uploaded, Found, FoundToExpire, Removed, Edited, Expired, Served,
                Refreshed, RefreshAnswered, Failed, ExpireFailed, taskVars, history
  <2>3. CASE PenaltyAdded(j)
    <3>1. Key(NewRecord(j.target, -1, FALSE))[1] = calls + 1 BY DEF NewRecord, Key
    <3>2. calls' = calls + 1 /\ deductions' = deductions \cup {Key(NewRecord(j.target, -1, FALSE))}
      BY <2>3 DEF PenaltyAdded
    <3>3. \A k \in deductions' : k \in deductions \/ New(k) BY <3>1, <3>2 DEF New
    <3> QED BY <2>2, <3>2, <3>3
  <2>4. CASE ~ PenaltyAdded(j)
    <3>1. deductions' = deductions /\ calls' \in {calls, calls + 1}
      BY <2>1, <2>4 DEF AnyCall, Uploaded, Found, FoundToExpire, Removed, Edited, Expired, Served,
                        Refreshed, RefreshAnswered, Failed, ExpireFailed, history
    <3> QED BY <2>2, <3>1
  <2> QED BY <2>3, <2>4
<1>6. CASE DeadlinePasses \/ (\E p \in Phone : Restart(p)) \/ UNCHANGED vars
  BY <1>6 DEF DeadlinePasses, Restart, vars, taskVars, history
<1> QED BY <1>2, <1>3, <1>4, <1>5, <1>6 DEF Next

-----------------------------------------------------------------------------
(* What the records of the collection and of the calls tell of the history.*)
(* A penalty that was added keeps its score; nothing found by a withdrawal *)
(* is one.  A late completion has no points, and nothing found for a       *)
(* penalty is one.  Of both an edit knows that they were not on time.      *)
RecordFits(r) ==
    /\ r.n <= calls
    /\ Key(r) \in deductions => r.score = -1 /\ ~ r.isOnTime
    /\ Key(r) \in lateAwards => r.score \in {0, -1} /\ ~ r.isOnTime

JobFits(j) ==
    /\ \A d \in j.docs : d.n <= calls
    /\ j.op = "upload" => \A d \in j.docs : RecordFits(d) /\ (Key(d) \in lateAwards => d.score = 0)
    /\ j.op = "withdraw" => \A d \in j.docs : Key(d) \notin deductions
    /\ j.op = "expire" => \A d \in j.docs : Key(d) \notin lateAwards
    /\ j.op = "edit" => \A d \in j.docs : Key(d) \in deductions \cup lateAwards => ~ d.isOnTime
    /\ j.op \in Removal => deleted

HistoryInv ==
    /\ \A k \in deductions \cup lateAwards : k[1] <= calls
    /\ \A r \in records : RecordFits(r)
    /\ \A j \in jobs : JobFits(j)

(* What fits stays fitting, for the history notes new keys only.           *)
LEMMA KeysStay ==
    ASSUME IInv, [Next]_vars, NEW r \in Record, r.n <= calls
    PROVE  /\ r.n <= calls'
           /\ Key(r) \in deductions' => Key(r) \in deductions
           /\ Key(r) \in lateAwards' => Key(r) \in lateAwards
<1>1. calls \in Nat /\ calls' \in Nat /\ calls <= calls' /\ r.n \in Nat
  BY HistoryGrows DEF IInv, TypeOK, Record
<1>2. ~ New(Key(r)) BY <1>1 DEF New, Key
<1> QED BY <1>1, <1>2, HistoryGrows

LEMMA FitsStay ==
    ASSUME IInv, [Next]_vars, NEW r \in Record, RecordFits(r)
    PROVE  RecordFits(r)'
BY KeysStay DEF RecordFits, Key

LEMMA JobFitsStay ==
    ASSUME IInv, HistoryInv, [Next]_vars, NEW j \in jobs
    PROVE  JobFits(j)'
<1>1. JobFits(j) /\ j.docs \subseteq Record BY JobFields DEF HistoryInv
<1>2. \A d \in j.docs : /\ d.n <= calls'
                        /\ Key(d) \in deductions' => Key(d) \in deductions
                        /\ Key(d) \in lateAwards' => Key(d) \in lateAwards
  BY <1>1, KeysStay DEF JobFits
<1>3. j.op = "upload" => \A d \in j.docs : RecordFits(d)' BY <1>1, FitsStay DEF JobFits
<1>4. j.op \in Removal => deleted' BY <1>1, HistoryGrows DEF JobFits
<1> QED BY <1>1, <1>2, <1>3, <1>4 DEF JobFits, Key, Removal

(* A new call fits as well.                                                *)
LEMMA NewJobFits ==
    ASSUME IInv, HistoryInv, [Next]_vars, NEW i \in jobs', i \notin jobs
    PROVE  JobFits(i)'
<1>0. calls \in Nat /\ calls' \in Nat /\ calls <= calls' /\ records \subseteq Record
  BY HistoryGrows DEF IInv, TypeOK
<1>1. CASE Asks(i) /\ (i.op \in Removal => deleted')
  BY <1>1 DEF Asks, JobFits, Removal
<1>2. CASE Goes(i) /\ calls' = calls
  <2>1. PICK j \in jobs : /\ j.op # "upload" /\ i.op = j.op /\ i.docs \subseteq records
                          /\ j.op \in {"withdraw", "expire"} => i.docs \subseteq Sought(j)
    BY <1>2 DEF Goes
  <2>2. ASSUME NEW d \in i.docs
        PROVE  /\ d \in records /\ RecordFits(d) /\ d.n <= calls'
               /\ Key(d) \in deductions' => Key(d) \in deductions
               /\ Key(d) \in lateAwards' => Key(d) \in lateAwards
    BY <1>0, <2>1, KeysStay DEF HistoryInv, RecordFits
  <2>3. i.op = "withdraw" => \A d \in i.docs : d.score >= 0 BY <2>1 DEF Sought
  <2>4. i.op = "expire" => \A d \in i.docs : d.score > 0 BY <2>1 DEF Sought
  <2>5. \A d \in i.docs : i.op = "withdraw" => Key(d) \notin deductions'
    BY <2>2, <2>3 DEF RecordFits
  <2>6. \A d \in i.docs : i.op = "expire" => Key(d) \notin lateAwards'
    BY <2>2, <2>4 DEF RecordFits
  <2>7. \A d \in i.docs : Key(d) \in deductions' \cup lateAwards' => ~ d.isOnTime
    BY <2>2 DEF RecordFits
  <2>8. i.op \in Removal => deleted' BY <2>1, HistoryGrows DEF HistoryInv, JobFits
  <2> QED BY <2>1, <2>2, <2>5, <2>6, <2>7, <2>8 DEF JobFits, Key, Removal
<1>3. ASSUME NEW r, FreshUpload(i, r), calls' = calls + 1,
             \/ IsPenalty(r) /\ lateAwards' = lateAwards
             \/ IsAward(r) /\ deductions' = deductions
      PROVE  JobFits(i)'
  <2>1. i.op = "upload" /\ i.docs = {r} /\ r \in Record /\ r.n = calls + 1
    BY <1>3 DEF FreshUpload
  <2>2. Key(r) \notin deductions /\ Key(r) \notin lateAwards
    <3>1. Key(r)[1] = calls + 1 BY <2>1 DEF Key
    <3> QED BY <1>0, <3>1 DEF HistoryInv
  <2>3. Key(r) \in deductions' => r.score = -1 /\ ~ r.isOnTime
    BY <1>3, <2>2 DEF IsPenalty
  <2>4. Key(r) \in lateAwards' => r.score = 0 /\ ~ r.isOnTime
    <3>1. SUFFICES ASSUME Key(r) \in lateAwards', IsAward(r), ~ late PROVE FALSE
      BY <1>3, <2>1, <2>2 DEF IsAward, Score, Record
    <3>2. lateAwards' = lateAwards
      <4>1. i \in jobs' /\ i \notin jobs OBVIOUS
      <4>2. ASSUME NEW p \in Phone, Tap(p) PROVE lateAwards' = lateAwards
        BY <3>1, <4>2 DEF Tap, CalculateTaskScore, WithdrawTaskScore
      <4>3. CASE CallNext
        <5>1. PICK j \in jobs : AnyCall(j) BY <4>3, CallsAre
        <5> QED BY <5>1, CallGrows
      <4>4. CASE CheckNext
        BY <4>4 DEF CheckNext, CheckFromCache, CheckFromServer, Browse, Checks, history
      <4> QED BY <4>2, <4>3, <4>4
             DEF Next, UserNext, Edit, Delete, SyncNext, FlagSynced, DeletionSynced,
                 DeadlinePasses, Restart, vars, history
    <3> QED BY <2>2, <3>1, <3>2
  <2>5. r.n <= calls' BY <1>0, <1>3, <2>1
  <2>6. RecordFits(r)' BY <2>3, <2>4, <2>5 DEF RecordFits, Key
  <2> QED BY <2>1, <2>4, <2>5, <2>6 DEF JobFits, Key, Removal
<1> QED BY <1>1, <1>2, <1>3, JobsGrow

LEMMA HistoryStep ==
    ASSUME IInv, HistoryInv, [Next]_vars
    PROVE  HistoryInv'
<1>0. calls \in Nat /\ calls' \in Nat /\ calls <= calls' /\ records \subseteq Record
  BY HistoryGrows DEF IInv, TypeOK
<1>1. \A k \in deductions' \cup lateAwards' : k[1] <= calls'
  <2>1. \A k \in deductions \cup lateAwards : k[1] \in Nat /\ k[1] <= calls
    BY DEF HistoryInv, IInv, TypeOK
  <2>2. \A k : New(k) => k[1] <= calls' BY <1>0 DEF New
  <2> QED BY <1>0, <2>1, <2>2, HistoryGrows
<1>2. \A j \in jobs' : JobFits(j)' BY JobFitsStay, NewJobFits
<1>3. ASSUME NEW s \in records' PROVE RecordFits(s)'
  <2>1. CASE s \in records BY <1>0, <2>1, FitsStay DEF HistoryInv
  <2>2. ASSUME NEW j \in jobs, Uploaded(j), s \in j.docs PROVE RecordFits(s)'
    <3>1. s \in Record /\ RecordFits(s)
      BY <2>2, JobFields DEF Uploaded, HistoryInv, JobFits
    <3> QED BY <3>1, FitsStay
  <2>3. ASSUME NEW j \in jobs, NEW x \in records, j.op = "expire", s = Penalised(x),
               Key(x) \in Keys(j.docs)
        PROVE  RecordFits(s)'
    <3>1. x \in Record /\ RecordFits(x) BY <1>0 DEF HistoryInv
    <3>2. s \in Record /\ Key(s) = Key(x) /\ s.n = x.n BY <2>3, <3>1, PenalisedType DEF Penalised, Record
    <3>3. s.score = -1 /\ ~ s.isOnTime BY <2>3, <3>1 DEF Penalised, Record
    <3>4. RecordFits(s) BY <3>1, <3>2, <3>3 DEF RecordFits
    <3> QED BY <3>2, <3>4, FitsStay
  <2>4. ASSUME NEW j \in jobs, NEW x \in records, NEW d \in j.docs, Edited(j), Key(x) = Key(d),
               s = [x EXCEPT !.score = Rewritten(d).score]
        PROVE  RecordFits(s)'
    <3>1. x \in Record /\ RecordFits(x) /\ d \in Record /\ JobFits(j) /\ j.op = "edit"
      BY <1>0, <2>4, JobFields DEF HistoryInv, Edited
    <3>2. /\ s \in Record /\ Key(s) = Key(x) /\ s.n = x.n /\ s.isOnTime = x.isOnTime
          /\ s.score = Rewritten(d).score
      BY <2>4, <3>1, RewrittenType DEF Record, Key
    <3>3. ~ d.isOnTime => Rewritten(d).score = -1 BY <3>1 DEF Rewritten, Record
    <3>4. Key(x) \in deductions \cup lateAwards => s.score = -1 BY <2>4, <3>1, <3>2, <3>3 DEF JobFits
    <3>5. RecordFits(s) BY <3>1, <3>2, <3>4 DEF RecordFits
    <3> QED BY <3>2, <3>5, FitsStay
  <2> QED BY <2>1, <2>2, <2>3, <2>4, Origin
<1> QED BY <1>1, <1>2, <1>3 DEF HistoryInv

LEMMA HistoryStarts == Init => HistoryInv
BY DEF Init, HistoryInv

(* A late completion earns nothing, and only an edit makes a penalty of    *)
(* it, however taps, checks, answers, failures and restarts interleave:    *)
(* nothing that a penalty is written over is a late completion.            *)
THEOREM LateCompletionAlwaysFree == Spec => LateCompletionIsFree
<1> DEFINE Free(r) == Key(r) \in lateAwards' =>
                          \/ r.score = 0
                          \/ r.score = -1 /\ (r \in records \/ \E j \in jobs \ jobs' : j.op = "edit")
<1>1. ASSUME IInv, HistoryInv, [Next]_vars, NEW s \in records' PROVE Free(s)
  <2>0. records \subseteq Record /\ HistoryInv' BY <1>1, HistoryStep DEF IInv, TypeOK
  <2>1. RecordFits(s)' BY <2>0 DEF HistoryInv
  <2>2. Key(s) \in lateAwards' => s.score \in {0, -1} BY <2>1 DEF RecordFits, Key
  <2>3. ASSUME NEW j \in jobs, Uploaded(j), s \in j.docs PROVE Free(s)
    <3>1. j.op = "upload" /\ JobFits(j) /\ j.docs \subseteq Record
      BY <1>1, <2>3, JobFields DEF Uploaded, HistoryInv
    <3>2. lateAwards' = lateAwards BY <2>3 DEF Uploaded, history
    <3> QED BY <2>3, <3>1, <3>2 DEF JobFits
  <2>4. ASSUME NEW j \in jobs, NEW x \in records, j.op = "expire", s = Penalised(x),
               Key(x) \in Keys(j.docs)
        PROVE  Free(s)
    <3>1. x \in Record /\ RecordFits(x) /\ JobFits(j) BY <1>1, <2>0 DEF HistoryInv
    <3>2. Key(s) = Key(x) BY <2>4, <3>1, PenalisedType
    <3>3. Key(x) \notin lateAwards BY <2>4, <3>1 DEF JobFits, Keys
    <3>4. Key(x) \notin lateAwards' BY <1>1, <3>1, <3>3, KeysStay DEF RecordFits
    <3> QED BY <3>2, <3>4
  <2>5. ASSUME NEW j \in jobs, Edited(j) PROVE \E i \in jobs \ jobs' : i.op = "edit"
    BY <2>5 DEF Edited
  <2> QED BY <1>1, <2>2, <2>3, <2>4, <2>5, Origin
<1>2. IInv /\ HistoryInv /\ [Next]_vars => [\A r \in records' : Free(r)]_vars BY <1>1
<1>3. IInv /\ HistoryInv /\ [Next]_vars => HistoryInv' BY HistoryStep
<1> QED BY <1>2, <1>3, HistoryStarts, Initially, Inductive, PTL DEF Spec, LateCompletionIsFree

(* A record added as a penalty stays what it is until the task is deleted. *)
(* Withdrawals found records that are no penalties, a removal means a      *)
(* deletion, and an edit or another check writes what is there already.    *)
THEOREM PenaltyAlwaysStays == Spec => PenaltyStays
<1>1. ASSUME IInv, HistoryInv, [Next]_vars, NEW r \in records, Key(r) \in deductions, ~ deleted
      PROVE  r \in records'
  <2>0. r \in Record /\ r.score = -1 /\ r.isOnTime = FALSE
    BY <1>1 DEF HistoryInv, RecordFits, IInv, TypeOK, Record
  <2>1. r = [r EXCEPT !.score = -1] /\ Penalised(r) = r BY <2>0 DEF Penalised, Record
  <2>2. ASSUME NEW j \in jobs, Removed(j) PROVE r \in records'
    <3>1. j.op = "withdraw" BY <1>1, <2>2 DEF Removed, HistoryInv, JobFits
    <3>2. Key(r) \notin Keys(j.docs) BY <1>1, <3>1 DEF HistoryInv, JobFits, Keys
    <3> QED BY <2>2, <3>2 DEF Removed, Keys
  <2>3. ASSUME NEW j \in jobs, Edited(j) PROVE r \in records'
    <3>1. PICK docs \in SUBSET j.docs :
              records' = {x \in records : Key(x) \notin Keys(docs)}
                           \cup UNION {Revised(d) : d \in docs}
      BY <2>3 DEF Edited
    <3>2. CASE Key(r) \in Keys(docs)
      <4>1. PICK d \in docs : Key(d) = Key(r) BY <3>2 DEF Keys
      <4>2. ~ d.isOnTime BY <1>1, <2>3, <4>1 DEF Edited, HistoryInv, JobFits
      <4>3. Rewritten(d).score = -1 BY <4>2, <1>1, JobFields DEF Rewritten, Record
      <4>4. r \in Revised(d) BY <1>1, <2>1, <4>1, <4>3 DEF Revised
      <4> QED BY <3>1, <4>4
    <3> QED BY <3>1, <3>2
  <2>4. ASSUME NEW j \in jobs, records' = AfterPenalty(j) PROVE r \in records'
    BY <1>1, <2>1, <2>4 DEF AfterPenalty
  <2>5. CASE CallNext
    <3>1. PICK j \in jobs : AnyCall(j) BY <2>5, CallsAre
    <3>2. records' = records \/ records' = AfterPenalty(j) \/ records' = records \cup j.docs
              \/ Removed(j) \/ Edited(j)
      BY <3>1 DEF AnyCall, Uploaded, Found, FoundToExpire, Expired, Served, Refreshed,
                  RefreshAnswered, Failed, ExpireFailed
    <3> QED BY <1>1, <2>2, <2>3, <2>4, <3>2
  <2> QED BY <1>1, <2>5
         DEF Next, UserNext, Tap, Edit, Delete, SyncNext, FlagSynced, DeletionSynced,
             CheckNext, CheckFromCache, CheckFromServer, Browse, Checks,
             DeadlinePasses, Restart, vars
<1>2. IInv /\ HistoryInv /\ [Next]_vars
          => [\A r \in records : Key(r) \in deductions /\ ~ deleted => r \in records']_vars
  BY <1>1
<1>3. IInv /\ HistoryInv /\ [Next]_vars => HistoryInv' BY HistoryStep
<1> QED BY <1>2, <1>3, HistoryStarts, Initially, Inductive, PTL DEF Spec, PenaltyStays

-----------------------------------------------------------------------------
(* The collection has one record per key; no upload brings a key that is   *)
(* there or that an edit has found, and an edit found each key once.       *)
UniqueInv ==
    /\ \A r, s \in records : Key(r) = Key(s) => r = s
    /\ \A j \in jobs : j.op = "upload" => \A d \in j.docs, r \in records : Key(d) # Key(r)
    /\ \A i, j \in jobs : j.op = "upload" /\ i.op = "edit"
                              => \A d \in j.docs, e \in i.docs : Key(d) # Key(e)
    /\ \A j \in jobs : j.op = "edit" => \A d, e \in j.docs : Key(d) = Key(e) => d = e

(* Keys of new records are new.                                            *)
LEMMA FreshKey ==
    ASSUME IInv, HistoryInv, NEW i, NEW r, FreshUpload(i, r)
    PROVE  /\ \A s \in records : Key(s) # Key(r)
           /\ \A j \in jobs : \A d \in j.docs : Key(d) # Key(r)
<1>1. calls \in Nat /\ r.n = calls + 1 BY DEF IInv, TypeOK, FreshUpload
<1>2. \A s \in records : s.n \in Nat /\ s.n <= calls
  BY DEF IInv, TypeOK, Record, HistoryInv, RecordFits
<1>3. ASSUME NEW j \in jobs, NEW d \in j.docs PROVE d.n \in Nat /\ d.n <= calls
  <2>1. d \in Record BY JobFields
  <2> QED BY <2>1 DEF Record, HistoryInv, JobFits
<1>4. \A n \in Nat : n <= calls => n # calls + 1 BY <1>1
<1> QED BY <1>1, <1>2, <1>3, <1>4 DEF Key

(* The keys of a record that was not there before.                         *)
LEMMA OldKeys ==
    ASSUME IInv, [Next]_vars, NEW s \in records'
    PROVE  \/ \E x \in records : Key(x) = Key(s)
           \/ \E j \in jobs : Uploaded(j) /\ s \in j.docs
<1>0. records \subseteq Record BY DEF IInv, TypeOK
<1>1. \A x \in records : Key(Penalised(x)) = Key(x) BY <1>0, PenalisedType
<1>2. ASSUME NEW x \in records, NEW v, s = [x EXCEPT !.score = v] PROVE Key(x) = Key(s)
  BY <1>0, <1>2 DEF Key, Record
<1>3. ASSUME NEW j \in jobs, NEW x \in records, NEW d \in j.docs,
             s = [x EXCEPT !.score = Rewritten(d).score]
      PROVE  \E y \in records : Key(y) = Key(s)
  BY <1>2, <1>3
<1>4. CASE s \in records BY <1>4
<1> QED BY <1>1, <1>3, <1>4, Origin

LEMMA UniqueRecords ==
    ASSUME IInv, UniqueInv, [Next]_vars, NEW r \in records', NEW s \in records', Key(r) = Key(s)
    PROVE  r = s
<1>0. records \subseteq Record BY DEF IInv, TypeOK
<1>1. ASSUME NEW j \in jobs, Uploaded(j) PROVE r = s
  <2>1. j.op = "upload" /\ records' = records \cup j.docs BY <1>1 DEF Uploaded
  <2>2. PICK d : j.docs = {d} BY <2>1 DEF IInv, UploadsDistinct, Carries
  <2> QED BY <2>1, <2>2 DEF UniqueInv
<1>2. ASSUME NEW j \in jobs, records' = AfterPenalty(j) PROVE r = s
  <2>1. PICK x \in records : r = IF Key(x) \in Keys(j.docs) THEN Penalised(x) ELSE x
    BY <1>2 DEF AfterPenalty
  <2>2. PICK y \in records : s = IF Key(y) \in Keys(j.docs) THEN Penalised(y) ELSE y
    BY <1>2 DEF AfterPenalty
  <2>3. Key(x) = Key(y) BY <1>0, <2>1, <2>2, PenalisedType
  <2>4. x = y BY <2>3 DEF UniqueInv
  <2> QED BY <2>1, <2>2, <2>4
<1>3. ASSUME NEW j \in jobs, Edited(j) PROVE r = s
  <2>1. PICK docs \in SUBSET j.docs :
            records' = {x \in records : Key(x) \notin Keys(docs)}
                         \cup UNION {Revised(d) : d \in docs}
    BY <1>3 DEF Edited
  <2>2. ASSUME NEW t \in records'
        PROVE  \/ t \in records /\ Key(t) \notin Keys(docs)
               \/ \E d \in docs, x \in records : /\ Key(x) = Key(d) /\ Key(x) = Key(t)
                                                 /\ t = [x EXCEPT !.score = Rewritten(d).score]
    <3>1. \A x \in records : \A v : Key([x EXCEPT !.score = v]) = Key(x) BY <1>0 DEF Key, Record
    <3> QED BY <2>1, <2>2, <3>1 DEF Revised
  <2>3. ASSUME NEW t \in records', NEW d \in docs, Key(t) = Key(d) PROVE Key(t) \in Keys(docs)
    BY <2>3 DEF Keys
  <2>4. CASE Key(r) \notin Keys(docs)
    <3>1. r \in records /\ s \in records BY <2>2, <2>3, <2>4
    <3> QED BY <3>1 DEF UniqueInv
  <2>5. CASE Key(r) \in Keys(docs)
    <3>1. PICK d \in docs, x \in records : /\ Key(x) = Key(d) /\ Key(x) = Key(r)
                                           /\ r = [x EXCEPT !.score = Rewritten(d).score]
      BY <2>2, <2>5
    <3>2. PICK e \in docs, y \in records : /\ Key(y) = Key(e) /\ Key(y) = Key(s)
                                           /\ s = [y EXCEPT !.score = Rewritten(e).score]
      BY <2>2, <2>5
    <3>3. x = y /\ d = e BY <1>3, <3>1, <3>2 DEF UniqueInv, Edited
    <3> QED BY <3>1, <3>2, <3>3
  <2> QED BY <2>4, <2>5
<1>4. CASE records' \subseteq records BY <1>4 DEF UniqueInv
<1>5. CASE CallNext
  <2>1. PICK j \in jobs : AnyCall(j) BY <1>5, CallsAre
  <2>2. records' \subseteq records \/ records' = AfterPenalty(j) \/ Uploaded(j) \/ Edited(j)
    BY <2>1 DEF AnyCall, Found, FoundToExpire, Removed, Expired, Served, Refreshed,
                RefreshAnswered, Failed, ExpireFailed
  <2> QED BY <1>1, <1>2, <1>3, <1>4, <2>2
<1>6. CASE records' = records BY <1>4, <1>6
<1> QED BY <1>5, <1>6
       DEF Next, UserNext, Tap, Edit, Delete, SyncNext, FlagSynced, DeletionSynced,
           CheckNext, CheckFromCache, CheckFromServer, Browse, Checks,
           DeadlinePasses, Restart, vars

LEMMA UniqueStep ==
    ASSUME IInv, HistoryInv, UniqueInv, [Next]_vars
    PROVE  UniqueInv'
<1>0. records \subseteq Record /\ TypeOK BY DEF IInv, TypeOK
<1>1. \A r, s \in records' : Key(r) = Key(s) => r = s BY UniqueRecords
<1>2. ASSUME NEW i \in jobs', i.op = "upload"
      PROVE  /\ \A d \in i.docs, r \in records : Key(d) # Key(r)
             /\ \A j \in jobs : j.op = "edit" => \A d \in i.docs, e \in j.docs : Key(d) # Key(e)
             /\ i \notin jobs => \A j \in jobs : \A d \in i.docs, e \in j.docs : Key(d) # Key(e)
  <2>1. CASE i \in jobs BY <1>2, <2>1 DEF UniqueInv
  <2>2. CASE i \notin jobs
    <3>1. PICK r : FreshUpload(i, r) BY <1>2, <2>2, JobsGrow DEF Asks, Goes
    <3>2. i.docs = {r} BY <3>1 DEF FreshUpload
    <3> QED BY <3>1, <3>2, FreshKey
  <2> QED BY <2>1, <2>2
(* A record that has just been uploaded has a key of its own.              *)
<1>3. ASSUME NEW j \in jobs, Uploaded(j), NEW i \in jobs', i.op = "upload",
             NEW d \in i.docs, NEW e \in j.docs
      PROVE  Key(d) # Key(e)
  <2>1. j.op = "upload" /\ jobs' = jobs \ {j} BY <1>3 DEF Uploaded
  <2>2. i \in jobs /\ i # j BY <1>3, <2>1
  <2>3. d.n = i.n /\ d.target = i.target /\ e.n = j.n /\ e.target = j.target
    BY <1>3, <2>1, <2>2 DEF IInv, UploadsDistinct, Carries
  <2>4. i.n # j.n \/ i.target # j.target BY <1>3, <2>1, <2>2 DEF IInv, UploadsDistinct
  <2> QED BY <2>3, <2>4 DEF Key
<1>4. ASSUME NEW i \in jobs', i.op = "upload", NEW d \in i.docs, NEW s \in records'
      PROVE  Key(d) # Key(s)
  <2>1. ASSUME NEW x \in records, Key(x) = Key(s) PROVE Key(d) # Key(s) BY <1>2, <1>4, <2>1
  <2> QED BY <1>3, <1>4, <2>1, OldKeys
(* What an edit finds is in the collection.                                *)
<1>5. ASSUME NEW i \in jobs', i.op = "edit"
      PROVE  \/ i \in jobs
             \/ i.docs \subseteq records
  <2>1. SUFFICES ASSUME i \notin jobs PROVE i.docs \subseteq records
    OBVIOUS
  <2>2. Asks(i) \/ Goes(i) BY <1>5, <2>1, JobsGrow DEF FreshUpload
  <2> QED BY <2>2 DEF Asks, Goes
<1>6. ASSUME NEW i \in jobs', NEW j \in jobs', j.op = "upload", i.op = "edit",
             NEW d \in j.docs, NEW e \in i.docs
      PROVE  Key(d) # Key(e)
  <2>1. CASE i \in jobs BY <1>2, <1>6, <2>1
  <2>2. CASE i.docs \subseteq records BY <1>2, <1>6, <2>2
  <2> QED BY <1>5, <1>6, <2>1, <2>2
<1>7. \A j \in jobs' : j.op = "edit" => \A d, e \in j.docs : Key(d) = Key(e) => d = e
  BY <1>5 DEF UniqueInv
<1> QED BY <1>1, <1>4, <1>6, <1>7 DEF UniqueInv, Key

LEMMA UniqueStarts == Init => UniqueInv
BY DEF Init, UniqueInv

LEMMA LatenessStep ==
    ASSUME IInv, UniqueInv, [Next]_vars,
           NEW r \in records, NEW s \in records', Key(r) = Key(s), ~ r.isOnTime
    PROVE  ~ s.isOnTime
<1>0. records \subseteq Record BY DEF IInv, TypeOK
<1>1. CASE s \in records BY <1>1 DEF UniqueInv
<1>2. ASSUME NEW j \in jobs, Uploaded(j), s \in j.docs PROVE FALSE
  BY <1>2 DEF Uploaded, UniqueInv
<1>3. ASSUME NEW x \in records, s = Penalised(x) PROVE ~ s.isOnTime
  BY <1>0, <1>3 DEF Penalised, Record
<1>4. ASSUME NEW x \in records, NEW v, s = [x EXCEPT !.score = v] PROVE ~ s.isOnTime
  <2>1. Key(s) = Key(x) /\ s.isOnTime = x.isOnTime BY <1>0, <1>4 DEF Key, Record
  <2>2. x = r BY <2>1 DEF UniqueInv
  <2> QED BY <2>1, <2>2
<1>5. ASSUME NEW j \in jobs, NEW x \in records, NEW d \in j.docs,
             s = [x EXCEPT !.score = Rewritten(d).score]
      PROVE  ~ s.isOnTime
  BY <1>4, <1>5
<1> QED BY <1>1, <1>2, <1>3, <1>5, Origin

(* A record that is not on time never becomes so again, also when an edit  *)
(* found it before a check made a penalty of it: the edit writes scores    *)
(* only, and there is one record to a key.                                 *)
THEOREM LatenessAlwaysStays == Spec => LatenessStays
<1>1. IInv /\ UniqueInv /\ [Next]_vars
          => [\A r \in records, s \in records' :
                  Key(r) = Key(s) /\ ~ r.isOnTime => ~ s.isOnTime]_vars
  BY LatenessStep
<1>2. IInv /\ HistoryInv /\ UniqueInv /\ [Next]_vars => UniqueInv' BY UniqueStep
<1>3. IInv /\ HistoryInv /\ [Next]_vars => HistoryInv' BY HistoryStep
<1> QED BY <1>1, <1>2, <1>3, HistoryStarts, UniqueStarts, Initially, Inductive, PTL
       DEF Spec, LatenessStays
================================================================================
