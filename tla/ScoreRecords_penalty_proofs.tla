---------------------- MODULE ScoreRecords_penalty_proofs ----------------------
(***************************************************************************)
(* Proof that a check charges each user at most once, whatever interleaves *)
(* and whatever fails: every check and every failure pays for one record   *)
(* that is not on time, and the checks in progress have not yet used what  *)
(* they paid for.                                                          *)
(***************************************************************************)
EXTENDS ScoreRecords_proofs, FiniteSetTheorems

(* A negative score is of a record that is not on time; an edit does not   *)
(* take a record that was late for one on time; a penalty is written over  *)
(* one record, of the user it is meant for.                                *)
LateInv ==
    /\ \A r \in records : r.score < 0 => ~ r.isOnTime
    /\ \A j \in jobs : j.op = "upload" => \A d \in j.docs : d.score < 0 => ~ d.isOnTime
    /\ \A j \in jobs : j.op = "edit" =>
           \A d \in j.docs, r \in records : Key(d) = Key(r) /\ ~ d.isOnTime => ~ r.isOnTime
    /\ \A j \in jobs : j.op = "expire" =>
           /\ \A d \in j.docs : d.target = j.target
           /\ \A d, e \in j.docs : d = e

LEMMA LateRecords ==
    ASSUME IInv, UniqueInv, LateInv, [Next]_vars, NEW s \in records', s.score < 0
    PROVE  ~ s.isOnTime
<1>0. records \subseteq Record BY DEF IInv, TypeOK
<1>1. CASE s \in records BY <1>1 DEF LateInv
<1>2. ASSUME NEW j \in jobs, Uploaded(j), s \in j.docs PROVE ~ s.isOnTime
  BY <1>2 DEF Uploaded, LateInv
<1>3. ASSUME NEW x \in records, s = Penalised(x) PROVE ~ s.isOnTime
  BY <1>0, <1>3 DEF Penalised, Record
<1>4. ASSUME NEW j \in jobs, NEW x \in records, NEW d \in j.docs, Edited(j), Key(x) = Key(d),
             s = [x EXCEPT !.score = Rewritten(d).score]
      PROVE  ~ s.isOnTime
  <2>1. d \in Record /\ x \in Record BY <1>0, JobFields
  <2>2. s.score = Rewritten(d).score /\ s.isOnTime = x.isOnTime BY <1>4, <2>1 DEF Record
  <2>3. ~ d.isOnTime
    <3>1. SUFFICES ASSUME d.isOnTime PROVE FALSE
      OBVIOUS
    <3>2. Rewritten(d).score = 1 BY <2>1, <3>1 DEF Rewritten, Record
    <3> QED BY <2>2, <3>2
  <2> QED BY <1>4, <2>2, <2>3 DEF LateInv, Edited
<1> QED BY <1>1, <1>2, <1>3, <1>4, Origin

LEMMA LateStep ==
    ASSUME IInv, HistoryInv, UniqueInv, LateInv, [Next]_vars
    PROVE  LateInv'
<1>1. \A s \in records' : s.score < 0 => ~ s.isOnTime BY LateRecords
<1>2. ASSUME NEW i \in jobs', i.op = "upload", NEW d \in i.docs, d.score < 0 PROVE ~ d.isOnTime
  <2>1. CASE i \in jobs BY <1>2, <2>1 DEF LateInv
  <2>2. CASE i \notin jobs
    <3>1. PICK r : FreshUpload(i, r) /\ (IsPenalty(r) \/ IsAward(r))
      BY <1>2, <2>2, JobsGrow DEF Asks, Goes
    <3>2. d = r BY <1>2, <3>1 DEF FreshUpload
    <3> QED BY <1>2, <3>1, <3>2 DEF IsPenalty, IsAward, Score
  <2> QED BY <2>1, <2>2
<1>3. ASSUME NEW i \in jobs', i.op = "edit", NEW d \in i.docs, NEW s \in records',
             Key(d) = Key(s), ~ d.isOnTime
      PROVE  ~ s.isOnTime
  <2>1. ASSUME NEW j \in jobs, Uploaded(j), s \in j.docs PROVE FALSE
    <3>1. j.op = "upload" /\ jobs' = jobs \ {j} BY <2>1 DEF Uploaded
    <3> QED BY <1>3, <2>1, <3>1 DEF UniqueInv
  <2>2. PICK x \in records : Key(x) = Key(s) BY <2>1, OldKeys
  <2>3. CASE i \in jobs
    <3>1. ~ x.isOnTime BY <1>3, <2>2, <2>3 DEF LateInv
    <3> QED BY <2>2, <3>1, LatenessStep
  <2>4. CASE i \notin jobs
    <3>1. Asks(i) \/ Goes(i) BY <1>3, <2>4, JobsGrow DEF FreshUpload
    <3>2. d \in records BY <1>3, <3>1 DEF Asks, Goes
    <3> QED BY <1>3, <3>2, LatenessStep
  <2> QED BY <2>3, <2>4
<1>4. ASSUME NEW i \in jobs', i.op = "expire"
      PROVE  /\ \A d \in i.docs : d.target = i.target
             /\ \A d, e \in i.docs : d = e
  <2>1. CASE i \in jobs BY <1>4, <2>1 DEF LateInv
  <2>2. CASE i \notin jobs
    <3>1. Asks(i) \/ Goes(i) BY <1>4, <2>2, JobsGrow DEF FreshUpload
    <3>2. CASE Goes(i)
      <4>1. PICK j \in jobs : /\ j.op = "expire" /\ i.target = j.target
                              /\ i.docs \subseteq Sought(j) /\ \A d, e \in i.docs : d = e
        BY <1>4, <3>2 DEF Goes
      <4> QED BY <4>1 DEF Sought
    <3> QED BY <3>1, <3>2 DEF Asks
  <2> QED BY <2>1, <2>2
<1> QED BY <1>1, <1>2, <1>3, <1>4 DEF LateInv, Key

-----------------------------------------------------------------------------
(* What has been paid for: the late records of u that are no completions,  *)
(* and the checks that may still come to charge u.                         *)
Marked(u) == Keys({r \in OnFile : r.target = u /\ ~ r.isOnTime}) \ lateAwards

Pending(u) == {j \in jobs : j.op = "check" \/ (j.op = "expire" /\ j.target = u)}

Paid(M, P, budget) ==
    IsFiniteSet(M) /\ IsFiniteSet(P) /\ Cardinality(M) + Cardinality(P) <= budget

CountInv == \A u \in User : Paid(Marked(u), Pending(u), checks + faults)

LEMMA Fewer ==
    ASSUME NEW S, NEW T, IsFiniteSet(S), T \subseteq S
    PROVE  IsFiniteSet(T) /\ Cardinality(T) \in Nat /\ Cardinality(T) <= Cardinality(S)
BY FS_Subset, FS_CardinalityType

LEMMA OneMore ==
    ASSUME NEW S, NEW T, NEW x, IsFiniteSet(S), T \subseteq S \cup {x}
    PROVE  IsFiniteSet(T) /\ Cardinality(T) \in Nat /\ Cardinality(T) <= Cardinality(S) + 1
<1>1. Cardinality(S) \in Nat BY FS_CardinalityType
<1>2. IsFiniteSet(S \cup {x}) /\ Cardinality(S \cup {x}) <= Cardinality(S) + 1
  BY <1>1, FS_AddElement
<1>3. Cardinality(S \cup {x}) \in Nat BY <1>2, FS_CardinalityType
<1>4. /\ IsFiniteSet(T) /\ Cardinality(T) \in Nat
      /\ Cardinality(T) <= Cardinality(S \cup {x})
  BY <1>2, Fewer
<1> QED BY <1>1, <1>2, <1>3, <1>4

LEMMA OneLess ==
    ASSUME NEW S, NEW T, NEW x \in S, IsFiniteSet(S), T \subseteq S \ {x}
    PROVE  IsFiniteSet(T) /\ Cardinality(T) \in Nat /\ Cardinality(T) + 1 <= Cardinality(S)
<1>1. Cardinality(S) \in Nat BY FS_CardinalityType
<1>2. IsFiniteSet(S \ {x}) /\ Cardinality(S \ {x}) = Cardinality(S) - 1
  BY FS_RemoveElement
<1>3. Cardinality(S \ {x}) \in Nat BY <1>2, FS_CardinalityType
<1>4. /\ IsFiniteSet(T) /\ Cardinality(T) \in Nat
      /\ Cardinality(T) <= Cardinality(S \ {x})
  BY <1>2, Fewer
<1> QED BY <1>1, <1>2, <1>3, <1>4

(* Nothing is charged, and no check is added.                              *)
LEMMA PaidKeep ==
    ASSUME NEW M, NEW P, NEW N, NEW Q, NEW a \in Nat, NEW b \in Nat,
           Paid(M, P, a), N \subseteq M, Q \subseteq P, a <= b
    PROVE  Paid(N, Q, b)
<1>1. Cardinality(M) \in Nat /\ Cardinality(P) \in Nat BY FS_CardinalityType DEF Paid
<1>2. IsFiniteSet(N) /\ Cardinality(N) \in Nat /\ Cardinality(N) <= Cardinality(M)
  BY Fewer DEF Paid
<1>3. IsFiniteSet(Q) /\ Cardinality(Q) \in Nat /\ Cardinality(Q) <= Cardinality(P)
  BY Fewer DEF Paid
<1> QED BY <1>1, <1>2, <1>3 DEF Paid

(* A check begins and pays for itself.                                     *)
LEMMA PaidBegin ==
    ASSUME NEW M, NEW P, NEW N, NEW Q, NEW a \in Nat, NEW i,
           Paid(M, P, a), N \subseteq M, Q \subseteq P \cup {i}
    PROVE  Paid(N, Q, a + 1)
<1>1. Cardinality(M) \in Nat /\ Cardinality(P) \in Nat BY FS_CardinalityType DEF Paid
<1>2. IsFiniteSet(N) /\ Cardinality(N) \in Nat /\ Cardinality(N) <= Cardinality(M)
  BY Fewer DEF Paid
<1>3. IsFiniteSet(Q) /\ Cardinality(Q) \in Nat /\ Cardinality(Q) <= Cardinality(P) + 1
  BY OneMore DEF Paid
<1> QED BY <1>1, <1>2, <1>3 DEF Paid

(* A check goes on.                                                        *)
LEMMA PaidMove ==
    ASSUME NEW M, NEW P, NEW N, NEW Q, NEW a \in Nat, NEW i, NEW j \in P,
           Paid(M, P, a), N \subseteq M, Q \subseteq (P \ {j}) \cup {i}
    PROVE  Paid(N, Q, a)
<1>0. PICK R : R = P \ {j} OBVIOUS
<1>1. Cardinality(M) \in Nat /\ Cardinality(P) \in Nat BY FS_CardinalityType DEF Paid
<1>2. IsFiniteSet(N) /\ Cardinality(N) \in Nat /\ Cardinality(N) <= Cardinality(M)
  BY Fewer DEF Paid
<1>3. IsFiniteSet(R) /\ Cardinality(R) \in Nat /\ Cardinality(R) + 1 <= Cardinality(P)
  BY <1>0, OneLess DEF Paid
<1>4. IsFiniteSet(Q) /\ Cardinality(Q) \in Nat /\ Cardinality(Q) <= Cardinality(R) + 1
  BY <1>0, <1>3, OneMore
<1> QED BY <1>1, <1>2, <1>3, <1>4 DEF Paid

(* A check ends with a charge.                                             *)
LEMMA PaidCharge ==
    ASSUME NEW M, NEW P, NEW N, NEW Q, NEW a \in Nat, NEW k, NEW j \in P,
           Paid(M, P, a), N \subseteq M \cup {k}, Q \subseteq P \ {j}
    PROVE  Paid(N, Q, a)
<1>1. Cardinality(M) \in Nat /\ Cardinality(P) \in Nat BY FS_CardinalityType DEF Paid
<1>2. IsFiniteSet(N) /\ Cardinality(N) \in Nat /\ Cardinality(N) <= Cardinality(M) + 1
  BY OneMore DEF Paid
<1>3. IsFiniteSet(Q) /\ Cardinality(Q) \in Nat /\ Cardinality(Q) + 1 <= Cardinality(P)
  BY OneLess DEF Paid
<1> QED BY <1>1, <1>2, <1>3 DEF Paid

(* A check that fails ends with two charges at most.                       *)
LEMMA PaidTwice ==
    ASSUME NEW M, NEW P, NEW N, NEW Q, NEW a \in Nat, NEW k, NEW l, NEW j \in P,
           Paid(M, P, a), N \subseteq M \cup {k, l}, Q \subseteq P \ {j}
    PROVE  Paid(N, Q, a + 1)
<1>0. PICK L : L = M \cup {k} OBVIOUS
<1>1. Cardinality(M) \in Nat /\ Cardinality(P) \in Nat BY FS_CardinalityType DEF Paid
<1>2. IsFiniteSet(L) /\ Cardinality(L) \in Nat /\ Cardinality(L) <= Cardinality(M) + 1
  BY <1>0, OneMore DEF Paid
<1>3. N \subseteq L \cup {l} BY <1>0
<1>4. IsFiniteSet(N) /\ Cardinality(N) \in Nat /\ Cardinality(N) <= Cardinality(L) + 1
  BY <1>2, <1>3, OneMore
<1>5. IsFiniteSet(Q) /\ Cardinality(Q) \in Nat /\ Cardinality(Q) + 1 <= Cardinality(P)
  BY OneLess DEF Paid
<1> QED BY <1>1, <1>2, <1>4, <1>5 DEF Paid

-----------------------------------------------------------------------------
(* What a step does to the charges of u.                                   *)
LEMMA MarkedOld ==
    ASSUME IInv, [Next]_vars, NEW u, NEW r \in OnFile, r.target = u, ~ r.isOnTime,
           Key(r) \notin lateAwards'
    PROVE  Key(r) \in Marked(u)
<1>1. Key(r) \notin lateAwards BY HistoryGrows
<1> QED BY <1>1 DEF Marked, Keys

LEMMA MarkedFrom ==
    ASSUME NEW u, NEW k \in Marked(u)'
    PROVE  \E r : /\ r \in records' \/ r \in Uploads'
                  /\ r.target = u /\ ~ r.isOnTime /\ k = Key(r) /\ k \notin lateAwards'
BY DEF Marked, OnFile, Keys, Key

LEMMA UploadsFrom ==
    ASSUME NEW r \in Uploads'
    PROVE  \E i \in jobs' : i.op = "upload" /\ r \in i.docs
BY DEF Uploads

LEMMA UploadsHave ==
    ASSUME NEW i \in jobs, i.op = "upload", NEW r \in i.docs
    PROVE  r \in OnFile
BY DEF Uploads, OnFile

(* The completion box and the steps without uploads charge nobody.         *)
LEMMA MarkedKeep ==
    ASSUME IInv, [Next]_vars, NEW u, records' = records,
           \A i \in jobs' : i.op = "upload" /\ i \notin jobs
               => \A r \in i.docs : ~ r.isOnTime => Key(r) \in lateAwards'
    PROVE  Marked(u)' \subseteq Marked(u)
<1> SUFFICES ASSUME NEW k \in Marked(u)' PROVE k \in Marked(u)
  OBVIOUS
<1>1. PICK r : /\ r \in records' \/ r \in Uploads'
               /\ r.target = u /\ ~ r.isOnTime /\ k = Key(r) /\ k \notin lateAwards'
  BY MarkedFrom
<1>2. r \in OnFile
  <2>1. CASE r \in records' BY <2>1 DEF OnFile
  <2>2. CASE r \in Uploads'
    <3>1. PICK i \in jobs' : i.op = "upload" /\ r \in i.docs BY <2>2, UploadsFrom
    <3>2. i \in jobs BY <1>1, <3>1
    <3> QED BY <3>1, <3>2, UploadsHave
  <2> QED BY <1>1, <2>1, <2>2
<1> QED BY <1>1, <1>2, MarkedOld

LEMMA MarkedTap ==
    ASSUME IInv, [Next]_vars, NEW u, NEW p \in Phone, Tap(p)
    PROVE  Marked(u)' \subseteq Marked(u)
<1>1. ASSUME NEW i \in jobs', i.op = "upload", i \notin jobs, NEW r \in i.docs, ~ r.isOnTime
      PROVE  Key(r) \in lateAwards'
  <2>1. PICK s : FreshUpload(i, s) /\ IsAward(s) /\ (late => Key(s) \in lateAwards')
    BY <1>1, TapUpload DEF Asks
  <2>2. r = s BY <1>1, <2>1 DEF FreshUpload
  <2> QED BY <1>1, <2>1, <2>2 DEF IsAward
<1>2. records' = records BY DEF Tap
<1> QED BY <1>1, <1>2, MarkedKeep

(* A call charges its own user at most, with a new penalty or with the one *)
(* that it writes over the record it found.                                *)
LEMMA RecordsCharge ==
    ASSUME IInv, LateInv, NEW j \in jobs, AnyCall(j), NEW s \in records', ~ s.isOnTime
    PROVE  \/ \E x \in OnFile : Key(x) = Key(s) /\ x.target = s.target /\ ~ x.isOnTime
           \/ /\ j.op = "expire" /\ s.target = j.target /\ Key(s) \in Keys(j.docs)
              /\ records' = AfterPenalty(j)
<1>0. records \subseteq Record /\ TypeOK BY DEF IInv, TypeOK
<1>1. CASE s \in records BY <1>1 DEF OnFile
<1>2. CASE Uploaded(j)
  <2>1. j.op = "upload" /\ records' = records \cup j.docs BY <1>2 DEF Uploaded
  <2> QED BY <1>1, <2>1, UploadsHave
<1>3. CASE Edited(j)
  <2>1. PICK docs \in SUBSET j.docs :
            records' = {r \in records : Key(r) \notin Keys(docs)}
                         \cup UNION {Revised(d) : d \in docs}
    BY <1>3 DEF Edited
  <2>2. CASE s \notin records
    <3>1. PICK d \in docs, x \in records : s = [x EXCEPT !.score = Rewritten(d).score]
      BY <2>1, <2>2 DEF Revised
    <3>2. Key(x) = Key(s) /\ x.target = s.target /\ ~ x.isOnTime
      BY <1>0, <3>1 DEF Key, Record
    <3> QED BY <3>2 DEF OnFile
  <2> QED BY <1>1, <2>2
<1>4. CASE j.op = "expire" /\ records' = AfterPenalty(j)
  <2>1. PICK x \in records : s = IF Key(x) \in Keys(j.docs) THEN Penalised(x) ELSE x
    BY <1>4 DEF AfterPenalty
  <2>2. CASE s # x
    <3>1. Key(s) = Key(x) /\ Key(x) \in Keys(j.docs) BY <1>0, <2>1, <2>2, PenalisedType
    <3>2. PICK d \in j.docs : Key(d) = Key(s) BY <3>1 DEF Keys
    <3>3. s.target = j.target BY <1>4, <3>2 DEF LateInv, Key
    <3> QED BY <1>4, <3>1, <3>3
  <2> QED BY <1>1, <2>1, <2>2
<1>5. CASE records' \subseteq records BY <1>1, <1>5
<1>6. \/ Uploaded(j) \/ Edited(j) \/ records' \subseteq records
      \/ j.op = "expire" /\ records' = AfterPenalty(j)
  BY DEF AnyCall, Found, FoundToExpire, Removed, Expired, Served, Refreshed, RefreshAnswered,
         Failed, ExpireFailed
<1> QED BY <1>2, <1>3, <1>4, <1>5, <1>6

LEMMA MarkedCall ==
    ASSUME IInv, LateInv, [Next]_vars, NEW j \in jobs, AnyCall(j), NEW u, NEW k \in Marked(u)'
    PROVE  \/ k \in Marked(u)
           \/ j.op = "expire" /\ j.target = u /\ k = <<calls + 1, u>> /\ calls' = calls + 1
           \/ /\ j.op = "expire" /\ j.target = u /\ k \in Keys(j.docs)
              /\ records' = AfterPenalty(j)
<1>1. PICK r : /\ r \in records' \/ r \in Uploads'
               /\ r.target = u /\ ~ r.isOnTime /\ k = Key(r) /\ k \notin lateAwards'
  BY MarkedFrom
<1>2. CASE r \in records'
  <2>1. ASSUME NEW x \in OnFile, Key(x) = Key(r), x.target = r.target, ~ x.isOnTime
        PROVE  k \in Marked(u)
    BY <1>1, <2>1, MarkedOld
  <2> QED BY <1>1, <1>2, <2>1, RecordsCharge
<1>3. CASE r \in Uploads'
  <2>1. PICK i \in jobs' : i.op = "upload" /\ r \in i.docs BY <1>3, UploadsFrom
  <2>2. CASE i \in jobs BY <1>1, <2>1, <2>2, UploadsHave, MarkedOld
  <2>3. CASE i \notin jobs
    <3>1. PICK s : FreshUpload(i, s) /\ j.op = "expire" /\ s.target = j.target /\ calls' = calls + 1
      BY <2>1, <2>3, CallGrows DEF Asks, Goes
    <3>2. r = s /\ r.n = calls + 1 BY <2>1, <3>1 DEF FreshUpload
    <3> QED BY <1>1, <3>1, <3>2 DEF Key
  <2> QED BY <2>2, <2>3
<1> QED BY <1>1, <1>2, <1>3

-----------------------------------------------------------------------------
(* The account of u after each operation.                                  *)
LEMMA Sums ==
    ASSUME NEW a \in Nat, NEW b \in Nat, NEW c \in Nat
    PROVE  a + b \in Nat /\ (b <= c => a + b <= a + c)
OBVIOUS

LEMMA Account ==
    ASSUME IInv, CountInv, NEW u \in User, [Next]_vars
    PROVE  /\ checks + faults \in Nat /\ (checks + faults)' \in Nat
           /\ Paid(Marked(u), Pending(u), checks + faults)
<1>1. checks \in Nat /\ faults \in Nat /\ checks' \in Nat /\ faults' \in Nat
  BY Inductive DEF IInv, TypeOK
<1>2. Paid(Marked(u), Pending(u), checks + faults) BY DEF CountInv
<1>3. (checks + faults)' = checks' + faults' OBVIOUS
<1>4. checks + faults \in Nat /\ checks' + faults' \in Nat BY <1>1, Sums
<1> QED BY <1>2, <1>3, <1>4

(* Steps that begin no check.                                              *)
LEMMA CountIdle ==
    ASSUME IInv, CountInv, [Next]_vars, NEW u \in User,
           Marked(u)' \subseteq Marked(u), checks' = checks, faults <= faults',
           \A i \in jobs' : i \in jobs \/ i.op \notin {"check", "expire"}
    PROVE  Paid(Marked(u)', Pending(u)', (checks + faults)')
<1>1. Pending(u)' \subseteq Pending(u) BY DEF Pending
<1>2. checks + faults <= (checks + faults)' BY Inductive DEF IInv, TypeOK
<1>3. /\ checks + faults \in Nat /\ (checks + faults)' \in Nat
      /\ Paid(Marked(u), Pending(u), checks + faults)
  BY Account
<1> QED BY <1>1, <1>2, <1>3, PaidKeep

LEMMA CountChecks ==
    ASSUME IInv, CountInv, [Next]_vars, NEW u \in User, NEW p \in Phone,
           CheckFromCache(p) \/ CheckFromServer(p)
    PROVE  Paid(Marked(u)', Pending(u)', (checks + faults)')
<1>1. Checks(p) BY DEF CheckFromCache, CheckFromServer
<1>2. \E x : \A i \in jobs' : i \in jobs \/ i.op = "refresh" \/ i = x
                                 \/ (i.op = "expire" /\ i.target # u)
  <2>1. CASE CheckFromCache(p)
    <3>1. \A i \in jobs' : i \in jobs \/ i \in Penalties(p, cache[p]) \/ i = Query(p, "refresh", p)
      BY <2>1 DEF CheckFromCache
    <3>2. PICK x : x = Query(p, "expire", u) OBVIOUS
    <3>3. \A i \in Penalties(p, cache[p]) : i.op = "expire" /\ (i.target = u => i = x)
      BY <3>2, PenaltiesAsk
    <3> QED BY <3>1, <3>3, QueryAsks
  <2>2. CASE CheckFromServer(p) BY <2>2 DEF CheckFromServer
  <2> QED BY <2>1, <2>2
<1>3. PICK x : Pending(u)' \subseteq Pending(u) \cup {x} BY <1>2 DEF Pending
<1>4. Marked(u)' \subseteq Marked(u)
  <2>1. \A i \in jobs' : i \in jobs \/ i.op # "upload"
    BY PenaltiesAsk, QueryAsks DEF CheckFromCache, CheckFromServer
  <2>2. records' = records BY <1>1 DEF Checks
  <2> QED BY <2>1, <2>2, MarkedKeep
<1>5. /\ checks + faults \in Nat /\ (checks + faults)' \in Nat
      /\ Paid(Marked(u), Pending(u), checks + faults)
  BY Account
<1>6. (checks + faults)' = (checks + faults) + 1 BY <1>1 DEF Checks, IInv, TypeOK
<1> QED BY <1>3, <1>4, <1>5, <1>6, PaidBegin

LEMMA CountOthers ==
    ASSUME IInv, CountInv, [Next]_vars, ~ CallNext, NEW u \in User
    PROVE  Paid(Marked(u)', Pending(u)', (checks + faults)')
<1>0. faults \in Nat BY DEF IInv, TypeOK
<1>1. ASSUME NEW p \in Phone, Tap(p) PROVE Paid(Marked(u)', Pending(u)', (checks + faults)')
  <2>1. Marked(u)' \subseteq Marked(u) BY <1>1, MarkedTap
  <2>2. \A i \in jobs' : i \in jobs \/ i.op \notin {"check", "expire"}
    BY <1>1, TapUpload DEF FreshUpload
  <2>3. checks' = checks /\ faults <= faults' BY <1>0, <1>1 DEF Tap
  <2> QED BY <2>1, <2>2, <2>3, CountIdle
<1>2. ASSUME records' = records, checks' = checks, faults <= faults',
             \A i \in jobs' : i \in jobs \/ i.op \notin {"check", "expire", "upload"}
      PROVE  Paid(Marked(u)', Pending(u)', (checks + faults)')
  <2>1. Marked(u)' \subseteq Marked(u) BY <1>2, MarkedKeep
  <2> QED BY <1>2, <2>1, CountIdle
<1>3. ASSUME NEW p \in Phone, Edit(p) \/ Delete(p) \/ DeletionSynced(p) \/ FlagSynced(p) \/ Browse(p)
      PROVE  Paid(Marked(u)', Pending(u)', (checks + faults)')
  <2>1. records' = records /\ checks' = checks /\ faults' = faults
    BY <1>3 DEF Edit, Delete, DeletionSynced, FlagSynced, Browse, boundVars
  <2>2. \A i \in jobs' :
            \/ i \in jobs
            \/ \E op \in {"edit", "remove", "removeAgain", "refresh"} : i = Query(p, op, p)
    BY <1>3 DEF Edit, Delete, DeletionSynced, FlagSynced, Browse
  <2>3. \A i \in jobs' : i \in jobs \/ i.op \notin {"check", "expire", "upload"}
    BY <2>2, QueryAsks
  <2>4. faults <= faults' BY <1>0, <2>1
  <2> QED BY <1>2, <2>1, <2>3, <2>4
<1>4. CASE DeadlinePasses \/ (\E p \in Phone : Restart(p)) \/ UNCHANGED vars
  <2>1. records' = records /\ checks' = checks /\ faults <= faults'
    BY <1>0, <1>4 DEF DeadlinePasses, Restart, vars, boundVars
  <2>2. jobs' \subseteq jobs BY <1>4 DEF DeadlinePasses, Restart, vars
  <2> QED BY <1>2, <2>1, <2>2
<1> QED BY <1>1, <1>3, <1>4, CountChecks DEF Next, UserNext, SyncNext, CheckNext

(* The calls of a check go on, end, or charge their user once; one that    *)
(* fails may have charged already.                                         *)
LEMMA CountExpire ==
    ASSUME IInv, LateInv, CountInv, [Next]_vars, NEW u \in User, NEW j \in jobs, AnyCall(j),
           j.op = "expire", j.target = u
    PROVE  Paid(Marked(u)', Pending(u)', (checks + faults)')
<1>0. /\ checks + faults \in Nat /\ (checks + faults)' \in Nat
      /\ Paid(Marked(u), Pending(u), checks + faults) /\ j \in Pending(u)
  BY Account DEF Pending
<1>1. PICK l : Keys(j.docs) \subseteq {l} BY DEF LateInv, Keys
<1>2. Marked(u)' \subseteq Marked(u) \cup {<<calls + 1, u>>, l} BY <1>1, MarkedCall
<1>3. CASE PenaltyAdded(j)
  <2>1. PICK i, r : jobs' = (jobs \ {j}) \cup {i} /\ FreshUpload(i, r) BY <1>3, PenaltyUpload
  <2>2. Pending(u)' \subseteq Pending(u) \ {j} BY <2>1 DEF Pending, FreshUpload
  <2>3. CASE ExpireFailed(j)
    <3>1. (checks + faults)' = (checks + faults) + 1
      BY <2>3 DEF ExpireFailed, IInv, TypeOK
    <3> QED BY <1>0, <1>2, <2>2, <3>1, PaidTwice
  <2>4. CASE FoundToExpire(j) \/ Expired(j)
    <3>1. checks' = checks /\ faults' = faults BY <2>4 DEF FoundToExpire, Expired, boundVars
    <3>2. Marked(u)' \subseteq Marked(u) \cup {<<calls + 1, u>>}
      <4>1. SUFFICES ASSUME NEW k \in Marked(u)', k \notin Marked(u), k # <<calls + 1, u>>
                     PROVE  FALSE
        OBVIOUS
      <4>2. records' = AfterPenalty(j) /\ k \in Keys(j.docs) BY <4>1, MarkedCall
      <4>3. calls' = calls + 1 /\ calls \in Nat BY <1>3 DEF PenaltyAdded, IInv, TypeOK
      <4>4. records' = records
        <5>1. CASE FoundToExpire(j) BY <5>1 DEF FoundToExpire
        <5>2. CASE Expired(j)
          <6>1. calls' # calls BY <4>3
          <6> QED BY <5>2, <6>1 DEF Expired
        <5> QED BY <2>4, <5>1, <5>2
      <4>5. PICK t : /\ t \in records' \/ t \in Uploads'
                     /\ t.target = u /\ ~ t.isOnTime /\ k = Key(t) /\ k \notin lateAwards'
        BY <4>1, MarkedFrom
      <4>6. CASE t \in records'
        BY <4>1, <4>4, <4>5, <4>6, MarkedOld DEF OnFile
      <4>7. CASE t \in Uploads'
        <5>1. PICK m \in jobs' : m.op = "upload" /\ t \in m.docs BY <4>7, UploadsFrom
        <5>2. CASE m \in jobs BY <4>1, <4>5, <5>1, <5>2, UploadsHave, MarkedOld
        <5>3. CASE m \notin jobs
          <6>1. PICK s : FreshUpload(m, s) /\ s.target = j.target
            BY <5>1, <5>3, CallGrows DEF Asks, Goes
          <6>2. t = s /\ t.n = calls + 1 BY <5>1, <6>1 DEF FreshUpload
          <6> QED BY <4>1, <4>5, <6>1, <6>2 DEF Key
        <5> QED BY <5>2, <5>3
      <4> QED BY <4>5, <4>6, <4>7
    <3> QED BY <1>0, <2>2, <3>1, <3>2, PaidCharge
  <2> QED BY <2>3, <2>4
         DEF AnyCall, Uploaded, Found, Removed, Edited, Served, Refreshed, Failed, Removal
<1>4. CASE ~ PenaltyAdded(j)
  <2>0. /\ checks' = checks /\ faults' = faults
        /\ FoundToExpire(j) \/ Expired(j)
    BY <1>4 DEF AnyCall, Uploaded, Found, FoundToExpire, Removed, Edited, Expired, Served,
                Refreshed, Failed, ExpireFailed, Removal, boundVars
  <2>1. CASE Expired(j)
    <3>1. jobs' = jobs \ {j} /\ calls' = calls BY <1>4, <2>1 DEF Expired
    <3>2. calls' # calls + 1 BY <3>1 DEF IInv, TypeOK
    <3>3. Marked(u)' \subseteq Marked(u) \cup {l} BY <1>1, <3>2, MarkedCall
    <3>4. Pending(u)' \subseteq Pending(u) \ {j} BY <3>1 DEF Pending
    <3> QED BY <1>0, <2>0, <3>3, <3>4, PaidCharge
  <2>2. CASE FoundToExpire(j)
    <3>1. PICK r \in Sought(j) :
              /\ jobs' = (jobs \ {j}) \cup {[j EXCEPT !.step = "write", !.docs = {r}]}
              /\ UNCHANGED <<cache, calls, deductions>>
      BY <1>4, <2>2 DEF FoundToExpire
    <3>2. PICK i : i = [j EXCEPT !.step = "write", !.docs = {r}] OBVIOUS
    <3>3. i.op = "expire" BY <3>2, JobFields DEF Job
    <3>4. records' = records BY <2>2 DEF FoundToExpire
    <3>5. Marked(u)' \subseteq Marked(u) BY <3>1, <3>2, <3>3, <3>4, MarkedKeep
    <3>6. Pending(u)' \subseteq (Pending(u) \ {j}) \cup {i} BY <3>1, <3>2 DEF Pending
    <3> QED BY <1>0, <2>0, <3>5, <3>6, PaidMove
  <2> QED BY <2>0, <2>1, <2>2
<1> QED BY <1>3, <1>4

LEMMA CountCalls ==
    ASSUME IInv, LateInv, CountInv, [Next]_vars, NEW u \in User, NEW j \in jobs, AnyCall(j)
    PROVE  Paid(Marked(u)', Pending(u)', (checks + faults)')
<1>0. j \in Job /\ faults \in Nat BY JobFields DEF TypeOK
<1>1. CASE j.op = "expire" /\ j.target = u BY <1>1, CountExpire
<1>2. CASE ~ (j.op = "expire" /\ j.target = u)
  <2>1. Marked(u)' \subseteq Marked(u) BY <1>2, MarkedCall
  <2>2. checks' = checks /\ faults' \in {faults, faults + 1}
    BY DEF AnyCall, Uploaded, Found, FoundToExpire, Removed, Edited, Expired, Served, Reached,
           Refreshed, RefreshAnswered, Failed, ExpireFailed, boundVars
  <2>3. faults <= faults' BY <1>0, <2>2
  <2>4. /\ checks + faults \in Nat /\ (checks + faults)' \in Nat
        /\ Paid(Marked(u), Pending(u), checks + faults)
    BY Account
  <2>5. checks + faults <= (checks + faults)'
    <3>1. checks \in Nat /\ faults' \in Nat BY Inductive DEF IInv, TypeOK
    <3>2. checks + faults <= checks + faults' BY <1>0, <2>3, <3>1, Sums
    <3> QED BY <2>2, <3>2
  <2>6. CASE j.op = "check"
    <3>1. j \in Pending(u) BY <2>6 DEF Pending
    <3>2. Served(j) \/ Refreshed(j)
      BY <2>6 DEF AnyCall, Uploaded, Found, FoundToExpire, Removed, Edited, Expired, Failed,
                  ExpireFailed, Removal
    <3>3. checks' = checks /\ faults' = faults
      BY <3>2 DEF Served, Refreshed, RefreshAnswered, boundVars
    <3>4. PICK x : \A i \in jobs' : i \in jobs \ {j} \/ i = x \/ (i.op = "expire" /\ i.target # u)
      <4>1. CASE Served(j) BY <4>1 DEF Served
      <4>2. CASE Refreshed(j)
        <5>1. PICK answer : RefreshAnswered(j, answer) BY <4>2 DEF Refreshed
        <5>2. PICK y : y = Query(j.phone, "expire", u) OBVIOUS
        <5>3. \A i \in Penalties(j.phone, answer) : i.op = "expire" /\ (i.target = u => i = y)
          BY <5>2, PenaltiesAsk
        <5> QED BY <2>6, <5>1, <5>3 DEF RefreshAnswered
      <4> QED BY <3>2, <4>1, <4>2
    <3>5. Pending(u)' \subseteq (Pending(u) \ {j}) \cup {x} BY <3>4 DEF Pending
    <3> QED BY <2>1, <2>4, <3>1, <3>3, <3>5, PaidMove
  <2>7. CASE j.op # "check"
    <3>1. \A i \in jobs' : i \in jobs \/ ~ (i.op = "check" \/ (i.op = "expire" /\ i.target = u))
      <4>1. SUFFICES ASSUME NEW i \in jobs', i \notin jobs,
                            i.op = "check" \/ (i.op = "expire" /\ i.target = u)
                     PROVE  FALSE
        OBVIOUS
      <4>2. CASE PenaltyAdded(j)
        <5>1. PICK m, r : jobs' = (jobs \ {j}) \cup {m} /\ FreshUpload(m, r) BY <4>2, PenaltyUpload
        <5> QED BY <4>1, <5>1 DEF FreshUpload
      <4>3. ASSUME NEW step, NEW docs, i = [j EXCEPT !.step = step, !.docs = docs] PROVE FALSE
        BY <1>0, <1>2, <2>7, <4>1, <4>3 DEF Job
      <4>4. CASE Found(j) BY <4>1, <4>3, <4>4 DEF Found
      <4>5. CASE Served(j) BY <4>1, <4>3, <4>5 DEF Served
      <4>6. CASE FoundToExpire(j)
        <5>1. ASSUME NEW r, i = [j EXCEPT !.step = "write", !.docs = {r}] PROVE FALSE
          BY <4>3, <5>1
        <5> QED BY <4>1, <4>2, <4>6, <5>1 DEF FoundToExpire
      <4>7. CASE Refreshed(j) BY <2>7, <4>1, <4>7 DEF Refreshed, RefreshAnswered
      <4>8. CASE Expired(j) \/ ExpireFailed(j)
        BY <4>1, <4>2, <4>8 DEF Expired, ExpireFailed
      <4>9. CASE Uploaded(j) \/ Removed(j) \/ Edited(j) \/ Failed(j)
        BY <4>1, <4>9 DEF Uploaded, Removed, Edited, Failed
      <4> QED BY <4>4, <4>5, <4>6, <4>7, <4>8, <4>9 DEF AnyCall
    <3>2. Pending(u)' \subseteq Pending(u) BY <3>1 DEF Pending
    <3> QED BY <2>1, <2>4, <2>5, <3>2, PaidKeep
  <2> QED BY <2>6, <2>7
<1> QED BY <1>1, <1>2

LEMMA CountStep ==
    ASSUME IInv, LateInv, CountInv, [Next]_vars
    PROVE  CountInv'
<1>1. ASSUME NEW u \in User PROVE Paid(Marked(u)', Pending(u)', (checks + faults)')
  <2>1. CASE CallNext
    <3>1. PICK j \in jobs : AnyCall(j) BY <2>1, CallsAre
    <3> QED BY <3>1, CountCalls
  <2> QED BY <2>1, CountOthers
<1> QED BY <1>1 DEF CountInv, Paid

LEMMA CountStarts == Init => LateInv /\ CountInv
<1> SUFFICES ASSUME Init PROVE LateInv /\ CountInv
  OBVIOUS
<1>1. LateInv BY DEF Init, LateInv
<1>2. records = {} /\ jobs = {} /\ checks = 0 /\ faults = 0 BY DEF Init
<1>3. \A u : Marked(u) = {} /\ Pending(u) = {}
  BY <1>2 DEF Marked, Pending, OnFile, Uploads, Keys
<1>4. Paid({}, {}, checks + faults) BY <1>2, FS_EmptySet DEF Paid
<1>5. CountInv BY <1>3, <1>4 DEF CountInv
<1> QED BY <1>1, <1>5

(* A user has at most as many records by which checks have charged him as  *)
(* there were checks and failures, whatever interleaves: an award is       *)
(* turned into the penalty instead of adding one, and both happen only     *)
(* when the answer of the update got lost.                                 *)
THEOREM AlwaysOnePenaltyPerCheck == Spec => []OnePenaltyPerCheck
<1>1. ASSUME IInv, LateInv, CountInv PROVE OnePenaltyPerCheck
  <2>1. ASSUME NEW u \in User PROVE Cardinality(Charges(u)) <= checks + faults
    <3>1. \A r \in OnFile : r.score < 0 => ~ r.isOnTime
      BY <1>1 DEF LateInv, OnFile, Uploads
    <3>2. Charges(u) \subseteq Marked(u) BY <3>1 DEF Charges, Marked, Keys
    <3>3. Paid(Marked(u), Pending(u), checks + faults) BY <1>1 DEF CountInv
    <3>4. /\ IsFiniteSet(Marked(u)) /\ IsFiniteSet(Pending(u))
          /\ Cardinality(Marked(u)) + Cardinality(Pending(u)) <= checks + faults
      BY <3>3 DEF Paid
    <3>5. Cardinality(Marked(u)) \in Nat /\ Cardinality(Pending(u)) \in Nat
      BY <3>4, FS_CardinalityType
    <3>6. /\ Cardinality(Charges(u)) \in Nat
          /\ Cardinality(Charges(u)) <= Cardinality(Marked(u))
      BY <3>2, <3>4, Fewer
    <3>7. checks \in Nat /\ faults \in Nat BY <1>1 DEF IInv, TypeOK
    <3> QED BY <3>4, <3>5, <3>6, <3>7
  <2> QED BY <2>1 DEF OnePenaltyPerCheck
<1>2. IInv /\ HistoryInv /\ [Next]_vars => HistoryInv' BY HistoryStep
<1>3. IInv /\ HistoryInv /\ UniqueInv /\ [Next]_vars => UniqueInv' BY UniqueStep
<1>4. IInv /\ HistoryInv /\ UniqueInv /\ LateInv /\ [Next]_vars => LateInv' BY LateStep
<1>5. IInv /\ LateInv /\ CountInv /\ [Next]_vars => CountInv' BY CountStep
<1> QED BY <1>1, <1>2, <1>3, <1>4, <1>5, HistoryStarts, UniqueStarts, CountStarts, Initially,
          Inductive, PTL DEF Spec
================================================================================
