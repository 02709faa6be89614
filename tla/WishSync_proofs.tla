---------------------------- MODULE WishSync_proofs ----------------------------
(* Theorems about WishSync, for every set of devices, wishes and poll slots *)
(* and every bound.                                                         *)
EXTENDS WishSync, TLAPS

-----------------------------------------------------------------------------
(* What documents, entries, jobs and sweeps look like.                      *)
LEMMA NoDocType == NoDoc \in Doc /\ NoEntry \in Entry /\ NoDocs \in [Wish -> Doc]
  BY DEF NoDoc, NoEntry, Doc, Entry, NoDocs

LEMMA IdleSweepType == IdleSweep \in Sweep
  BY NoDocType DEF IdleSweep, Sweep

LEMMA NewJobType ==
    ASSUME NEW w \in Wish, NEW op \in {"save", "delete"}, NEW via \in {"change", "check"}
    PROVE  NewJob(w, op, via) \in Job
  BY DEF NewJob, Job

(* Inserting and dropping a copy leave an entry of the list.                *)
LEMMA EntryType ==
    ASSUME NEW e \in Entry, NEW rev \in Nat
    PROVE  Inserted(e, rev) \in Entry /\ Dropped(e) \in Entry
  <1>1. Inserted(e, rev) \in Entry
    BY DEF Inserted, Entry
  <1>2. CASE e.copies <= 1
    BY <1>1, <1>2, NoDocType DEF Dropped
  <1>3. CASE ~ (e.copies <= 1)
    <2>1. e.copies - 1 \in Nat
      BY <1>3 DEF Entry
    <2>2. Dropped(e) = [e EXCEPT !.copies = e.copies - 1]
      BY <1>3 DEF Dropped
    <2>3. QED
      BY <1>1, <2>1, <2>2 DEF Entry
  <1>4. QED
    BY <1>2, <1>3

LEMMA WriteType ==
    ASSUME TypeOK, NEW d \in Device, NEW w \in Wish, NEW op \in {"set", "delete"},
           NEW rev \in Nat, NEW group \in Nat
    PROVE  Write(d, op, w, rev, group) \in Request
  BY DEF Write, Request, TypeOK

(* The effect of a write leaves a collection of documents.                  *)
LEMMA EffectType ==
    ASSUME TypeOK, NEW r \in requests, Effect(r)
    PROVE  server' \in [Wish -> Doc] /\ writes' \in Nat
  <1>1. r \in Request
    BY DEF TypeOK
  <1>2. [rev |-> r.rev, stamp |-> writes + 1] \in Doc
    BY <1>1 DEF TypeOK, Request, Doc
  <1>3. r.wish \in Wish
    BY <1>1 DEF Request
  <1>4. CASE r.op = "set"
    <2> DEFINE doc == [rev |-> r.rev, stamp |-> writes + 1]
    <2>1. server' = [server EXCEPT ![r.wish] = doc] /\ writes' = writes + 1
      BY <1>4 DEF Effect
    <2> HIDE DEF doc
    <2>2. doc \in Doc
      BY <1>2 DEF doc
    <2>3. QED
      BY <1>3, <2>1, <2>2 DEF TypeOK
  <1>5. CASE r.op # "set"
    <2>1. server' = [server EXCEPT ![r.wish] = NoDoc] /\ writes' = writes
      BY <1>5 DEF Effect
    <2>2. QED
      BY <1>3, <2>1, NoDocType DEF TypeOK
  <1>6. QED
    BY <1>4, <1>5

(* The observer keeps the types of the flag and of the batches.             *)
LEMMA HandleContextDidSaveType ==
    ASSUME TypeOK, NEW d \in Device, NEW ids \in SUBSET Wish,
           HandleContextDidSave(d, ids)
    PROVE  /\ isLocalSyncing' \in [Device -> BOOLEAN]
           /\ batches' \in [Device -> SUBSET [id : Nat, ids : SUBSET Wish]]
  <1> DEFINE b == [id |-> clock + 1, ids |-> ids]
  <1>1. Observed(d, {b}) \in SUBSET [id : Nat, ids : SUBSET Wish]
    BY DEF Observed, TypeOK
  <1>2. QED
    BY <1>1 DEF HandleContextDidSave, TypeOK

(* A step of one sweep of one device leaves sweeps of the right type.       *)
LEMMA SweepType ==
    ASSUME TypeOK, NEW d \in Device, NEW s \in Source, NEW q \in Sweep,
           sweeps' = [sweeps EXCEPT ![d][s] = q]
    PROVE  sweeps' \in [Device -> [Source -> Sweep]]
  BY DEF TypeOK

(* All that changes when an answer is asked for, taken or compared, or one  *)
(* of its jobs takes a step, is the listener's memory, the store, the flag  *)
(* and the count of faults; and sweeps as the action says.                  *)
SweepNext(d, s) ==
    \/ Ask(d, s) \/ AnswerFailed(d, s) \/ Answered(d, s)
    \/ JobNext(d, s) \/ SweepDone(d, s)

LEMMA SweepLeaves ==
    ASSUME NEW d, NEW s, SweepNext(d, s)
    PROVE  UNCHANGED <<server, writes, clock, syncingWishIds, deletingWishIds, batches,
                       unmarks, edited, requests, added, handedOver, deleted, restarts>>
  BY DEF SweepNext, Ask, AnswerFailed, Answered, PollIgnored, PollHandled, Compare,
         JobNext, JobFound, JobNotFound, JobInserts, JobDone, Advance, SweepDone,
         serverVars, markVars, timerVars, userVars, boundVars

(* The steps of a behaviour: a call, the user, a timer, a restart, a sweep. *)
LEMMA Steps ==
    ASSUME [Next]_vars
    PROVE  \/ \E r \in requests : Served(r) \/ AnswerLost(r) \/ Failed(r)
           \/ \E d \in Device, w \in Wish :
                  AddModel(d, w) \/ PointsupdateItem(d, w) \/ DeleteModel(d, w)
           \/ \E d \in Device : OtherSave(d) \/ TimerNext(d) \/ Restart(d)
           \/ \E d \in Device, s \in Source : SweepNext(d, s)
           \/ UNCHANGED vars
  <1>1. Refresh \in Source
    BY DEF Source
  <1>2. QED
    BY <1>1 DEF Next, CallNext, UserNext, OpenList, PollQuery, SweepNext

-----------------------------------------------------------------------------
(* Every variable keeps its type: the list, the marks, the timers and the   *)
(* calls of PointsManger, and its answers with their jobs.                  *)
LEMMA CallType ==
    ASSUME TypeOK, NEW r \in requests, Served(r) \/ AnswerLost(r) \/ Failed(r)
    PROVE  TypeOK'
  <1>1. r \in Request /\ r.dev \in Device /\ r.wish \in Wish
    BY DEF TypeOK, Request
  <1>2. CASE Served(r)
    <2>1. unmarks' \in [Device -> SUBSET Request]
      BY <1>1, <1>2 DEF Served, TypeOK
    <2>2. requests' \in SUBSET Request
      BY <1>2 DEF Served, TypeOK
    <2>3. QED
      BY <1>2, <2>1, <2>2, EffectType
      DEF Served, TypeOK, markVars, pollVars, userVars, boundVars
  <1>3. CASE AnswerLost(r)
    <2>1. [r EXCEPT !.state = "lost"] \in Request
      BY <1>1 DEF Request
    <2>2. requests' \in SUBSET Request
      BY <1>3, <2>1 DEF AnswerLost, TypeOK
    <2>3. faults' \in Nat
      BY <1>3 DEF AnswerLost, TypeOK
    <2>4. server' \in [Wish -> Doc] /\ writes' \in Nat
      BY <1>3, EffectType DEF AnswerLost
    <2>5. QED
      BY <1>3, <2>2, <2>3, <2>4
      DEF AnswerLost, TypeOK, markVars, timerVars, pollVars, userVars
  <1>4. CASE Failed(r)
    <2>1. requests' \in SUBSET Request /\ faults' \in Nat
      BY <1>4 DEF Failed, TypeOK
    <2>2. MarkTakenBack(r)
      BY <1>4 DEF Failed
    <2>3. syncingWishIds' \in [Device -> SUBSET Wish]
      BY <2>2 DEF MarkTakenBack, TypeOK
    <2>4. deletingWishIds' \in [Device -> SUBSET Wish]
      BY <2>2 DEF MarkTakenBack, TypeOK
    <2>5. QED
      BY <1>4, <2>1, <2>3, <2>4
      DEF Failed, TypeOK, serverVars, timerVars, pollVars, userVars
  <1>5. QED
    BY <1>2, <1>3, <1>4

LEMMA UserType ==
    ASSUME TypeOK, NEW d \in Device, NEW w \in Wish,
           AddModel(d, w) \/ PointsupdateItem(d, w) \/ DeleteModel(d, w)
    PROVE  TypeOK'
  <1>1. store[d][w] \in Entry /\ clock + 1 \in Nat
    BY DEF TypeOK
  <1>2. clock' = clock + 1
    BY DEF AddModel, PointsupdateItem, DeleteModel, Saves
  <1>3. CASE AddModel(d, w)
    <2> DEFINE r == Write(d, "set", w, clock + 1, clock + 1)
    <2>1. r \in Request
      BY <1>1, WriteType
    <2>2. requests' \in SUBSET Request
      <3>1. requests' = requests \cup Observed(d, {r})
        BY <1>3 DEF AddModel
      <3>2. QED
        BY <2>1, <3>1 DEF Observed, TypeOK
    <2>3. store' \in [Device -> [Wish -> Entry]]
      <3> DEFINE e == Inserted(store[d][w], clock + 1)
      <3>1. store' = [store EXCEPT ![d][w] = e]
        BY <1>3 DEF AddModel
      <3>2. e \in Entry
        BY <1>1, EntryType
      <3>3. QED
        BY <3>1, <3>2 DEF TypeOK
    <2>4. syncingWishIds' \in [Device -> SUBSET Wish]
      BY <1>3 DEF AddModel, Observed, TypeOK
    <2>5. handedOver' \in SUBSET Wish /\ added' \in SUBSET Wish
      BY <1>3 DEF AddModel, Observed, TypeOK
    <2>6. /\ isLocalSyncing' \in [Device -> BOOLEAN]
          /\ batches' \in [Device -> SUBSET [id : Nat, ids : SUBSET Wish]]
      BY <1>3, HandleContextDidSaveType DEF AddModel
    <2>7. QED
      BY <1>1, <1>2, <1>3, <2>2, <2>3, <2>4, <2>5, <2>6
      DEF AddModel, TypeOK, serverVars, pollVars, boundVars
  <1>4. CASE PointsupdateItem(d, w)
    <2>1. store' \in [Device -> [Wish -> Entry]]
      <3> DEFINE e == [store[d][w] EXCEPT !.rev = clock + 1]
      <3>1. store' = [store EXCEPT ![d][w] = e]
        BY <1>4 DEF PointsupdateItem
      <3>2. e \in Entry
        BY <1>1 DEF Entry
      <3>3. QED
        BY <3>1, <3>2 DEF TypeOK
    <2>2. edited' \in [Device -> SUBSET [wish : Wish, seq : Nat]]
      <3>1. [wish |-> w, seq |-> clock + 1] \in [wish : Wish, seq : Nat]
        BY <1>1
      <3>2. QED
        BY <1>4, <3>1 DEF PointsupdateItem, TypeOK
    <2>3. QED
      BY <1>1, <1>2, <1>4, <2>1, <2>2
      DEF PointsupdateItem, TypeOK, serverVars, markVars, pollVars, userVars, boundVars
  <1>5. CASE DeleteModel(d, w)
    <2> DEFINE r == Write(d, "delete", w, 0, clock + 1)
    <2>1. r \in Request
      BY <1>1, WriteType
    <2>2. requests' \in SUBSET Request
      <3>1. requests' = requests \cup Observed(d, {r})
        BY <1>5 DEF DeleteModel
      <3>2. QED
        BY <2>1, <3>1 DEF Observed, TypeOK
    <2>3. store' \in [Device -> [Wish -> Entry]]
      <3> DEFINE e == Dropped(store[d][w])
      <3>1. store' = [store EXCEPT ![d][w] = e]
        BY <1>5 DEF DeleteModel
      <3>2. e \in Entry
        BY <1>1, EntryType
      <3>3. QED
        BY <3>1, <3>2 DEF TypeOK
    <2>4. deletingWishIds' \in [Device -> SUBSET Wish] /\ deleted' \in SUBSET Wish
      BY <1>5 DEF DeleteModel, Observed, TypeOK
    <2>5. /\ isLocalSyncing' \in [Device -> BOOLEAN]
          /\ batches' \in [Device -> SUBSET [id : Nat, ids : SUBSET Wish]]
      BY <1>5, HandleContextDidSaveType DEF DeleteModel
    <2>6. QED
      BY <1>1, <1>2, <1>5, <2>2, <2>3, <2>4, <2>5
      DEF DeleteModel, TypeOK, serverVars, pollVars, boundVars
  <1>6. QED
    BY <1>3, <1>4, <1>5

LEMMA DeviceType ==
    ASSUME TypeOK, NEW d \in Device, OtherSave(d) \/ TimerNext(d) \/ Restart(d)
    PROVE  TypeOK'
  <1>1. CASE OtherSave(d)
    <2>1. /\ isLocalSyncing' \in [Device -> BOOLEAN]
          /\ batches' \in [Device -> SUBSET [id : Nat, ids : SUBSET Wish]]
      BY <1>1, HandleContextDidSaveType DEF OtherSave
    <2>2. QED
      BY <1>1, <2>1 DEF OtherSave, Saves, TypeOK, serverVars, pollVars, userVars, boundVars
  <1>2. ASSUME NEW e \in edited[d], PointsupdateItemSaved(d, e) PROVE TypeOK'
    <2>1. e.wish \in Wish /\ store[d][e.wish].rev \in Nat
      BY DEF TypeOK, Entry
    <2>2. Write(d, "set", e.wish, store[d][e.wish].rev, 0) \in Request
      BY <2>1, WriteType
    <2>3. requests' \in SUBSET Request
      BY <1>2, <2>2 DEF PointsupdateItemSaved, TypeOK
    <2>4. syncingWishIds' \in [Device -> SUBSET Wish]
      <3>1. CASE syncingWishIds' = syncingWishIds
        BY <3>1 DEF TypeOK
      <3>2. CASE syncingWishIds' = [syncingWishIds EXCEPT ![d] = @ \cup {e.wish}]
        BY <2>1, <3>2 DEF TypeOK
      <3>3. QED
        BY <1>2, <3>1, <3>2 DEF PointsupdateItemSaved
    <2>5. edited' \in [Device -> SUBSET [wish : Wish, seq : Nat]] /\ clock' \in Nat
      BY <1>2 DEF PointsupdateItemSaved, TypeOK
    <2>6. QED
      BY <1>2, <2>3, <2>4, <2>5
      DEF PointsupdateItemSaved, TypeOK, serverVars, pollVars, userVars, boundVars
  <1>3. ASSUME NEW u \in unmarks[d], UnmarkDeleted(d, u) PROVE TypeOK'
    BY <1>3 DEF UnmarkDeleted, TypeOK, serverVars, pollVars, userVars, boundVars
  <1>4. ASSUME NEW b \in batches[d], BatchDone(d, b) PROVE TypeOK'
    <2>1. /\ isLocalSyncing' \in [Device -> BOOLEAN]
          /\ syncingWishIds' \in [Device -> SUBSET Wish]
          /\ batches' \in [Device -> SUBSET [id : Nat, ids : SUBSET Wish]]
      BY <1>4 DEF BatchDone, TypeOK
    <2>2. QED
      BY <1>4, <2>1 DEF BatchDone, TypeOK, serverVars, pollVars, userVars, boundVars
  <1>5. CASE Restart(d)
    <2>1. [s \in Source |-> IdleSweep] \in [Source -> Sweep]
      BY IdleSweepType
    <2>2. /\ sweeps' \in [Device -> [Source -> Sweep]]
          /\ previous' \in [Device -> [Wish -> Doc]]
      BY <1>5, <2>1, NoDocType DEF Restart, TypeOK
    <2>3. QED
      BY <1>5, <2>2 DEF Restart, TypeOK, serverVars, userVars
  <1>6. QED
    BY <1>1, <1>2, <1>3, <1>4, <1>5 DEF TimerNext

(* What the sweeps become, action by action.                                *)
LEMMA SweepUpdate ==
    ASSUME TypeOK, NEW d \in Device, NEW s \in Source, SweepNext(d, s)
    PROVE  \E q \in Sweep : sweeps' = [sweeps EXCEPT ![d][s] = q]
  <1> DEFINE p == sweeps[d][s]
  <1>1. p \in Sweep /\ Snap(d, s) = p.snap
    BY DEF TypeOK, Snap
  <1>2. CASE Ask(d, s)
    <2>1. [IdleSweep EXCEPT !.phase = "asked", !.snap = server] \in Sweep
      BY IdleSweepType DEF Sweep, TypeOK
    <2>2. QED
      BY <1>2, <2>1 DEF Ask
  <1>3. CASE AnswerFailed(d, s) \/ PollIgnored(d, s) \/ SweepDone(d, s)
    BY <1>3, IdleSweepType DEF AnswerFailed, PollIgnored, SweepDone
  <1>4. CASE PollHandled(d, s)
    <2> DEFINE save == {NewJob(w, "save", "change") : w \in Written(d, s) \ syncingWishIds[d]}
               drop == {NewJob(w, "delete", "change") : w \in Removed(d, s) \ deletingWishIds[d]}
    <2>1. Written(d, s) \in SUBSET Wish /\ Removed(d, s) \in SUBSET Wish
      BY DEF Written, Removed, Changed
    <2>2. save \cup drop \in SUBSET Job
      BY <2>1, NewJobType
    <2>3. sweeps' = [sweeps EXCEPT ![d][s] =
              [[[@ EXCEPT !.phase = "handled"] EXCEPT !.seen = Written(d, s)]
                  EXCEPT !.jobs = save \cup drop]]
      BY <1>4 DEF PollHandled, TypeOK
    <2> HIDE DEF save, drop
    <2>4. [[[p EXCEPT !.phase = "handled"] EXCEPT !.seen = Written(d, s)]
                  EXCEPT !.jobs = save \cup drop] \in Sweep
      BY <1>1, <2>1, <2>2 DEF Sweep
    <2>5. QED
      BY <2>3, <2>4
  <1>5. CASE Compare(d, s)
    <2> DEFINE save == {NewJob(w, "save", "check") : w \in Missing(d, s)}
               drop == {NewJob(w, "delete", "check") : w \in Gone(d, s)}
               jobs == p.jobs \cup save \cup drop
    <2>1. Missing(d, s) \in SUBSET Wish /\ Gone(d, s) \in SUBSET Wish
      BY DEF Missing, Gone
    <2>2. jobs \in SUBSET Job
      BY <1>1, <2>1, NewJobType DEF Sweep
    <2>3. sweeps' = [sweeps EXCEPT ![d][s] =
              [[@ EXCEPT !.phase = "compared"] EXCEPT !.jobs = jobs]]
      BY <1>5 DEF Compare, TypeOK
    <2> HIDE DEF jobs
    <2>4. [[p EXCEPT !.phase = "compared"] EXCEPT !.jobs = jobs] \in Sweep
      BY <1>1, <2>2 DEF Sweep
    <2>5. QED
      BY <2>3, <2>4
  <1>6. CASE JobNext(d, s)
    <2>1. PICK j \in p.jobs : \/ JobFound(d, s, j) \/ JobNotFound(d, s, j)
                              \/ JobInserts(d, s, j) \/ JobDone(d, s, j)
      BY <1>6 DEF JobNext
    <2>2. j \in Job
      BY <1>1, <2>1 DEF Sweep
    <2>3. \E jobs \in SUBSET Job : sweeps' = [sweeps EXCEPT ![d][s].jobs = jobs]
      <3>1. CASE JobDone(d, s, j)
        <4>1. p.jobs \ {j} \in SUBSET Job
          BY <1>1 DEF Sweep
        <4>2. sweeps' = [sweeps EXCEPT ![d][s].jobs = p.jobs \ {j}]
          BY <3>1 DEF JobDone
        <4>3. QED
          BY <4>1, <4>2
      <3>2. CASE ~ JobDone(d, s, j)
        <4>1. PICK to \in {"callback", "insert"} : Advance(d, s, j, to)
          BY <2>1, <3>2 DEF JobFound, JobNotFound, JobInserts
        <4>2. [j EXCEPT !.step = to] \in Job
          BY <2>2 DEF Job
        <4>3. (p.jobs \ {j}) \cup {[j EXCEPT !.step = to]} \in SUBSET Job
          BY <1>1, <4>2 DEF Sweep
        <4>4. sweeps' = [sweeps EXCEPT ![d][s].jobs =
                             (p.jobs \ {j}) \cup {[j EXCEPT !.step = to]}]
          BY <4>1 DEF Advance
        <4>5. QED
          BY <4>3, <4>4
      <3>3. QED
        BY <3>1, <3>2
    <2>4. PICK jobs \in SUBSET Job : sweeps' = [sweeps EXCEPT ![d][s].jobs = jobs]
      BY <2>3
    <2>5. [p EXCEPT !.jobs = jobs] \in Sweep
      BY <1>1 DEF Sweep
    <2>6. sweeps' = [sweeps EXCEPT ![d][s] = [p EXCEPT !.jobs = jobs]]
      BY <2>4 DEF TypeOK
    <2>7. QED
      BY <2>5, <2>6
  <1>7. QED
    BY <1>2, <1>3, <1>4, <1>5, <1>6 DEF SweepNext, Answered

(* What a step of a sweep may do to the store: one entry of the device.     *)
LEMMA SweepStore ==
    ASSUME TypeOK, NEW d \in Device, NEW s \in Source, SweepNext(d, s)
    PROVE  \/ store' = store
           \/ \E w \in Wish, e \in Entry : store' = [store EXCEPT ![d][w] = e]
  <1>1. CASE JobNext(d, s)
    <2>1. PICK j \in sweeps[d][s].jobs : \/ JobFound(d, s, j) \/ JobNotFound(d, s, j)
                                         \/ JobInserts(d, s, j) \/ JobDone(d, s, j)
      BY <1>1 DEF JobNext
    <2>2. j.wish \in Wish /\ Snap(d, s)[j.wish].rev \in Nat
      <3>1. sweeps[d][s] \in Sweep
        BY DEF TypeOK
      <3>2. j \in Job /\ Snap(d, s) \in [Wish -> Doc]
        BY <3>1 DEF Sweep, Snap
      <3>3. QED
        BY <3>2 DEF Job, Doc
    <2>3. store[d][j.wish] \in Entry
      BY <2>2 DEF TypeOK
    <2>4. CASE JobDone(d, s, j) \/ JobNotFound(d, s, j)
      BY <2>4 DEF JobDone, JobNotFound
    <2>5. CASE JobFound(d, s, j)
      <3>1. CASE store' = [store EXCEPT ![d][j.wish] = Dropped(@)]
        BY <2>2, <2>3, <3>1, EntryType
      <3>2. CASE store' = [store EXCEPT ![d][j.wish].rev = Snap(d, s)[j.wish].rev]
        <4> DEFINE e == [store[d][j.wish] EXCEPT !.rev = Snap(d, s)[j.wish].rev]
        <4>1. e \in Entry
          BY <2>2, <2>3 DEF Entry
        <4>2. store' = [store EXCEPT ![d][j.wish] = e]
          BY <3>2
        <4>3. QED
          BY <2>2, <4>1, <4>2
      <3>3. QED
        BY <2>5, <3>1, <3>2 DEF JobFound
    <2>6. CASE JobInserts(d, s, j)
      <3> DEFINE e == Inserted(store[d][j.wish], Snap(d, s)[j.wish].rev)
      <3>1. e \in Entry
        BY <2>2, <2>3, EntryType
      <3>2. store' = [store EXCEPT ![d][j.wish] = e]
        BY <2>6 DEF JobInserts
      <3>3. QED
        BY <2>2, <3>1, <3>2
    <2>7. QED
      BY <2>1, <2>4, <2>5, <2>6
  <1>2. CASE ~ JobNext(d, s)
    BY <1>2 DEF SweepNext, Ask, AnswerFailed, Answered, PollIgnored, PollHandled,
                Compare, SweepDone
  <1>3. QED
    BY <1>1, <1>2

LEMMA SweepNextType ==
    ASSUME TypeOK, NEW d \in Device, NEW s \in Source, SweepNext(d, s)
    PROVE  TypeOK'
  <1>1. sweeps' \in [Device -> [Source -> Sweep]]
    BY SweepUpdate, SweepType
  <1>2. store' \in [Device -> [Wish -> Entry]]
    <2>1. CASE store' = store
      BY <2>1 DEF TypeOK
    <2>2. ASSUME NEW w \in Wish, NEW e \in Entry, store' = [store EXCEPT ![d][w] = e]
          PROVE  store' \in [Device -> [Wish -> Entry]]
      BY <2>2 DEF TypeOK
    <2>3. QED
      BY <2>1, <2>2, SweepStore
  <1>3. isLocalSyncing' \in [Device -> BOOLEAN] /\ faults' \in Nat
    <2>1. CASE PollHandled(d, s) \/ SweepDone(d, s)
      BY <2>1 DEF PollHandled, SweepDone, TypeOK, boundVars
    <2>2. CASE ~ (PollHandled(d, s) \/ SweepDone(d, s))
      <3>1. isLocalSyncing' = isLocalSyncing /\ faults' \in {faults, faults + 1}
        BY <2>2 DEF SweepNext, Ask, AnswerFailed, Answered, PollIgnored, Compare, JobNext,
                    JobFound, JobNotFound, JobInserts, JobDone, Advance, markVars, boundVars
      <3>2. QED
        BY <3>1 DEF TypeOK
    <2>3. QED
      BY <2>1, <2>2
  <1>4. previous' \in [Device -> [Wish -> Doc]] /\ first' \in [Device -> BOOLEAN]
    <2>1. CASE PollIgnored(d, s) \/ PollHandled(d, s)
      <3>1. Snap(d, s) \in [Wish -> Doc]
        BY DEF TypeOK, Sweep, Snap
      <3>2. /\ previous' = [previous EXCEPT ![d] = Snap(d, s)]
            /\ first' = [first EXCEPT ![d] = FALSE]
        BY <2>1 DEF PollIgnored, PollHandled, AnswerTaken
      <3>3. QED
        BY <3>1, <3>2 DEF TypeOK
    <2>2. CASE ~ (PollIgnored(d, s) \/ PollHandled(d, s))
      <3>1. previous' = previous /\ first' = first
        BY <2>2 DEF SweepNext, Ask, AnswerFailed, Answered, Compare, JobNext, JobFound,
                    JobNotFound, JobInserts, JobDone, Advance, SweepDone, pollVars
      <3>2. QED
        BY <3>1 DEF TypeOK
    <2>3. QED
      BY <2>1, <2>2
  <1>5. QED
    BY <1>1, <1>2, <1>3, <1>4, SweepLeaves DEF TypeOK

(* The types of all variables hold always.                                  *)
THEOREM TypeCorrect == Spec => []TypeOK
  <1>1. Init => TypeOK
    BY NoDocType, IdleSweepType DEF Init, TypeOK
  <1>2. TypeOK /\ [Next]_vars => TypeOK'
    <2> SUFFICES ASSUME TypeOK, [Next]_vars PROVE TypeOK'
      OBVIOUS
    <2>1. CASE UNCHANGED vars
      BY <2>1 DEF vars, TypeOK, serverVars, markVars, timerVars, pollVars, userVars, boundVars
    <2>2. QED
      BY <2>1, Steps, CallType, UserType, DeviceType, SweepNextType
  <1>3. QED
    BY <1>1, <1>2, PTL DEF Spec

-----------------------------------------------------------------------------
(* isLocalSyncing always has an owner.  FlagHasOwner is inductive, given    *)
(* the types: what can disturb it is a step that sets the flag, ends a      *)
(* batch or ends the work on an answer.                                     *)
Owns(q) == q.phase \in {"handled", "compared"}

(* Steps that do none of the three.                                         *)
LEMMA FlagUndisturbed ==
    ASSUME FlagHasOwner,
           \A d \in Device : isLocalSyncing'[d] => isLocalSyncing[d],
           batches' = batches,
           \A d \in Device, s \in Slot : Owns(sweeps[d][s]) => Owns(sweeps'[d][s])
    PROVE  FlagHasOwner'
  BY DEF FlagHasOwner, Owns

(* The observer: either it was deaf, and the owner of the flag is still     *)
(* there, or it leaves a batch.                                             *)
LEMMA FlagAfterSave ==
    ASSUME TypeOK, FlagHasOwner, NEW d \in Device, NEW ids \in SUBSET Wish,
           HandleContextDidSave(d, ids), sweeps' = sweeps
    PROVE  FlagHasOwner'
  <1> SUFFICES ASSUME NEW e \in Device, isLocalSyncing'[e]
               PROVE  \/ batches'[e] # {}
                      \/ \E s \in Slot : sweeps[e][s].phase \in {"handled", "compared"}
    BY DEF FlagHasOwner
  <1>1. CASE e # d
    BY <1>1 DEF FlagHasOwner, HandleContextDidSave, TypeOK
  <1>2. CASE e = d /\ isLocalSyncing[d]
    BY <1>2 DEF FlagHasOwner, HandleContextDidSave, Observed, TypeOK
  <1>3. CASE e = d /\ ~ isLocalSyncing[d]
    <2>1. [id |-> clock + 1, ids |-> ids] \in batches'[d]
      BY <1>3 DEF HandleContextDidSave, Observed, TypeOK
    <2>2. QED
      BY <1>3, <2>1
  <1>4. QED
    BY <1>1, <1>2, <1>3

(* The other sweeps are left alone.                                         *)
LEMMA OtherSweeps ==
    ASSUME TypeOK, NEW d \in Device, NEW s \in Source, SweepNext(d, s),
           NEW e \in Device, NEW c \in Source, e # d \/ c # s
    PROVE  sweeps'[e][c] = sweeps[e][c]
  <1>1. PICK q \in Sweep : sweeps' = [sweeps EXCEPT ![d][s] = q]
    BY SweepUpdate
  <1>2. QED
    BY <1>1 DEF TypeOK

LEMMA FlagSweepStep ==
    ASSUME TypeOK, FlagHasOwner, NEW d \in Device, NEW s \in Source, SweepNext(d, s)
    PROVE  FlagHasOwner'
  <1>1. Slot \subseteq Source /\ Refresh \notin Slot
    BY ConstantsAssumption DEF Source
  <1>2. batches' = batches
    BY SweepLeaves
  <1>3. \A e \in Device, c \in Slot :
            Owns(sweeps[e][c]) /\ (e # d \/ c # s) => Owns(sweeps'[e][c])
    BY <1>1, OtherSweeps
  <1>4. CASE Ask(d, s) \/ AnswerFailed(d, s) \/ PollIgnored(d, s)
    <2>1. ~ Owns(sweeps[d][s])
      BY <1>4 DEF Ask, AnswerFailed, PollIgnored, AnswerTaken, Asked, Owns
    <2>2. isLocalSyncing' = isLocalSyncing
      BY <1>4 DEF Ask, AnswerFailed, PollIgnored, markVars
    <2>3. QED
      BY <1>2, <1>3, <2>1, <2>2, FlagUndisturbed
  <1>5. CASE PollHandled(d, s)
    <2>1. s \in Slot /\ sweeps'[d][s].phase = "handled"
      BY <1>5 DEF PollHandled, AnswerTaken, TypeOK, Sweep
    <2>2. \A e \in Device : e # d => isLocalSyncing'[e] = isLocalSyncing[e]
      BY <1>5 DEF PollHandled, TypeOK
    <2>3. SUFFICES ASSUME NEW e \in Device, isLocalSyncing'[e]
                   PROVE  \/ batches'[e] # {}
                          \/ \E c \in Slot : sweeps'[e][c].phase \in {"handled", "compared"}
      BY DEF FlagHasOwner
    <2>4. CASE e = d
      BY <2>1, <2>4
    <2>5. CASE e # d
      BY <1>2, <1>3, <2>2, <2>3, <2>5 DEF FlagHasOwner, Owns
    <2>6. QED
      BY <2>4, <2>5
  <1>6. CASE Compare(d, s) \/ JobNext(d, s)
    <2>1. isLocalSyncing' = isLocalSyncing
      BY <1>6 DEF Compare, JobNext, JobFound, JobNotFound, JobInserts, JobDone,
                  Advance, markVars
    <2>2. Owns(sweeps[d][s]) => Owns(sweeps'[d][s])
      <3>1. CASE Compare(d, s)
        BY <3>1 DEF Compare, TypeOK, Sweep, Owns
      <3>2. CASE JobNext(d, s)
        <4>1. PICK jobs : sweeps' = [sweeps EXCEPT ![d][s].jobs = jobs]
          <5>1. PICK j : \/ JobFound(d, s, j) \/ JobNotFound(d, s, j)
                         \/ JobInserts(d, s, j) \/ JobDone(d, s, j)
            BY <3>2 DEF JobNext
          <5>2. CASE JobDone(d, s, j)
            BY <5>2 DEF JobDone
          <5>3. CASE ~ JobDone(d, s, j)
            BY <5>1, <5>3 DEF JobFound, JobNotFound, JobInserts, Advance
          <5>4. QED
            BY <5>2, <5>3
        <4>2. QED
          BY <4>1 DEF TypeOK, Sweep, Owns
      <3>3. QED
        BY <1>6, <3>1, <3>2
    <2>3. QED
      BY <1>2, <1>3, <2>1, <2>2, FlagUndisturbed
  <1>7. CASE SweepDone(d, s)
    <2>1. \A e \in Device : isLocalSyncing'[e] = (isLocalSyncing[e] /\ (e = d => s = Refresh))
      BY <1>7 DEF SweepDone, TypeOK
    <2>2. SUFFICES ASSUME NEW e \in Device, isLocalSyncing'[e]
                   PROVE  \/ batches'[e] # {}
                          \/ \E c \in Slot : sweeps'[e][c].phase \in {"handled", "compared"}
      BY DEF FlagHasOwner
    <2>3. isLocalSyncing[e] /\ \A c \in Slot : e # d \/ c # s
      BY <1>1, <2>1, <2>2
    <2>4. QED
      BY <1>2, <1>3, <2>3 DEF FlagHasOwner, Owns
  <1>8. QED
    BY <1>4, <1>5, <1>6, <1>7 DEF SweepNext, Answered

LEMMA FlagStep == TypeOK /\ FlagHasOwner /\ [Next]_vars => FlagHasOwner'
  <1> SUFFICES ASSUME TypeOK, FlagHasOwner, [Next]_vars PROVE FlagHasOwner'
    OBVIOUS
  <1>1. ASSUME NEW r \in requests, Served(r) \/ AnswerLost(r) \/ Failed(r)
        PROVE  FlagHasOwner'
    BY <1>1, FlagUndisturbed DEF Served, AnswerLost, Failed, markVars, timerVars
  <1>2. ASSUME NEW d \in Device, NEW w \in Wish,
               AddModel(d, w) \/ PointsupdateItem(d, w) \/ DeleteModel(d, w)
        PROVE  FlagHasOwner'
    <2>1. CASE AddModel(d, w)
      BY <2>1, FlagAfterSave DEF AddModel
    <2>2. CASE PointsupdateItem(d, w)
      BY <2>2, FlagUndisturbed DEF PointsupdateItem, markVars
    <2>3. CASE DeleteModel(d, w)
      BY <2>3, FlagAfterSave DEF DeleteModel
    <2>4. QED
      BY <1>2, <2>1, <2>2, <2>3
  <1>3. ASSUME NEW d \in Device, OtherSave(d) \/ TimerNext(d) \/ Restart(d)
        PROVE  FlagHasOwner'
    <2>1. CASE OtherSave(d)
      BY <2>1, FlagAfterSave DEF OtherSave
    <2>2. ASSUME NEW e \in edited[d], PointsupdateItemSaved(d, e) PROVE FlagHasOwner'
      BY <2>2, FlagUndisturbed DEF PointsupdateItemSaved
    <2>3. ASSUME NEW u \in unmarks[d], UnmarkDeleted(d, u) PROVE FlagHasOwner'
      BY <2>3, FlagUndisturbed DEF UnmarkDeleted
    <2>4. ASSUME NEW b \in batches[d], BatchDone(d, b) PROVE FlagHasOwner'
      BY <2>4 DEF BatchDone, FlagHasOwner, TypeOK
    <2>5. CASE Restart(d)
      BY <2>5 DEF Restart, FlagHasOwner, TypeOK
    <2>6. QED
      BY <1>3, <2>1, <2>2, <2>3, <2>4, <2>5 DEF TimerNext
  <1>4. CASE UNCHANGED vars
    BY <1>4, FlagUndisturbed DEF vars, markVars, timerVars
  <1>5. QED
    BY <1>1, <1>2, <1>3, <1>4, Steps, FlagSweepStep

(* The observer of local saves is never left deaf for good: whenever the    *)
(* flag is set, the timer of a save or an answer that is worked off will    *)
(* clear it, whatever the refreshes of the page do meanwhile.               *)
THEOREM FlagAlwaysOwned == Spec => []FlagHasOwner
  <1>1. Init => FlagHasOwner
    BY DEF Init, FlagHasOwner
  <1>2. QED
    BY <1>1, FlagStep, TypeCorrect, PTL DEF Spec

-----------------------------------------------------------------------------
(* deletingWishIds.  DeleteMarkHasOwner is inductive, given the types: a    *)
(* mark is added with its request, a request that leaves takes the mark     *)
(* along or hands it to a timer, and a timer takes it along.                *)
LEMMA DeleteMarkUndisturbed ==
    ASSUME DeleteMarkHasOwner,
           deletingWishIds' = deletingWishIds,
           unmarks' = unmarks,
           requests \subseteq requests'
    PROVE  DeleteMarkHasOwner'
  BY DEF DeleteMarkHasOwner

LEMMA DeleteMarkCallStep ==
    ASSUME TypeOK, DeleteMarkHasOwner, NEW r \in requests,
           Served(r) \/ AnswerLost(r) \/ Failed(r)
    PROVE  DeleteMarkHasOwner'
  <1>1. r \in Request /\ r.dev \in Device
    BY DEF TypeOK, Request
  <1>2. CASE Served(r)
    <2>1. \A e \in Device : unmarks[e] \subseteq unmarks'[e]
      BY <1>1, <1>2 DEF Served, TypeOK
    <2>2. r.op = "delete" => r \in unmarks'[r.dev]
      BY <1>1, <1>2 DEF Served, TypeOK
    <2>3. requests' = requests \ {r} /\ deletingWishIds' = deletingWishIds
      BY <1>2 DEF Served, markVars
    <2>4. QED
      BY <2>1, <2>2, <2>3 DEF DeleteMarkHasOwner
  <1>3. CASE AnswerLost(r)
    <2> DEFINE l == [r EXCEPT !.state = "lost"]
    <2>1. l.dev = r.dev /\ l.op = r.op /\ l.wish = r.wish
      BY <1>1 DEF Request
    <2>2. requests' = (requests \ {r}) \cup {l}
      BY <1>3 DEF AnswerLost
    <2>3. deletingWishIds' = deletingWishIds /\ unmarks' = unmarks
      BY <1>3 DEF AnswerLost, markVars, timerVars
    <2> HIDE DEF l
    <2>4. \A q \in requests : \E p \in requests' :
              p.dev = q.dev /\ p.op = q.op /\ p.wish = q.wish
      BY <2>1, <2>2
    <2>5. QED
      BY <2>3, <2>4 DEF DeleteMarkHasOwner
  <1>4. CASE Failed(r)
    <2>1. requests' = requests \ {r} /\ unmarks' = unmarks
      BY <1>4 DEF Failed, timerVars
    <2>2. \A e \in Device : deletingWishIds'[e] \subseteq deletingWishIds[e]
      BY <1>4 DEF Failed, MarkTakenBack, TypeOK
    <2>3. r.op = "delete" => r.wish \notin deletingWishIds'[r.dev]
      BY <1>1, <1>4 DEF Failed, MarkTakenBack, TypeOK
    <2>4. QED
      BY <2>1, <2>2, <2>3 DEF DeleteMarkHasOwner
  <1>5. QED
    BY <1>2, <1>3, <1>4

LEMMA DeleteMarkStep == TypeOK /\ DeleteMarkHasOwner /\ [Next]_vars => DeleteMarkHasOwner'
  <1> SUFFICES ASSUME TypeOK, DeleteMarkHasOwner, [Next]_vars
               PROVE  DeleteMarkHasOwner'
    OBVIOUS
  <1>1. ASSUME NEW d \in Device, NEW w \in Wish,
               AddModel(d, w) \/ PointsupdateItem(d, w) \/ DeleteModel(d, w)
        PROVE  DeleteMarkHasOwner'
    <2>1. CASE AddModel(d, w) \/ PointsupdateItem(d, w)
      BY <2>1, DeleteMarkUndisturbed DEF AddModel, PointsupdateItem, markVars
    <2>2. CASE DeleteModel(d, w)
      <3> DEFINE r == Write(d, "delete", w, 0, clock + 1)
      <3>1. requests' = requests \cup Observed(d, {r}) /\ unmarks' = unmarks
        BY <2>2 DEF DeleteModel
      <3>2. \A e \in Device : \A x \in deletingWishIds'[e] :
                x \in deletingWishIds[e] \/ (e = d /\ x \in Observed(d, {w}))
        BY <2>2 DEF DeleteModel, TypeOK
      <3>3. r.dev = d /\ r.op = "delete" /\ r.wish = w
        BY DEF Write
      <3>4. CASE isLocalSyncing[d]
        BY <3>1, <3>2, <3>4 DEF Observed, DeleteMarkHasOwner
      <3>5. CASE ~ isLocalSyncing[d]
        <4>1. r \in requests' /\ requests \subseteq requests'
          BY <3>1, <3>5 DEF Observed
        <4>2. QED
          BY <3>1, <3>2, <3>3, <3>5, <4>1 DEF Observed, DeleteMarkHasOwner
      <3>6. QED
        BY <3>4, <3>5
    <2>3. QED
      BY <1>1, <2>1, <2>2
  <1>2. ASSUME NEW d \in Device, OtherSave(d) \/ TimerNext(d) \/ Restart(d)
        PROVE  DeleteMarkHasOwner'
    <2>1. CASE OtherSave(d)
      BY <2>1, DeleteMarkUndisturbed DEF OtherSave
    <2>2. ASSUME NEW e \in edited[d], PointsupdateItemSaved(d, e) PROVE DeleteMarkHasOwner'
      <3>1. requests \subseteq requests'
        BY <2>2 DEF PointsupdateItemSaved
      <3>2. QED
        BY <2>2, <3>1, DeleteMarkUndisturbed DEF PointsupdateItemSaved
    <2>3. ASSUME NEW u \in unmarks[d], UnmarkDeleted(d, u) PROVE DeleteMarkHasOwner'
      <3>1. \A e \in Device : deletingWishIds'[e] =
                IF e = d THEN deletingWishIds[e] \ {u.wish} ELSE deletingWishIds[e]
        BY <2>3 DEF UnmarkDeleted, TypeOK
      <3>2. \A e \in Device : unmarks'[e] = IF e = d THEN unmarks[e] \ {u} ELSE unmarks[e]
        BY <2>3 DEF UnmarkDeleted, TypeOK
      <3>3. requests' = requests
        BY <2>3 DEF UnmarkDeleted
      <3>4. ASSUME NEW e \in Device, NEW w \in deletingWishIds'[e],
                   ~ \E r \in requests : r.dev = e /\ r.op = "delete" /\ r.wish = w
            PROVE  \E v \in unmarks'[e] : v.wish = w
        <4>1. w \in deletingWishIds[e] /\ (e = d => w # u.wish)
          BY <3>1
        <4>2. PICK v \in unmarks[e] : v.wish = w
          BY <3>4, <4>1 DEF DeleteMarkHasOwner
        <4>3. QED
          BY <3>2, <4>1, <4>2
      <3>5. QED
        BY <3>3, <3>4 DEF DeleteMarkHasOwner
    <2>4. ASSUME NEW b \in batches[d], BatchDone(d, b) PROVE DeleteMarkHasOwner'
      BY <2>4, DeleteMarkUndisturbed DEF BatchDone
    <2>5. CASE Restart(d)
      <3>1. \A e \in Device : deletingWishIds'[e] = IF e = d THEN {} ELSE deletingWishIds[e]
        BY <2>5 DEF Restart, TypeOK
      <3>2. \A e \in Device : e # d => unmarks'[e] = unmarks[e]
        BY <2>5 DEF Restart, TypeOK
      <3>3. requests' = {r \in requests : r.dev # d}
        BY <2>5 DEF Restart
      <3>4. QED
        BY <3>1, <3>2, <3>3 DEF DeleteMarkHasOwner
    <2>6. QED
      BY <1>2, <2>1, <2>2, <2>3, <2>4, <2>5 DEF TimerNext
  <1>3. ASSUME NEW d \in Device, NEW s \in Source, SweepNext(d, s)
        PROVE  DeleteMarkHasOwner'
    BY <1>3, SweepLeaves, DeleteMarkUndisturbed
  <1>4. CASE UNCHANGED vars
    BY <1>4, DeleteMarkUndisturbed DEF vars, markVars, timerVars
  <1>5. QED
    BY <1>1, <1>2, <1>3, <1>4, Steps, DeleteMarkCallStep

(* No delete, however it ends, leaves its wish marked for good: the         *)
(* comparison would never remove it again when the partner deletes it.      *)
THEOREM DeleteMarkAlwaysOwned == Spec => []DeleteMarkHasOwner
  <1>1. Init => DeleteMarkHasOwner
    BY DEF Init, DeleteMarkHasOwner
  <1>2. QED
    BY <1>1, DeleteMarkStep, TypeCorrect, PTL DEF Spec

-----------------------------------------------------------------------------
(* A wish handed to the observer stays in the collection or on its way.     *)
(* The invariant also has to say that only deleted wishes have a delete on  *)
(* its way, and that without a fault every request is still unanswered.     *)
DeletesAreOfDeleted == \A r \in requests : r.op = "delete" => r.wish \in deleted
LostOnlyByFault     == faults = 0 => \A r \in requests : r.state = "sent"
KeptInv == HandedOverIsKept /\ DeletesAreOfDeleted /\ LostOnlyByFault

(* Steps that neither touch the collection nor take a request away, and add *)
(* only requests of the two kinds the invariant allows.                     *)
LEMMA KeptUndisturbed ==
    ASSUME KeptInv,
           server' = server,
           handedOver' = handedOver,
           deleted \subseteq deleted',
           faults' = faults, restarts' = restarts,
           requests \subseteq requests',
           \A r \in requests' \ requests :
               r.state = "sent" /\ (r.op = "delete" => r.wish \in deleted')
    PROVE  KeptInv'
  BY DEF KeptInv, HandedOverIsKept, DeletesAreOfDeleted, LostOnlyByFault

(* Once a call has failed nothing is promised.                              *)
LEMMA KeptNoMore ==
    ASSUME KeptInv,
           faults' # 0,
           deleted' = deleted,
           \A r \in requests' : \E p \in requests : r.op = p.op /\ r.wish = p.wish
    PROVE  KeptInv'
  BY DEF KeptInv, HandedOverIsKept, DeletesAreOfDeleted, LostOnlyByFault

LEMMA KeptCallStep ==
    ASSUME TypeOK, KeptInv, NEW r \in requests,
           Served(r) \/ AnswerLost(r) \/ Failed(r)
    PROVE  KeptInv'
  <1>1. r \in Request /\ r.wish \in Wish /\ r.op \in {"set", "delete"}
    BY DEF TypeOK, Request
  <1>2. CASE Served(r)
    <2>1. /\ requests' = requests \ {r}
          /\ handedOver' = handedOver /\ deleted' = deleted
          /\ faults' = faults /\ restarts' = restarts
      BY <1>2 DEF Served, userVars, boundVars
    <2>2. \A w \in Wish : w # r.wish => server'[w] = server[w]
      BY <1>2 DEF Served, Effect, TypeOK
    <2>3. r.op = "set" => server'[r.wish] # NoDoc
      <3> DEFINE doc == [rev |-> r.rev, stamp |-> writes + 1]
      <3>1. SUFFICES ASSUME r.op = "set" PROVE server'[r.wish] # NoDoc
        OBVIOUS
      <3>2. doc # NoDoc
        BY DEF NoDoc, TypeOK
      <3>3. server' = [server EXCEPT ![r.wish] = doc]
        BY <1>2, <3>1 DEF Served, Effect
      <3> HIDE DEF doc
      <3>4. QED
        BY <1>1, <3>2, <3>3 DEF TypeOK
    <2>4. r.op = "delete" => r.wish \in deleted
      BY DEF KeptInv, DeletesAreOfDeleted
    <2>5. HandedOverIsKept'
      <3>1. SUFFICES ASSUME faults = 0, restarts = 0, NEW w \in handedOver \ deleted
                     PROVE  \/ server'[w] # NoDoc
                            \/ \E q \in requests \ {r} :
                                   q.wish = w /\ q.op = "set" /\ q.state = "sent"
        BY <2>1 DEF HandedOverIsKept
      <3>2. w \in Wish
        BY DEF TypeOK
      <3>3. CASE w = r.wish
        BY <1>1, <2>3, <2>4, <3>3
      <3>4. CASE w # r.wish
        BY <2>2, <3>1, <3>2, <3>4 DEF KeptInv, HandedOverIsKept
      <3>5. QED
        BY <3>3, <3>4
    <2>6. QED
      BY <2>1, <2>5 DEF KeptInv, DeletesAreOfDeleted, LostOnlyByFault
  <1>3. CASE AnswerLost(r)
    <2> DEFINE l == [r EXCEPT !.state = "lost"]
    <2>1. faults' # 0
      BY <1>3 DEF AnswerLost, TypeOK
    <2>2. l.op = r.op /\ l.wish = r.wish
      BY <1>1 DEF Request
    <2>3. requests' = (requests \ {r}) \cup {l} /\ deleted' = deleted
      BY <1>3 DEF AnswerLost, userVars
    <2> HIDE DEF l
    <2>4. \A q \in requests' : \E p \in requests : q.op = p.op /\ q.wish = p.wish
      BY <2>2, <2>3
    <2>5. QED
      BY <2>1, <2>3, <2>4, KeptNoMore
  <1>4. CASE Failed(r)
    <2>1. requests' = requests \ {r} /\ deleted' = deleted
      BY <1>4 DEF Failed, userVars
    <2>2. faults' # 0
      BY <1>4 DEF Failed, TypeOK, KeptInv, LostOnlyByFault
    <2>3. QED
      BY <2>1, <2>2, KeptNoMore
  <1>5. QED
    BY <1>2, <1>3, <1>4

LEMMA KeptStep == TypeOK /\ KeptInv /\ [Next]_vars => KeptInv'
  <1> SUFFICES ASSUME TypeOK, KeptInv, [Next]_vars PROVE KeptInv'
    OBVIOUS
  <1>1. \A d, op, w, rev, group :
            LET r == Write(d, op, w, rev, group) IN
            r.op = op /\ r.wish = w /\ r.state = "sent"
    BY DEF Write
  <1>2. ASSUME NEW d \in Device, NEW w \in Wish, AddModel(d, w) PROVE KeptInv'
    <2> DEFINE r == Write(d, "set", w, clock + 1, clock + 1)
    <2>1. /\ requests' = requests \cup Observed(d, {r})
          /\ handedOver' = handedOver \cup Observed(d, {w})
          /\ server' = server /\ deleted' = deleted
          /\ faults' = faults /\ restarts' = restarts
      BY <1>2 DEF AddModel, serverVars, boundVars
    <2>2. QED
      BY <1>1, <2>1
      DEF Observed, KeptInv, HandedOverIsKept, DeletesAreOfDeleted, LostOnlyByFault
  <1>3. ASSUME NEW d \in Device, NEW w \in Wish, PointsupdateItem(d, w) PROVE KeptInv'
    BY <1>3, KeptUndisturbed DEF PointsupdateItem, serverVars, userVars, boundVars
  <1>4. ASSUME NEW d \in Device, NEW w \in Wish, DeleteModel(d, w) PROVE KeptInv'
    <2> DEFINE r == Write(d, "delete", w, 0, clock + 1)
    <2>1. /\ requests' = requests \cup Observed(d, {r})
          /\ deleted' = deleted \cup {w} /\ handedOver' = handedOver
          /\ server' = server /\ faults' = faults /\ restarts' = restarts
      BY <1>4 DEF DeleteModel, serverVars, boundVars
    <2>2. r.wish = w /\ r.state = "sent"
      BY <1>1
    <2> HIDE DEF r
    <2>3. QED
      BY <2>1, <2>2, KeptUndisturbed DEF Observed
  <1>5. ASSUME NEW d \in Device, OtherSave(d) PROVE KeptInv'
    BY <1>5, KeptUndisturbed DEF OtherSave, serverVars, userVars, boundVars
  <1>6. ASSUME NEW d \in Device, TimerNext(d) PROVE KeptInv'
    <2>1. /\ requests \subseteq requests'
          /\ server' = server /\ handedOver' = handedOver /\ deleted' = deleted
          /\ faults' = faults /\ restarts' = restarts
      BY <1>6 DEF TimerNext, PointsupdateItemSaved, UnmarkDeleted, BatchDone,
                  serverVars, userVars, boundVars
    <2>2. \A r \in requests' \ requests : r.state = "sent" /\ r.op = "set"
      BY <1>1, <1>6 DEF TimerNext, PointsupdateItemSaved, UnmarkDeleted, BatchDone
    <2>3. QED
      BY <2>1, <2>2, KeptUndisturbed
  <1>7. ASSUME NEW d \in Device, Restart(d) PROVE KeptInv'
    <2>1. restarts' # 0 /\ faults' = faults /\ deleted' = deleted
      BY <1>7 DEF Restart, TypeOK, userVars
    <2>2. requests' \subseteq requests
      BY <1>7 DEF Restart
    <2>3. QED
      BY <2>1, <2>2
      DEF KeptInv, HandedOverIsKept, DeletesAreOfDeleted, LostOnlyByFault
  <1>8. ASSUME NEW d \in Device, NEW s \in Source, SweepNext(d, s) PROVE KeptInv'
    <2>1. /\ requests' = requests /\ server' = server /\ handedOver' = handedOver
          /\ deleted' = deleted /\ restarts' = restarts
      BY <1>8, SweepLeaves
    <2>2. faults' = faults \/ faults' # 0
      <3>1. CASE AnswerFailed(d, s)
        BY <3>1 DEF AnswerFailed, TypeOK
      <3>2. CASE ~ AnswerFailed(d, s)
        BY <1>8, <3>2
        DEF SweepNext, Ask, Answered, PollIgnored, PollHandled, Compare, JobNext, JobFound,
            JobNotFound, JobInserts, JobDone, Advance, SweepDone, boundVars
      <3>3. QED
        BY <3>1, <3>2
    <2>3. CASE faults' = faults
      <3>1. \A r \in requests' \ requests : FALSE
        BY <2>1
      <3>2. QED
        BY <2>1, <2>3, <3>1, KeptUndisturbed
    <2>4. CASE faults' # 0
      BY <2>1, <2>4, KeptNoMore
    <2>5. QED
      BY <2>2, <2>3, <2>4
  <1>9. CASE UNCHANGED vars
    BY <1>9, KeptUndisturbed DEF vars, serverVars, userVars, boundVars
  <1>10. QED
    BY <1>2, <1>3, <1>4, <1>5, <1>6, <1>7, <1>8, <1>9, Steps, KeptCallStep

(* No comparison, on either phone, and no partner's edit loses a wish that  *)
(* the observer has taken over: it is in the collection or on its way as    *)
(* long as nobody deletes it, no call fails and no process dies.            *)
THEOREM HandedOverAlwaysKept == Spec => []HandedOverIsKept
  <1>1. Init => KeptInv
    BY DEF Init, KeptInv, HandedOverIsKept, DeletesAreOfDeleted, LostOnlyByFault
  <1>2. KeptInv => HandedOverIsKept
    BY DEF KeptInv
  <1>3. QED
    BY <1>1, <1>2, KeptStep, TypeCorrect, PTL DEF Spec
================================================================================
