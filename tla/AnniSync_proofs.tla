---------------------------- MODULE AnniSync_proofs ----------------------------
(***************************************************************************)
(* Proofs about AnniSync, for any number of devices, anniversaries, saves, *)
(* failures and restarts: the types; that isLocalSyncing is a lock with    *)
(* one holder and that the holder makes up for dropped answers; and that   *)
(* an anniversary its user has stopped sharing stays on the phone.         *)
(***************************************************************************)
EXTENDS AnniSync, TLAPS

(* The type invariant in parts.  A write carries a revision.               *)
ServerTyped == server \in [Anni -> Doc] /\ writes \in Nat

StoreTyped ==
    /\ clock \in Nat /\ saves \in Nat
    /\ linked \in [Device -> BOOLEAN]
    /\ store \in [Device -> [Anni -> Entry]]

LockTyped ==
    /\ isLocalSyncing \in [Device -> BOOLEAN]
    /\ pendingPull \in [Device -> BOOLEAN]
    /\ work \in [Device -> SUBSET Work]

SetsWrite == \A r \in requests : r.op = "set" => r.rev # 0

CallsTyped ==
    /\ retain \in [Device -> SUBSET Anni]
    /\ edited \in [Device -> SUBSET [anni : Anni, seq : Nat]]
    /\ requests \in SUBSET Request
    /\ SetsWrite

PollTyped ==
    /\ poll \in [Device -> [sent : BOOLEAN, snap : [Anni -> Doc]]]
    /\ previous \in [Device -> [Anni -> Doc]]
    /\ first \in [Device -> BOOLEAN]
    /\ relisten \in [Device -> BOOLEAN]

HistoryTyped ==
    /\ used \in SUBSET Anni
    /\ touched \in [Device -> SUBSET Anni]
    /\ private \in [Device -> SUBSET Anni]
    /\ gaveUp \in [Device -> BOOLEAN]
    /\ faults \in Nat /\ restarts \in Nat

Typed ==
    ServerTyped /\ StoreTyped /\ LockTyped /\ CallsTyped /\ PollTyped /\ HistoryTyped

(* The parts imply the type invariant.                                     *)
LEMMA TypedIsTypeOK == Typed => TypeOK
  BY DEF Typed, TypeOK, ServerTyped, StoreTyped, LockTyped, CallsTyped, PollTyped, HistoryTyped

LEMMA InitTyped == Init => Typed
<1> SUFFICES ASSUME Init PROVE Typed
  OBVIOUS
<1>1. NoDoc \in Doc /\ NoDocs \in [Anni -> Doc]
  BY DEF Doc, NoDocs
<1>2. NoEntry \in Entry
  BY DEF Entry
<1> QED BY <1>1, <1>2 DEF Init, Idle, Typed, ServerTyped, StoreTyped, LockTyped, CallsTyped,
          SetsWrite, PollTyped, HistoryTyped

(* What a document and an entry hold.                                      *)
LEMMA DocFields ==
  \A x \in Doc : /\ x.rev \in Nat /\ x.stamp \in Nat
                 /\ x # NoDoc => x.rev # 0
  BY DEF Doc, NoDoc

LEMMA NewDoc ==
  \A rev \in Nat \ {0}, stamp \in Nat \ {0} :
      [rev |-> rev, stamp |-> stamp] \in Doc /\ [rev |-> rev, stamp |-> stamp] # NoDoc
  BY DEF Doc, NoDoc

LEMMA EntryFields ==
  \A x \in Entry : /\ x.rev \in Nat /\ x.isShared \in BOOLEAN
                   /\ x # NoEntry => x.rev # 0
                   /\ x.isShared => x # NoEntry
<1>1. NoEntry.rev = 0 /\ NoEntry.isShared = FALSE
  BY DEF NoEntry
<1>2. \A x \in [rev : Nat \ {0}, isShared : BOOLEAN] : x.rev \in Nat \ {0} /\ x.isShared \in BOOLEAN
  OBVIOUS
<1>3. \A x \in Entry : x = NoEntry \/ x \in [rev : Nat \ {0}, isShared : BOOLEAN]
  BY DEF Entry
<1> HIDE DEF NoEntry
<1>4. \A x \in Entry : x.rev \in Nat /\ (x # NoEntry => x.rev # 0)
  BY <1>1, <1>2, <1>3
<1>5. \A x \in Entry : x.isShared \in BOOLEAN /\ (x.isShared => x # NoEntry)
  BY <1>1, <1>2, <1>3, Zenon
<1> QED BY <1>4, <1>5

LEMMA NewEntry ==
  \A rev \in Nat \ {0}, b \in BOOLEAN :
      [rev |-> rev, isShared |-> b] \in Entry /\ [rev |-> rev, isShared |-> b] # NoEntry
  BY DEF Entry, NoEntry

(* The kinds of work.                                                      *)
LEMMA WorkKinds ==
  /\ \A v \in Work : v.kind \in {"upload", "asked", "pulled", "apply"}
  /\ \A v \in Work : v.kind = "apply" => v.jobs \in SUBSET Job
  /\ \A v \in Work : v.kind = "pulled" => v.snap \in [Anni -> Doc]
  /\ \A jobs \in SUBSET Job : Apply(jobs) \in Work
  /\ Pull \in Work
  /\ \A snap \in [Anni -> Doc] : [kind |-> "pulled", snap |-> snap] \in Work
<1>1. \A v \in Work : \/ v \in [kind : {"upload"}, id : Nat]
                      \/ v \in [kind : {"asked"}]
                      \/ v \in [kind : {"pulled"}, snap : [Anni -> Doc]]
                      \/ v \in [kind : {"apply"}, jobs : SUBSET Job]
  BY DEF Work
<1>2. \A v \in [kind : {"upload"}, id : Nat] : v.kind = "upload"
  OBVIOUS
<1>3. \A v \in [kind : {"asked"}] : v.kind = "asked"
  OBVIOUS
<1>4. \A v \in [kind : {"pulled"}, snap : [Anni -> Doc]] :
          v.kind = "pulled" /\ v.snap \in [Anni -> Doc]
  OBVIOUS
<1>5. \A v \in [kind : {"apply"}, jobs : SUBSET Job] : v.kind = "apply" /\ v.jobs \in SUBSET Job
  OBVIOUS
<1>6. \A jobs \in SUBSET Job : Apply(jobs) \in [kind : {"apply"}, jobs : SUBSET Job]
  BY DEF Apply
<1>7. Pull \in [kind : {"asked"}]
  BY DEF Pull
<1>8. \A snap \in [Anni -> Doc] :
          [kind |-> "pulled", snap |-> snap] \in [kind : {"pulled"}, snap : [Anni -> Doc]]
  OBVIOUS
<1> HIDE DEF Apply, Pull
<1> QED BY <1>1, <1>2, <1>3, <1>4, <1>5, <1>6, <1>7, <1>8 DEF Work
-----------------------------------------------------------------------------
(* The types, step by step.                                                *)
LEMMA HandleTyped ==
  ASSUME LockTyped, clock \in Nat, NEW d \in Device, HandleContextDidSave(d), UNCHANGED pendingPull
  PROVE  LockTyped'
<1>1. Upload \in [kind : {"upload"}, id : Nat]
  BY DEF Upload
<1>2. Upload \in Work
  BY <1>1 DEF Work
<1> HIDE DEF Upload
<1>3. work' \in [Device -> SUBSET Work]
  BY <1>2 DEF LockTyped, HandleContextDidSave, Observed
<1> QED BY <1>3 DEF LockTyped, HandleContextDidSave

LEMMA WriteTyped ==
  ASSUME NEW d \in Device, NEW op \in {"set", "delete"}, NEW a \in Anni,
         NEW rev \in Nat, NEW group \in Nat, NEW seq \in Nat
  PROVE  /\ Write(d, op, a, rev, group, seq) \in Request
         /\ Write(d, op, a, rev, group, seq).dev = d
         /\ Write(d, op, a, rev, group, seq).op = op
         /\ Write(d, op, a, rev, group, seq).anni = a
         /\ Write(d, op, a, rev, group, seq).rev = rev
         /\ Write(d, op, a, rev, group, seq).state = "sent"
  BY DEF Write, Request

LEMMA CoupleDidLinkTyped ==
  ASSUME Typed, NEW d \in Device, CoupleDidLink(d) PROVE Typed'
<1> USE DEF Typed
<1>1. Day \in Anni
  BY ConstantsAssumption
<1>2. ServerTyped' /\ PollTyped'
  BY DEF CoupleDidLink, ServerTyped, PollTyped, serverVars, listenVars
<1>3. CASE UNCHANGED <<clock, store, isLocalSyncing, work, requests, used>>
  BY <1>2, <1>3 DEF CoupleDidLink, StoreTyped, LockTyped, CallsTyped, SetsWrite, HistoryTyped, boundVars
<1>4. CASE /\ Save
           /\ store' = [store EXCEPT ![d][Day] = [rev |-> clock + 1, isShared |-> TRUE]]
           /\ HandleContextDidSave(d)
           /\ requests' = requests \cup {Write(d, "set", Day, clock + 1, 0, clock + 1)}
                 \cup Observed(d, {Write(d, "set", Day, clock + 1, clock + 1, clock + 1)})
           /\ used' = used \cup {Day}
  <2>1. clock \in Nat /\ clock + 1 \in Nat \ {0}
    BY DEF StoreTyped
  <2>2. LockTyped'
    BY <1>4, <2>1, HandleTyped DEF CoupleDidLink
  <2>3. StoreTyped'
    BY <1>1, <1>4, <2>1, NewEntry DEF CoupleDidLink, Save, StoreTyped
  <2>4. \A g \in {0, clock + 1} : LET r == Write(d, "set", Day, clock + 1, g, clock + 1)
                                  IN  r \in Request /\ r.rev # 0
    BY <1>1, <2>1, WriteTyped
  <2>5. CallsTyped'
    BY <1>4, <2>4 DEF CoupleDidLink, CallsTyped, SetsWrite, Observed
  <2>6. HistoryTyped'
    BY <1>1, <1>4 DEF CoupleDidLink, HistoryTyped, boundVars
  <2> QED BY <1>2, <2>2, <2>3, <2>5, <2>6
<1> QED BY <1>3, <1>4 DEF CoupleDidLink

LEMMA SavesTyped ==
  ASSUME StoreTyped, Saves
  PROVE  clock \in Nat /\ clock' = clock + 1 /\ clock' \in Nat \ {0} /\ saves' \in Nat
  BY DEF StoreTyped, Saves, Save

LEMMA AddModelTyped ==
  ASSUME Typed, NEW d \in Device, NEW a \in Anni, NEW shared \in BOOLEAN, AddModel(d, a, shared)
  PROVE  Typed'
<1> USE DEF Typed
<1>1. clock \in Nat /\ clock' = clock + 1 /\ clock' \in Nat \ {0} /\ saves' \in Nat
  BY SavesTyped DEF AddModel, UserMay
<1>2. ServerTyped' /\ PollTyped'
  BY DEF AddModel, ServerTyped, PollTyped, serverVars, listenVars
<1>3. LockTyped'
  BY <1>1, HandleTyped DEF AddModel
<1>4. StoreTyped'
  BY <1>1, NewEntry DEF AddModel, StoreTyped
<1>5. LET r == Write(d, "set", a, clock + 1, clock + 1, clock + 1) IN r \in Request /\ r.rev # 0
  BY <1>1, WriteTyped
<1>6. CallsTyped'
  BY <1>5 DEF AddModel, CallsTyped, SetsWrite, Observed
<1>7. HistoryTyped'
  BY DEF AddModel, HistoryTyped, boundVars
<1> QED BY <1>2, <1>3, <1>4, <1>6, <1>7

LEMMA AnniupdateItemTyped ==
  ASSUME Typed, NEW d \in Device, NEW a \in Anni, NEW shared \in BOOLEAN, AnniupdateItem(d, a, shared)
  PROVE  Typed'
<1> USE DEF Typed
<1>1. clock \in Nat /\ clock' = clock + 1 /\ clock' \in Nat \ {0} /\ saves' \in Nat
  BY SavesTyped DEF AnniupdateItem, UserMay
<1>2. ServerTyped' /\ PollTyped' /\ LockTyped'
  BY DEF AnniupdateItem, ServerTyped, PollTyped, LockTyped, serverVars, listenVars, lockVars
<1>3. StoreTyped'
  BY <1>1, NewEntry DEF AnniupdateItem, StoreTyped
<1>4. CallsTyped'
  BY <1>1 DEF AnniupdateItem, CallsTyped, SetsWrite
<1>5. HistoryTyped'
  BY DEF AnniupdateItem, HistoryTyped, boundVars
<1> QED BY <1>2, <1>3, <1>4, <1>5

LEMMA AnniupdateItemSavedTyped ==
  ASSUME Typed, NEW d \in Device, NEW e \in edited[d], AnniupdateItemSaved(d, e)
  PROVE  Typed'
<1> USE DEF Typed
<1>1. ServerTyped' /\ StoreTyped' /\ LockTyped' /\ PollTyped' /\ HistoryTyped'
  BY DEF AnniupdateItemSaved, ServerTyped, StoreTyped, LockTyped, PollTyped, HistoryTyped,
         serverVars, saveVars, lockVars, listenVars, historyVars, boundVars
<1>2. e.anni \in Anni /\ e.seq \in Nat
  BY DEF CallsTyped
<1>3. /\ store[d][e.anni].rev \in Nat
      /\ store[d][e.anni].isShared => store[d][e.anni].rev # 0
  BY <1>2, EntryFields DEF StoreTyped
<1>4. LET r == Write(d, "set", e.anni, store[d][e.anni].rev, 0, e.seq)
      IN  r \in Request /\ r.op = "set" /\ r.rev = store[d][e.anni].rev
  BY <1>2, <1>3, WriteTyped
<1>5. LET r == Write(d, "delete", e.anni, 0, 0, e.seq) IN r \in Request /\ r.op = "delete"
  BY <1>2, WriteTyped
<1>6. edited' \in [Device -> SUBSET [anni : Anni, seq : Nat]]
  BY DEF AnniupdateItemSaved, CallsTyped
<1>7. retain' \in [Device -> SUBSET Anni]
  BY <1>2 DEF AnniupdateItemSaved, CallsTyped, Registered
<1>8. requests' \in SUBSET Request /\ SetsWrite'
  BY <1>3, <1>4, <1>5 DEF AnniupdateItemSaved, CallsTyped, SetsWrite
<1> QED BY <1>1, <1>6, <1>7, <1>8 DEF CallsTyped

LEMMA DeleteModelTyped ==
  ASSUME Typed, NEW d \in Device, NEW a \in Anni, DeleteModel(d, a) PROVE Typed'
<1> USE DEF Typed
<1>1. clock \in Nat /\ clock' = clock + 1 /\ clock' \in Nat \ {0} /\ saves' \in Nat
  BY SavesTyped DEF DeleteModel, UserMay
<1>2. ServerTyped' /\ PollTyped'
  BY DEF DeleteModel, ServerTyped, PollTyped, serverVars, listenVars
<1>3. LockTyped'
  BY <1>1, HandleTyped DEF DeleteModel
<1>4. StoreTyped'
  BY <1>1 DEF DeleteModel, StoreTyped, Entry
<1>5. LET r == Write(d, "delete", a, 0, clock + 1, clock + 1) IN r \in Request /\ r.op = "delete"
  BY <1>1, WriteTyped
<1>6. CallsTyped'
  BY <1>5 DEF DeleteModel, CallsTyped, SetsWrite, Observed
<1>7. HistoryTyped'
  BY DEF DeleteModel, HistoryTyped, boundVars
<1> QED BY <1>2, <1>3, <1>4, <1>6, <1>7

LEMMA OtherSaveTyped == ASSUME Typed, NEW d \in Device, OtherSave(d) PROVE Typed'
<1> USE DEF Typed
<1>1. clock \in Nat /\ clock' = clock + 1 /\ clock' \in Nat \ {0} /\ saves' \in Nat
  BY SavesTyped DEF OtherSave
<1>2. LockTyped'
  BY <1>1, HandleTyped DEF OtherSave
<1>3. ServerTyped' /\ StoreTyped' /\ CallsTyped' /\ PollTyped' /\ HistoryTyped'
  BY <1>1 DEF OtherSave, ServerTyped, StoreTyped, CallsTyped, SetsWrite, PollTyped, HistoryTyped,
         serverVars, listenVars, historyVars, boundVars
<1> QED BY <1>2, <1>3

LEMMA EffectTyped ==
  ASSUME Typed, NEW r \in requests, Effect(r)
  PROVE  ServerTyped' /\ private' \in [Device -> SUBSET Anni]
<1>1. r.anni \in Anni /\ r.rev \in Nat /\ (r.op = "set" => r.rev # 0)
  BY DEF Typed, CallsTyped, SetsWrite, Request
<1>2. writes \in Nat /\ server \in [Anni -> Doc] /\ private \in [Device -> SUBSET Anni]
  BY DEF Typed, ServerTyped, HistoryTyped
<1>3. NoDoc \in Doc
  BY DEF Doc
<1>4. CASE r.op = "set"
  BY <1>1, <1>2, <1>4, NewDoc DEF Effect, ServerTyped
<1>5. CASE r.op # "set"
  BY <1>1, <1>2, <1>3, <1>5 DEF Effect, ServerTyped
<1>6. private' \in [Device -> SUBSET Anni]
  BY <1>2 DEF Effect
<1> QED BY <1>4, <1>5, <1>6

LEMMA ServedTyped == ASSUME Typed, NEW r \in requests, Served(r) PROVE Typed'
<1>1. ServerTyped' /\ private' \in [Device -> SUBSET Anni]
  BY EffectTyped DEF Served
<1>2. StoreTyped' /\ LockTyped' /\ CallsTyped' /\ PollTyped' /\ HistoryTyped'
  BY <1>1 DEF Typed, Served, StoreTyped, LockTyped, CallsTyped, SetsWrite, PollTyped, HistoryTyped,
         saveVars, lockVars, listenVars, boundVars
<1> QED BY <1>1, <1>2 DEF Typed

LEMMA AnswerLostTyped == ASSUME Typed, NEW r \in requests, AnswerLost(r) PROVE Typed'
<1>1. ServerTyped' /\ private' \in [Device -> SUBSET Anni]
  BY EffectTyped DEF AnswerLost
<1>2. LET q == [r EXCEPT !.state = "lost"] IN q \in Request /\ q.op = r.op /\ q.rev = r.rev
  BY DEF Typed, CallsTyped, Request
<1>3. CallsTyped'
  BY <1>2 DEF Typed, AnswerLost, CallsTyped, SetsWrite
<1>4. StoreTyped' /\ LockTyped' /\ PollTyped' /\ HistoryTyped'
  BY <1>1 DEF Typed, AnswerLost, StoreTyped, LockTyped, PollTyped, HistoryTyped,
         saveVars, lockVars, listenVars
<1> QED BY <1>1, <1>3, <1>4 DEF Typed

LEMMA FailedTyped == ASSUME Typed, NEW r \in requests, Failed(r) PROVE Typed'
  BY DEF Typed, Failed, ServerTyped, StoreTyped, LockTyped, CallsTyped, SetsWrite, PollTyped,
         HistoryTyped, serverVars, saveVars, lockVars, listenVars, historyVars

LEMMA DoneTyped == ASSUME LockTyped, NEW d \in Device, NEW v, Done(d, v) PROVE LockTyped'
<1>1. Pull \in Work
  BY WorkKinds
<1> QED BY <1>1 DEF LockTyped, Done

LEMMA UploadDoneTyped == ASSUME Typed, NEW d \in Device, NEW v, UploadDone(d, v) PROVE Typed'
<1>1. LockTyped'
  BY DoneTyped DEF Typed, UploadDone
<1>2. ServerTyped' /\ StoreTyped' /\ CallsTyped' /\ PollTyped' /\ HistoryTyped'
  BY DEF Typed, UploadDone, ServerTyped, StoreTyped, CallsTyped, SetsWrite, PollTyped, HistoryTyped,
         serverVars, saveVars, listenVars, historyVars, boundVars
<1> QED BY <1>1, <1>2 DEF Typed

LEMMA ApplyDoneTyped == ASSUME Typed, NEW d \in Device, NEW v, ApplyDone(d, v) PROVE Typed'
<1>1. LockTyped'
  BY DoneTyped DEF Typed, ApplyDone
<1>2. ServerTyped' /\ StoreTyped' /\ CallsTyped' /\ PollTyped' /\ HistoryTyped'
  BY DEF Typed, ApplyDone, ServerTyped, StoreTyped, CallsTyped, SetsWrite, PollTyped, HistoryTyped,
         serverVars, saveVars, listenVars, historyVars, boundVars
<1> QED BY <1>1, <1>2 DEF Typed

LEMMA BecomeTyped ==
  ASSUME LockTyped, NEW d \in Device, NEW v, NEW new \in Work, Become(d, v, new),
         UNCHANGED <<isLocalSyncing, pendingPull>>
  PROVE  LockTyped'
  BY DEF LockTyped, Become

LEMMA JobRunsTyped ==
  ASSUME Typed, NEW d \in Device, NEW v, NEW j, JobRuns(d, v, j) PROVE Typed'
<1>1. v \in Work /\ v.kind = "apply" /\ j \in v.jobs
  BY DEF Typed, JobRuns, LockTyped
<1>2. v.jobs \in SUBSET Job
  BY <1>1, WorkKinds
<1>3. j \in Job
  BY <1>1, <1>2
<1>4. j.anni \in Anni /\ j.rev \in Nat
  BY <1>3 DEF Job
<1>5. Apply(v.jobs \ {j}) \in Work
  BY <1>2, WorkKinds
<1>6. LockTyped'
  BY <1>5, BecomeTyped DEF Typed, JobRuns
<1>7. NoEntry \in Entry
  BY DEF Entry
<1>8. (IF j.rev = 0 THEN NoEntry ELSE [rev |-> j.rev, isShared |-> TRUE]) \in Entry
  BY <1>4, <1>7, NewEntry
<1>9. StoreTyped'
  BY <1>4, <1>8 DEF Typed, JobRuns, StoreTyped
<1>10. ServerTyped' /\ CallsTyped' /\ PollTyped' /\ HistoryTyped'
  BY DEF Typed, JobRuns, ServerTyped, CallsTyped, SetsWrite, PollTyped, HistoryTyped,
         serverVars, listenVars, historyVars, boundVars
<1> QED BY <1>6, <1>9, <1>10 DEF Typed

LEMMA SyncsAreJobs ==
  ASSUME NEW docs \in [Anni -> Doc], NEW as \in SUBSET Anni
  PROVE  Syncs(docs, as) \in SUBSET Job
<1>1. \A a \in as : docs[a].rev \in Nat /\ a \in Anni
  BY DocFields
<1>2. \A a \in as : [anni |-> a, rev |-> docs[a].rev] \in Job
  BY <1>1 DEF Job
<1> QED BY <1>2 DEF Syncs

LEMMA PullServedTyped == ASSUME Typed, NEW d \in Device, PullServed(d) PROVE Typed'
<1>1. [kind |-> "pulled", snap |-> server] \in Work
  BY WorkKinds DEF Typed, ServerTyped
<1>2. LockTyped'
  BY <1>1, BecomeTyped DEF Typed, PullServed
<1>3. ServerTyped' /\ StoreTyped' /\ CallsTyped' /\ PollTyped' /\ HistoryTyped'
  BY DEF Typed, PullServed, ServerTyped, StoreTyped, CallsTyped, SetsWrite, PollTyped, HistoryTyped,
         serverVars, saveVars, listenVars, historyVars, boundVars
<1> QED BY <1>2, <1>3 DEF Typed

LEMMA PullAnsweredTyped == ASSUME Typed, NEW d \in Device, NEW v, PullAnswered(d, v) PROVE Typed'
<1>1. v \in Work /\ v.kind = "pulled"
  BY DEF Typed, PullAnswered, LockTyped
<1>2. v.snap \in [Anni -> Doc]
  BY <1>1, WorkKinds
<1>3. Apply(Syncs(v.snap, Saved(v.snap))) \in Work
  BY <1>2, SyncsAreJobs, WorkKinds DEF Saved
<1>4. LockTyped'
  BY <1>3, BecomeTyped DEF Typed, PullAnswered
<1>5. ServerTyped' /\ StoreTyped' /\ CallsTyped' /\ PollTyped' /\ HistoryTyped'
  BY DEF Typed, PullAnswered, ServerTyped, StoreTyped, CallsTyped, SetsWrite, PollTyped, HistoryTyped,
         serverVars, saveVars, listenVars, historyVars, boundVars
<1> QED BY <1>4, <1>5 DEF Typed

LEMMA GivesUpTyped ==
  ASSUME Typed, NEW d \in Device, NEW v, GivesUp(d, v), faults' \in Nat PROVE Typed'
  BY DEF Typed, GivesUp, ServerTyped, StoreTyped, LockTyped, CallsTyped, SetsWrite, PollTyped,
         HistoryTyped, serverVars, saveVars, listenVars

LEMMA PullEndsTyped ==
  ASSUME Typed, NEW d \in Device, PullFailed(d) \/ \E v \in work[d] : PullEmpty(d, v) PROVE Typed'
<1>1. faults \in Nat
  BY DEF Typed, HistoryTyped
<1>2. CASE PullFailed(d)
  BY <1>1, <1>2, GivesUpTyped DEF PullFailed
<1>3. CASE \E v \in work[d] : PullEmpty(d, v)
  BY <1>1, <1>3, GivesUpTyped DEF PullEmpty
<1> QED BY <1>2, <1>3

LEMMA AnswerTakenTyped ==
  ASSUME Typed, NEW d \in Device, AnswerTaken(d)
  PROVE  ServerTyped' /\ StoreTyped' /\ PollTyped' /\ HistoryTyped'
<1>1. Idle \in [sent : BOOLEAN, snap : [Anni -> Doc]]
  BY DEF Idle, NoDocs, Doc
<1> HIDE DEF Idle
<1>2. poll[d].snap \in [Anni -> Doc]
  BY DEF Typed, PollTyped
<1>3. PollTyped'
  BY <1>1, <1>2 DEF Typed, AnswerTaken, PollTyped
<1> QED BY <1>3 DEF Typed, AnswerTaken, ServerTyped, StoreTyped, HistoryTyped,
          serverVars, saveVars, historyVars, boundVars

(* What an answer makes the phone do.                                      *)
LEMMA AppliedJobs ==
  ASSUME Typed, NEW d \in Device, NEW written \in SUBSET Anni, NEW dropped \in SUBSET Anni
  PROVE  Syncs(poll[d].snap, written) \cup {[anni |-> a, rev |-> 0] : a \in dropped} \in SUBSET Job
<1>1. poll[d].snap \in [Anni -> Doc]
  BY DEF Typed, PollTyped
<1>2. Syncs(poll[d].snap, written) \in SUBSET Job
  BY <1>1, SyncsAreJobs
<1>3. \A a \in dropped : [anni |-> a, rev |-> 0] \in Job
  BY DEF Job
<1> QED BY <1>2, <1>3

LEMMA AnsweredTyped == ASSUME Typed, NEW d \in Device, Answered(d) PROVE Typed'
<1>1. ServerTyped' /\ StoreTyped' /\ PollTyped' /\ HistoryTyped'
  BY AnswerTakenTyped DEF Answered, PollIgnored, PollDropped, PollApplied
<1>2. edited' = edited /\ requests' = requests
  BY DEF Answered, PollIgnored, PollDropped, PollApplied, AnswerTaken
<1>3. CASE PollIgnored(d)
  BY <1>1, <1>2, <1>3 DEF Typed, PollIgnored, LockTyped, CallsTyped, SetsWrite, lockVars
<1>4. CASE PollDropped(d)
  BY <1>1, <1>2, <1>4 DEF Typed, PollDropped, LockTyped, CallsTyped, SetsWrite
<1>5. CASE PollApplied(d)
  <2> DEFINE jobs == Syncs(poll[d].snap, Changed(d) \ Removed(d))
                         \cup {[anni |-> a, rev |-> 0] : a \in Removed(d) \ retain[d]}
  <2>1. Changed(d) \in SUBSET Anni /\ Removed(d) \in SUBSET Anni
    BY DEF Changed, Removed
  <2>2. Apply(jobs) \in Work
    BY <2>1, AppliedJobs, WorkKinds
  <2>3. /\ isLocalSyncing' = [isLocalSyncing EXCEPT ![d] = TRUE]
        /\ work' = [work EXCEPT ![d] = @ \cup {Apply(jobs)}]
        /\ retain' = [retain EXCEPT ![d] = @ \ Removed(d)]
        /\ pendingPull' = pendingPull
    BY <1>5 DEF PollApplied
  <2> HIDE DEF jobs
  <2>4. LockTyped'
    BY <2>2, <2>3 DEF Typed, LockTyped
  <2>5. CallsTyped'
    BY <1>2, <2>3 DEF Typed, CallsTyped, SetsWrite
  <2> QED BY <1>1, <2>4, <2>5 DEF Typed
<1> QED BY <1>3, <1>4, <1>5 DEF Answered

LEMMA QueryTyped ==
  ASSUME Typed, NEW d \in Device,
         PollUnchanged(d) \/ PollQuery(d) \/ PollFailed(d) \/ Relisten(d)
  PROVE  Typed'
<1>1. ServerTyped' /\ StoreTyped' /\ LockTyped' /\ CallsTyped'
  BY DEF Typed, PollUnchanged, PollQuery, PollFailed, Relisten, ServerTyped, StoreTyped, LockTyped,
         CallsTyped, SetsWrite, vars, serverVars, saveVars, lockVars
<1>2. NoDocs \in [Anni -> Doc]
  BY DEF NoDocs, Doc
<1> HIDE DEF NoDocs
<1>3. CASE PollUnchanged(d)
  BY <1>1, <1>3 DEF Typed, PollUnchanged, PollTyped, HistoryTyped, vars, listenVars, historyVars, boundVars
<1>4. CASE PollQuery(d)
  BY <1>1, <1>4 DEF Typed, PollQuery, ServerTyped, PollTyped, HistoryTyped, historyVars, boundVars
<1>5. CASE PollFailed(d)
  BY <1>1, <1>5 DEF Typed, PollFailed, PollTyped, HistoryTyped, historyVars
<1>6. CASE Relisten(d)
  BY <1>1, <1>2, <1>6 DEF Typed, Relisten, PollTyped, HistoryTyped, historyVars, boundVars
<1> QED BY <1>3, <1>4, <1>5, <1>6

LEMMA RestartTyped == ASSUME Typed, NEW d \in Device, Restart(d) PROVE Typed'
<1>1. NoDocs \in [Anni -> Doc] /\ Idle \in [sent : BOOLEAN, snap : [Anni -> Doc]]
  BY DEF Idle, NoDocs, Doc
<1> HIDE DEF NoDocs, Idle
<1>2. ServerTyped' /\ StoreTyped' /\ HistoryTyped'
  BY DEF Typed, Restart, ServerTyped, StoreTyped, HistoryTyped, serverVars, saveVars, historyVars
<1>3. LockTyped'
  BY DEF Typed, Restart, LockTyped
<1>4. CallsTyped'
  BY DEF Typed, Restart, CallsTyped, SetsWrite
<1>5. PollTyped'
  BY <1>1 DEF Typed, Restart, PollTyped
<1> QED BY <1>2, <1>3, <1>4, <1>5 DEF Typed

LEMMA NextTyped == Typed /\ [Next]_vars => Typed'
<1> SUFFICES ASSUME Typed, [Next]_vars PROVE Typed'
  OBVIOUS
<1>1. CASE UNCHANGED vars
  BY <1>1 DEF Typed, vars, serverVars, saveVars, lockVars, listenVars, historyVars, boundVars,
         ServerTyped, StoreTyped, LockTyped, CallsTyped, SetsWrite, PollTyped, HistoryTyped
<1>2. CASE CallNext
  BY <1>2, ServedTyped, AnswerLostTyped, FailedTyped DEF CallNext
<1>3. ASSUME NEW d \in Device,
             CoupleDidLink(d) \/ UserNext(d) \/ \E e \in edited[d] : AnniupdateItemSaved(d, e)
      PROVE  Typed'
  BY <1>3, CoupleDidLinkTyped, AddModelTyped, AnniupdateItemTyped, DeleteModelTyped, OtherSaveTyped,
     AnniupdateItemSavedTyped DEF UserNext
<1>4. ASSUME NEW d \in Device, WorkNext(d) \/ PullFailed(d) PROVE Typed'
  BY <1>4, PullServedTyped, UploadDoneTyped, ApplyDoneTyped, PullAnsweredTyped, PullEndsTyped,
     JobRunsTyped DEF WorkNext
<1>5. ASSUME NEW d \in Device,
             PollUnchanged(d) \/ PollQuery(d) \/ PollFailed(d) \/ Answered(d) \/ Relisten(d) \/ Restart(d)
      PROVE  Typed'
  BY <1>5, QueryTyped, AnsweredTyped, RestartTyped
<1> QED BY <1>1, <1>2, <1>3, <1>4, <1>5 DEF Next

(* In every behaviour every variable keeps its type.                       *)
THEOREM TypeCorrect == Spec => []TypeOK
<1>1. Typed => TypeOK
  BY TypedIsTypeOK
<1> QED BY InitTyped, NextTyped, <1>1, PTL DEF Spec
-----------------------------------------------------------------------------
(* The lock.                                                               *)
Locks == OneAtATime /\ OwedPullHasOwner

LEMMA HandleLocks ==
  ASSUME Typed, Locks, NEW d \in Device, HandleContextDidSave(d), UNCHANGED <<pendingPull, gaveUp>>
  PROVE  Locks'
<1>1. CASE isLocalSyncing[d]
  <2>1. isLocalSyncing' = isLocalSyncing /\ work' = work
    BY <1>1 DEF Typed, LockTyped, HandleContextDidSave, Observed
  <2> QED BY <2>1 DEF Locks, OneAtATime, OwedPullHasOwner
<1>2. CASE ~ isLocalSyncing[d]
  <2>1. work[d] = {}
    BY <1>2 DEF Locks, OneAtATime
  <2>2. /\ isLocalSyncing' = [isLocalSyncing EXCEPT ![d] = TRUE]
        /\ work' = [work EXCEPT ![d] = {Upload}]
    BY <1>2, <2>1 DEF HandleContextDidSave, Observed
  <2> QED BY <2>2 DEF Typed, LockTyped, Locks, OneAtATime, OwedPullHasOwner
<1> QED BY <1>1, <1>2

LEMMA DoneLocks ==
  ASSUME Typed, Locks, NEW d \in Device, NEW v \in work[d], Done(d, v), UNCHANGED gaveUp
  PROVE  Locks'
<1>1. work[d] = {v}
  BY DEF Locks, OneAtATime
<1>2. work' = [work EXCEPT ![d] = IF pendingPull[d] THEN {Pull} ELSE {}]
  BY <1>1 DEF Done
<1>3. /\ isLocalSyncing' = [isLocalSyncing EXCEPT ![d] = pendingPull[d]]
      /\ pendingPull' = [pendingPull EXCEPT ![d] = FALSE]
  BY DEF Done
<1> HIDE DEF Pull
<1>4. OneAtATime'
  <2> SUFFICES ASSUME NEW e \in Device
               PROVE  /\ isLocalSyncing'[e] <=> work'[e] # {}
                      /\ \A x, y \in work'[e] : x = y
    BY DEF OneAtATime
  <2>1. CASE e # d
    BY <1>2, <1>3, <2>1 DEF Locks, OneAtATime, Typed, LockTyped
  <2>2. CASE e = d /\ pendingPull[d]
    BY <1>2, <1>3, <2>2 DEF Typed, LockTyped
  <2>3. CASE e = d /\ ~ pendingPull[d]
    BY <1>2, <1>3, <2>3 DEF Typed, LockTyped
  <2> QED BY <2>1, <2>2, <2>3
<1>5. OwedPullHasOwner'
  BY <1>3 DEF Locks, OwedPullHasOwner, Typed, LockTyped
<1> QED BY <1>4, <1>5 DEF Locks

LEMMA BecomeLocks ==
  ASSUME Typed, Locks, NEW d \in Device, NEW v \in work[d], NEW new, Become(d, v, new),
         UNCHANGED <<isLocalSyncing, pendingPull, gaveUp>>
  PROVE  Locks'
<1>1. work[d] = {v} /\ isLocalSyncing[d]
  BY DEF Locks, OneAtATime
<1>2. work' = [work EXCEPT ![d] = {new}]
  BY <1>1 DEF Become
<1> QED BY <1>1, <1>2 DEF Typed, LockTyped, Locks, OneAtATime, OwedPullHasOwner

LEMMA GivesUpLocks ==
  ASSUME Typed, Locks, NEW d \in Device, NEW v \in work[d], GivesUp(d, v)
  PROVE  Locks'
<1>1. work[d] = {v}
  BY DEF Locks, OneAtATime
<1>2. /\ work' = [work EXCEPT ![d] = {}]
      /\ isLocalSyncing' = [isLocalSyncing EXCEPT ![d] = FALSE]
      /\ gaveUp' = [gaveUp EXCEPT ![d] = TRUE]
      /\ pendingPull' = pendingPull
  BY <1>1 DEF GivesUp
<1> QED BY <1>2 DEF Typed, LockTyped, HistoryTyped, Locks, OneAtATime, OwedPullHasOwner

LEMMA AnsweredLocks ==
  ASSUME Typed, Locks, NEW d \in Device, Answered(d) PROVE Locks'
<1>1. gaveUp' = gaveUp
  BY DEF Answered, PollIgnored, PollDropped, PollApplied, AnswerTaken, historyVars
<1>2. CASE PollIgnored(d)
  BY <1>1, <1>2 DEF PollIgnored, lockVars, Locks, OneAtATime, OwedPullHasOwner
<1>3. CASE PollDropped(d)
  BY <1>1, <1>3 DEF Typed, LockTyped, PollDropped, Locks, OneAtATime, OwedPullHasOwner
<1>4. CASE PollApplied(d)
  <2> DEFINE jobs == Syncs(poll[d].snap, Changed(d) \ Removed(d))
                         \cup {[anni |-> a, rev |-> 0] : a \in Removed(d) \ retain[d]}
  <2>1. ~ isLocalSyncing[d] /\ work[d] = {}
    BY <1>4 DEF PollApplied, Locks, OneAtATime
  <2>2. /\ isLocalSyncing' = [isLocalSyncing EXCEPT ![d] = TRUE]
        /\ work' = [work EXCEPT ![d] = @ \cup {Apply(jobs)}]
        /\ pendingPull' = pendingPull
    BY <1>4 DEF PollApplied
  <2>3. work' = [work EXCEPT ![d] = {Apply(jobs)}]
    BY <2>1, <2>2
  <2> HIDE DEF jobs
  <2> QED BY <1>1, <2>2, <2>3 DEF Typed, LockTyped, Locks, OneAtATime, OwedPullHasOwner
<1> QED BY <1>2, <1>3, <1>4 DEF Answered

LEMMA RestartLocks ==
  ASSUME Typed, Locks, NEW d \in Device, Restart(d) PROVE Locks'
  BY DEF Typed, LockTyped, Restart, historyVars, Locks, OneAtATime, OwedPullHasOwner

LEMMA UserLocks ==
  ASSUME Typed, Locks, NEW d \in Device, CoupleDidLink(d) \/ UserNext(d) PROVE Locks'
<1>1. UNCHANGED <<pendingPull, gaveUp>>
  BY DEF CoupleDidLink, UserNext, AddModel, AnniupdateItem, DeleteModel, OtherSave, lockVars, historyVars
<1>2. HandleContextDidSave(d) \/ UNCHANGED <<isLocalSyncing, work>>
  BY DEF CoupleDidLink, UserNext, AddModel, AnniupdateItem, DeleteModel, OtherSave, lockVars
<1>3. CASE UNCHANGED <<isLocalSyncing, work>>
  BY <1>1, <1>3 DEF Locks, OneAtATime, OwedPullHasOwner
<1> QED BY <1>1, <1>2, <1>3, HandleLocks

LEMMA WorkLocks ==
  ASSUME Typed, Locks, NEW d \in Device, WorkNext(d) \/ PullFailed(d) PROVE Locks'
<1>1. CASE \E v \in work[d] : UploadDone(d, v) \/ ApplyDone(d, v)
  BY <1>1, DoneLocks DEF UploadDone, ApplyDone, historyVars
<1>2. CASE PullServed(d)
  BY <1>2, BecomeLocks DEF PullServed, historyVars
<1>3. CASE \E v \in work[d] : PullAnswered(d, v) \/ \E j : JobRuns(d, v, j)
  BY <1>3, BecomeLocks DEF PullAnswered, JobRuns, historyVars
<1>4. CASE PullFailed(d) \/ \E v \in work[d] : PullEmpty(d, v)
  BY <1>4, GivesUpLocks DEF PullFailed, PullEmpty
<1> QED BY <1>1, <1>2, <1>3, <1>4 DEF WorkNext

LEMMA NextLocks == Typed /\ Locks /\ [Next]_vars => Locks'
<1> SUFFICES ASSUME Typed, Locks, [Next]_vars PROVE Locks'
  OBVIOUS
<1>1. ASSUME UNCHANGED <<lockVars, gaveUp>> PROVE Locks'
  BY <1>1 DEF lockVars, Locks, OneAtATime, OwedPullHasOwner
<1>2. CASE UNCHANGED vars
  BY <1>1, <1>2 DEF vars, lockVars, historyVars
<1>3. CASE CallNext
  BY <1>1, <1>3 DEF CallNext, Served, AnswerLost, Failed, lockVars, historyVars
<1>4. ASSUME NEW d \in Device, CoupleDidLink(d) \/ UserNext(d) \/ WorkNext(d) \/ PullFailed(d)
      PROVE  Locks'
  BY <1>4, UserLocks, WorkLocks
<1>5. ASSUME NEW d \in Device, \E e \in edited[d] : AnniupdateItemSaved(d, e) PROVE Locks'
  BY <1>1, <1>5 DEF AnniupdateItemSaved, lockVars, historyVars
<1>6. ASSUME NEW d \in Device, PollUnchanged(d) \/ PollQuery(d) \/ PollFailed(d) \/ Relisten(d)
      PROVE  Locks'
  BY <1>1, <1>6 DEF PollUnchanged, PollQuery, PollFailed, Relisten, vars, lockVars, historyVars
<1>7. ASSUME NEW d \in Device, Answered(d) \/ Restart(d) PROVE Locks'
  BY <1>7, AnsweredLocks, RestartLocks
<1> QED BY <1>2, <1>3, <1>4, <1>5, <1>6, <1>7 DEF Next

LEMMA LocksHold == Spec => [](Typed /\ Locks)
<1>1. Init => Locks
  BY DEF Init, Locks, OneAtATime, OwedPullHasOwner
<1> QED BY <1>1, InitTyped, NextTyped, NextLocks, PTL DEF Spec

(* isLocalSyncing is set exactly while one upload, pull or application is  *)
(* under way: handleContextDidSave, the listener and the pull exclude each *)
(* other on every phone, whatever fails and whenever a process dies.       *)
THEOREM LockHasOneHolder == Spec => []OneAtATime
<1>1. Typed /\ Locks => OneAtATime
  BY DEF Locks
<1> QED BY <1>1, LocksHold, PTL

(* A pull that a dropped answer has asked for is never forgotten: the lock *)
(* is held by somebody who will start it, unless a pull has given up.      *)
THEOREM PullIsNotForgotten == Spec => []OwedPullHasOwner
<1>1. Typed /\ Locks => OwedPullHasOwner
  BY DEF Locks
<1> QED BY <1>1, LocksHold, PTL
-----------------------------------------------------------------------------
(* Kept copies.  No step from the last answer over the query under way to  *)
(* the collection makes the document go.                                   *)
Calm(d, a) ==
    /\ previous[d][a] # NoDoc => server[a] # NoDoc
    /\ poll[d].sent => /\ previous[d][a] # NoDoc => poll[d].snap[a] # NoDoc
                       /\ poll[d].snap[a] # NoDoc => server[a] # NoDoc

(* The deletions the phone has sent, and the edits it is about to push.    *)
Deletes(d, a) ==
    {r \in requests : r.dev = d /\ r.anni = a /\ r.op = "delete" /\ r.state = "sent"}
Edits(d, a) == {e \in edited[d] : e.anni = a}

NoDrop(d, a) == \A v \in work[d] : v.kind = "apply" => [anni |-> a, rev |-> 0] \notin v.jobs

(* A removal is unseen only if the id is registered; a deletion is sent    *)
(* once, by the edit that registers the id, and finds no removal unseen.   *)
Kept(d, a) ==
    /\ Has(d, a)
    /\ NoDrop(d, a)
    /\ a \in retain[d] \/ Calm(d, a)
    /\ \A e \in Edits(d, a) : Calm(d, a) /\ Deletes(d, a) = {} /\ \A f \in Edits(d, a) : e = f
    /\ \A r \in Deletes(d, a) : a \in retain[d] /\ Calm(d, a) /\ \A q \in Deletes(d, a) : q = r

Unlinked   == \A d \in Device : ~ linked[d] => private[d] = {}
Unfollowed == \A d \in Device \ Listeners : ~ poll[d].sent /\ previous[d] = NoDocs
AllKept    == restarts = 0 => \A d \in Patient : \A a \in private[d] : Kept(d, a)

(* A step that removes nothing and starts nothing keeps the copy.          *)
LEMMA KeptFrame ==
  ASSUME NEW d, NEW a, Kept(d, a),
         Has(d, a)', NoDrop(d, a)',
         a \in retain[d] => a \in retain'[d],
         Calm(d, a) => Calm(d, a)',
         Edits(d, a)' \subseteq Edits(d, a),
         Deletes(d, a)' \subseteq Deletes(d, a)
  PROVE  Kept(d, a)'
<1>1. a \in retain'[d] \/ Calm(d, a)'
  BY DEF Kept
<1>2. \A e \in Edits(d, a)' : Calm(d, a)' /\ Deletes(d, a)' = {} /\ \A f \in Edits(d, a)' : e = f
  BY DEF Kept
<1>3. \A r \in Deletes(d, a)' : a \in retain'[d] /\ Calm(d, a)' /\ \A q \in Deletes(d, a)' : q = r
  BY DEF Kept
<1> QED BY <1>1, <1>2, <1>3 DEF Kept

(* The same for a step that leaves calls, answers and the collection.      *)
LEMMA KeptLocally ==
  ASSUME NEW d, NEW a, Kept(d, a), Has(d, a)', NoDrop(d, a)',
         UNCHANGED <<server, retain, edited, requests, poll, previous>>
  PROVE  Kept(d, a)'
<1>1. Calm(d, a) => Calm(d, a)'
  BY DEF Calm
<1>2. Edits(d, a)' = Edits(d, a) /\ Deletes(d, a)' = Deletes(d, a)
  BY DEF Edits, Deletes
<1> QED BY <1>1, <1>2, KeptFrame

LEMMA HandleKeepsDrops ==
  ASSUME Typed, NEW e \in Device, HandleContextDidSave(e), NEW d \in Device, NEW a, NoDrop(d, a)
  PROVE  NoDrop(d, a)'
<1>1. Upload.kind = "upload"
  BY DEF Upload
<1> HIDE DEF Upload
<1>2. \A v \in work'[d] : v \in work[d] \/ v = Upload
  BY DEF Typed, LockTyped, HandleContextDidSave, Observed
<1> QED BY <1>1, <1>2 DEF NoDrop

(* The user and the other managers.                                        *)
LEMMA CoupleDidLinkKeeps ==
  ASSUME Typed, Unlinked, NEW e \in Device, CoupleDidLink(e),
         NEW d \in Device, NEW a \in private'[d], a \in private[d] => Kept(d, a)
  PROVE  Kept(d, a)'
<1>1. a \in private[d] /\ Kept(d, a)
  BY DEF CoupleDidLink
<1>2. e # d
  BY <1>1 DEF CoupleDidLink, Unlinked
<1>3. Has(d, a)'
  BY <1>1, <1>2 DEF CoupleDidLink, Has, Kept, Typed, StoreTyped
<1>4. NoDrop(d, a)'
  <2>1. CASE UNCHANGED work
    BY <1>1, <2>1 DEF Kept, NoDrop
  <2> QED BY <1>1, <2>1, HandleKeepsDrops DEF CoupleDidLink, Kept
<1>5. \A g, n : Write(e, "set", Day, n, g, n).op = "set"
  BY DEF Write
<1>6. \A r \in requests' : r \in requests \/ r.op = "set"
  BY <1>5 DEF CoupleDidLink, Observed
<1>7. Deletes(d, a)' \subseteq Deletes(d, a)
  BY <1>6 DEF Deletes
<1>8. Edits(d, a)' = Edits(d, a) /\ retain' = retain /\ (Calm(d, a) => Calm(d, a)')
  BY DEF CoupleDidLink, Edits, Calm, serverVars, listenVars
<1> QED BY <1>1, <1>3, <1>4, <1>7, <1>8, KeptFrame

LEMMA AddModelKeeps ==
  ASSUME Typed, NEW e \in Device, NEW b \in Anni, NEW shared \in BOOLEAN, AddModel(e, b, shared),
         NEW d \in Device, NEW a \in private'[d], a \in private[d] => Kept(d, a)
  PROVE  Kept(d, a)'
<1>1. a \in private[d] /\ Kept(d, a)
  BY DEF AddModel
<1>2. clock \in Nat /\ clock + 1 \in Nat \ {0}
  BY DEF Typed, StoreTyped
<1>3. [rev |-> clock + 1, isShared |-> shared] # NoEntry
  BY <1>2, NewEntry
<1>4. Has(d, a)'
  BY <1>1, <1>3 DEF AddModel, Has, Kept, Typed, StoreTyped, HistoryTyped
<1>5. NoDrop(d, a)'
  BY <1>1, HandleKeepsDrops DEF AddModel, Kept
<1>6. Write(e, "set", b, clock + 1, clock + 1, clock + 1).op = "set"
  BY DEF Write
<1>7. \A r \in requests' : r \in requests \/ r.op = "set"
  BY <1>6 DEF AddModel, Observed
<1>8. Deletes(d, a)' \subseteq Deletes(d, a)
  BY <1>7 DEF Deletes
<1>9. Edits(d, a)' = Edits(d, a) /\ retain' = retain /\ (Calm(d, a) => Calm(d, a)')
  BY DEF AddModel, Edits, Calm, serverVars, listenVars
<1> QED BY <1>1, <1>4, <1>5, <1>8, <1>9, KeptFrame

LEMMA AnniupdateItemKeeps ==
  ASSUME Typed, Unfollowed,
         NEW e \in Device, NEW b \in Anni, NEW shared \in BOOLEAN, AnniupdateItem(e, b, shared),
         NEW d \in Patient, NEW a \in private'[d], a \in private[d] => Kept(d, a)
  PROVE  Kept(d, a)'
<1>1. d \in Device
  BY ConstantsAssumption
<1>2. [rev |-> clock + 1, isShared |-> shared] # NoEntry
  BY NewEntry DEF Typed, StoreTyped
<1>3. CASE e = d /\ b = a
  <2>1. ~ shared
    BY <1>1, <1>3 DEF AnniupdateItem, Typed, HistoryTyped
  <2>2. Quiet(d)
    BY <1>3, <2>1 DEF AnniupdateItem
  <2>3. Has(d, a)'
    BY <1>1, <1>2, <1>3 DEF AnniupdateItem, Has, Typed, StoreTyped
  <2>4. NoDrop(d, a)'
    BY <2>2 DEF AnniupdateItem, Quiet, NoDrop, lockVars
  <2>5. Deletes(d, a)' = {}
    BY <2>2 DEF AnniupdateItem, Quiet, Deletes
  <2>6. Calm(d, a)'
    <3>1. ~ poll[d].sent /\ (previous[d] = server \/ previous[d] = NoDocs)
      BY <1>1, <2>2 DEF Quiet, Unfollowed
    <3>2. previous[d][a] # NoDoc => server[a] # NoDoc
      BY <1>3, <3>1 DEF NoDocs
    <3> QED BY <3>1, <3>2 DEF AnniupdateItem, Calm, serverVars, listenVars
  <2>7. edited'[d] = {[anni |-> b, seq |-> clock + 1]}
    BY <1>1, <1>3, <2>2 DEF AnniupdateItem, Quiet, Typed, CallsTyped
  <2>8. \A x, y \in Edits(d, a)' : x = y
    BY <2>7 DEF Edits
  <2> QED BY <2>3, <2>4, <2>5, <2>6, <2>8 DEF Kept
<1>4. CASE ~ (e = d /\ b = a)
  <2>1. a \in private[d] /\ Kept(d, a)
    BY <1>1, <1>4 DEF AnniupdateItem, Typed, HistoryTyped
  <2>2. Has(d, a)'
    BY <1>1, <1>2, <2>1 DEF AnniupdateItem, Has, Kept, Typed, StoreTyped, HistoryTyped
  <2>3. NoDrop(d, a)' /\ Deletes(d, a)' = Deletes(d, a) /\ retain' = retain
        /\ (Calm(d, a) => Calm(d, a)')
    BY <2>1 DEF AnniupdateItem, Kept, NoDrop, Deletes, Calm, lockVars, serverVars, listenVars
  <2>4. Edits(d, a)' \subseteq Edits(d, a)
    BY <1>1, <1>4 DEF AnniupdateItem, Edits, Typed, CallsTyped
  <2> QED BY <2>1, <2>2, <2>3, <2>4, KeptFrame
<1> QED BY <1>3, <1>4

(* The push of an edit registers the id and sends the only deletion.       *)
LEMMA AnniupdateItemSavedKeeps ==
  ASSUME Typed, NEW e \in Device, NEW x \in edited[e], AnniupdateItemSaved(e, x),
         NEW d \in Device, NEW a \in private'[d], a \in private[d] => Kept(d, a)
  PROVE  Kept(d, a)'
<1>1. a \in private[d] /\ Kept(d, a)
  BY DEF AnniupdateItemSaved, historyVars
<1>2. Has(d, a)' /\ NoDrop(d, a)' /\ (Calm(d, a) => Calm(d, a)')
  BY <1>1 DEF AnniupdateItemSaved, Has, Kept, NoDrop, Calm, saveVars, lockVars, serverVars, listenVars
<1>3. a \in retain[d] => a \in retain'[d]
  BY DEF AnniupdateItemSaved, Registered, Typed, CallsTyped
<1>4. Edits(d, a)' \subseteq Edits(d, a)
  BY DEF AnniupdateItemSaved, Edits, Typed, CallsTyped
<1> DEFINE set == Write(e, "set", x.anni, store[e][x.anni].rev, 0, x.seq)
           del == Write(e, "delete", x.anni, 0, 0, x.seq)
<1>5. set.op = "set" /\ del.dev = e /\ del.anni = x.anni
  BY DEF Write
<1>6. \/ requests' = requests
      \/ requests' = requests \cup {set}
      \/ requests' = requests \cup {del} /\ Registered(e, x.anni)
  BY DEF AnniupdateItemSaved
<1> HIDE DEF set, del
<1>7. CASE Deletes(d, a)' \subseteq Deletes(d, a)
  BY <1>1, <1>2, <1>3, <1>4, <1>7, KeptFrame
<1>8. CASE ~ (Deletes(d, a)' \subseteq Deletes(d, a))
  <2>1. e = d /\ x.anni = a /\ requests' = requests \cup {del} /\ Registered(e, x.anni)
    BY <1>5, <1>6, <1>8 DEF Deletes
  <2>2. x \in Edits(d, a)
    BY <2>1 DEF Edits
  <2>3. Calm(d, a) /\ Deletes(d, a) = {} /\ \A f \in Edits(d, a) : x = f
    BY <1>1, <2>2 DEF Kept
  <2>4. \A r \in Deletes(d, a)' : r = del
    BY <2>1, <2>3 DEF Deletes
  <2>5. Edits(d, a)' = {}
    BY <2>1, <2>3 DEF AnniupdateItemSaved, Edits, Typed, CallsTyped
  <2>6. a \in retain'[d]
    BY <2>1 DEF Registered, Typed, CallsTyped
  <2> QED BY <1>2, <2>3, <2>4, <2>5, <2>6 DEF Kept
<1> QED BY <1>7, <1>8

LEMMA DeleteModelKeeps ==
  ASSUME Typed, NEW e \in Device, NEW b \in Anni, DeleteModel(e, b),
         NEW d \in Device, NEW a \in private'[d], a \in private[d] => Kept(d, a)
  PROVE  Kept(d, a)'
<1>1. a \in private[d] /\ Kept(d, a) /\ ~ (e = d /\ a = b)
  BY DEF DeleteModel, Typed, HistoryTyped
<1>2. Has(d, a)'
  BY <1>1 DEF DeleteModel, Has, Kept, Typed, StoreTyped, HistoryTyped
<1>3. NoDrop(d, a)'
  BY <1>1, HandleKeepsDrops DEF DeleteModel, Kept
<1> DEFINE del == Write(e, "delete", b, 0, clock + 1, clock + 1)
<1>4. del.dev = e /\ del.anni = b
  BY DEF Write
<1>5. \A r \in requests' : r \in requests \/ r = del
  BY DEF DeleteModel, Observed
<1> HIDE DEF del
<1>6. Deletes(d, a)' \subseteq Deletes(d, a)
  BY <1>1, <1>4, <1>5 DEF Deletes
<1>7. Edits(d, a)' = Edits(d, a) /\ retain' = retain /\ (Calm(d, a) => Calm(d, a)')
  BY DEF DeleteModel, Edits, Calm, serverVars, listenVars
<1> QED BY <1>1, <1>2, <1>3, <1>6, <1>7, KeptFrame

LEMMA OtherSaveKeeps ==
  ASSUME Typed, NEW e \in Device, OtherSave(e),
         NEW d \in Device, NEW a \in private'[d], a \in private[d] => Kept(d, a)
  PROVE  Kept(d, a)'
<1>1. Kept(d, a)
  BY DEF OtherSave, historyVars
<1>2. Has(d, a)' /\ NoDrop(d, a)'
  BY <1>1, HandleKeepsDrops DEF OtherSave, Has, Kept
<1> QED BY <1>1, <1>2, KeptLocally DEF OtherSave, serverVars, listenVars

(* A write reaches the collection: one of the partner ends the promise;    *)
(* one of the phone is a set, or the deletion that has registered the id.  *)
LEMMA EffectKeeps ==
  ASSUME Typed, NEW r \in requests, r.state = "sent", Effect(r),
         NEW left \in SUBSET Request, requests' = (requests \ {r}) \cup left,
         \A q \in left : q.state # "sent",
         UNCHANGED <<saveVars, lockVars, retain, edited, listenVars>>,
         NEW d \in Device, NEW a \in private'[d], a \in private[d] => Kept(d, a)
  PROVE  Kept(d, a)'
<1>1. a \in private[d] /\ Kept(d, a) /\ (r.dev = d \/ r.anni # a)
  BY DEF Effect, Typed, HistoryTyped
<1>2. a \in Anni /\ r.anni \in Anni /\ r.rev \in Nat
  BY <1>1 DEF Typed, HistoryTyped, CallsTyped, Request
<1>3. Has(d, a)' /\ NoDrop(d, a)' /\ Edits(d, a)' = Edits(d, a) /\ retain' = retain
  BY <1>1 DEF Has, Kept, NoDrop, Edits, saveVars, lockVars
<1>4. Deletes(d, a)' \subseteq Deletes(d, a) \ {r}
  BY DEF Deletes
<1>5. CASE r.anni # a
  <2>1. server'[a] = server[a]
    BY <1>2, <1>5 DEF Effect, Typed, ServerTyped
  <2> QED BY <1>1, <1>3, <1>4, <2>1, KeptFrame DEF Calm, listenVars
<1>6. CASE r.anni = a /\ r.op = "set"
  <2>1. r.rev \in Nat \ {0} /\ writes + 1 \in Nat \ {0}
    BY <1>2, <1>6 DEF Typed, CallsTyped, SetsWrite, ServerTyped
  <2>2. server'[a] # NoDoc
    BY <1>2, <1>6, <2>1, NewDoc DEF Effect, Typed, ServerTyped
  <2>3. Calm(d, a) => Calm(d, a)'
    BY <2>2 DEF Calm, listenVars
  <2> QED BY <1>1, <1>3, <1>4, <2>3, KeptFrame
<1>7. CASE r.anni = a /\ r.op # "set"
  <2>1. r \in Deletes(d, a)
    BY <1>1, <1>7 DEF Deletes, Typed, CallsTyped, Request
  <2>2. a \in retain[d] /\ \A q \in Deletes(d, a) : q = r
    BY <1>1, <2>1 DEF Kept
  <2>3. Deletes(d, a)' = {} /\ Edits(d, a)' = {}
    BY <1>1, <1>3, <1>4, <2>1, <2>2 DEF Kept
  <2> QED BY <1>3, <2>2, <2>3 DEF Kept
<1> QED BY <1>5, <1>6, <1>7

LEMMA CallKeeps ==
  ASSUME Typed, NEW r \in requests, Served(r) \/ AnswerLost(r) \/ Failed(r),
         NEW d \in Device, NEW a \in private'[d], a \in private[d] => Kept(d, a)
  PROVE  Kept(d, a)'
<1>1. CASE Served(r)
  <2>1. requests' = (requests \ {r}) \cup {}
    BY <1>1 DEF Served
  <2>2. r.state = "sent" /\ Effect(r) /\ {} \in SUBSET Request
        /\ UNCHANGED <<saveVars, lockVars, retain, edited, listenVars>>
    BY <1>1 DEF Served
  <2>3. \A q \in {} : q.state # "sent"
    OBVIOUS
  <2> QED BY <2>1, <2>2, <2>3, EffectKeeps
<1>2. CASE AnswerLost(r)
  <2> DEFINE lost == [r EXCEPT !.state = "lost"]
  <2>1. lost \in Request /\ lost.state = "lost"
    BY DEF Typed, CallsTyped, Request
  <2>2. requests' = (requests \ {r}) \cup {lost}
    BY <1>2 DEF AnswerLost
  <2> HIDE DEF lost
  <2>3. r.state = "sent" /\ Effect(r)
        /\ UNCHANGED <<saveVars, lockVars, retain, edited, listenVars>>
    BY <1>2 DEF AnswerLost
  <2>4. {lost} \in SUBSET Request /\ \A q \in {lost} : q.state # "sent"
    BY <2>1
  <2> QED BY <2>2, <2>3, <2>4, EffectKeeps
<1>3. CASE Failed(r)
  <2>1. Kept(d, a)
    BY <1>3 DEF Failed, historyVars
  <2>2. Has(d, a)' /\ NoDrop(d, a)' /\ Edits(d, a)' = Edits(d, a) /\ retain' = retain
        /\ (Calm(d, a) => Calm(d, a)')
    BY <1>3, <2>1 DEF Failed, Has, Kept, NoDrop, Edits, Calm, saveVars, lockVars, serverVars, listenVars
  <2>3. Deletes(d, a)' \subseteq Deletes(d, a)
    BY <1>3 DEF Failed, Deletes
  <2> QED BY <2>1, <2>2, <2>3, KeptFrame
<1> QED BY <1>1, <1>2, <1>3

(* The holder of the lock.                                                 *)
LEMMA BecomeKeepsDrops ==
  ASSUME Typed, NEW e \in Device, NEW v, NEW new, Become(e, v, new),
         NEW d \in Device, NEW a, NoDrop(d, a),
         e = d /\ new.kind = "apply" => [anni |-> a, rev |-> 0] \notin new.jobs
  PROVE  NoDrop(d, a)'
  BY DEF Typed, LockTyped, Become, NoDrop

LEMMA JobRunsKeeps ==
  ASSUME Typed, NEW e \in Device, NEW v \in work[e], NEW j, JobRuns(e, v, j),
         NEW d \in Device, NEW a \in private'[d], a \in private[d] => Kept(d, a)
  PROVE  Kept(d, a)'
<1>1. a \in private[d] /\ Kept(d, a)
  BY DEF JobRuns, historyVars
<1>2. v \in Work /\ v.kind = "apply" /\ j \in v.jobs
  BY DEF Typed, LockTyped, JobRuns
<1>3. j \in Job
  BY <1>2, WorkKinds
<1>4. j.anni \in Anni /\ j.rev \in Nat /\ j = [anni |-> j.anni, rev |-> j.rev]
  BY <1>3 DEF Job
<1>5. e = d => [anni |-> a, rev |-> 0] \notin v.jobs
  BY <1>1, <1>2 DEF Kept, NoDrop
<1>6. e = d /\ j.anni = a => j.rev # 0
  BY <1>2, <1>4, <1>5
<1>7. store'[d][a] = store[d][a] \/ (j.rev # 0 /\ store'[d][a] = [rev |-> j.rev, isShared |-> TRUE])
  BY <1>1, <1>4, <1>6 DEF JobRuns, Typed, StoreTyped, HistoryTyped
<1>8. Has(d, a)'
  BY <1>1, <1>4, <1>7, NewEntry DEF Has, Kept
<1>9. Apply(v.jobs \ {j}).jobs = v.jobs \ {j}
  BY DEF Apply
<1>10. Become(e, v, Apply(v.jobs \ {j}))
  BY DEF JobRuns
<1> HIDE DEF Apply
<1>11. NoDrop(d, a)'
  BY <1>1, <1>5, <1>9, <1>10, BecomeKeepsDrops DEF Kept
<1> QED BY <1>1, <1>8, <1>11, KeptLocally DEF JobRuns, serverVars, listenVars

(* A pull writes what it finds and deletes nothing.                        *)
LEMMA SyncsDropNothing ==
  ASSUME NEW docs \in [Anni -> Doc], NEW as \in SUBSET Saved(docs), NEW a
  PROVE  [anni |-> a, rev |-> 0] \notin Syncs(docs, as)
<1>1. \A b \in as : docs[b].rev # 0
  BY DocFields DEF Saved
<1> QED BY <1>1 DEF Syncs

LEMMA PullKeeps ==
  ASSUME Typed, NEW e \in Device, PullServed(e) \/ \E v \in work[e] : PullAnswered(e, v),
         NEW d \in Device, NEW a \in private'[d], a \in private[d] => Kept(d, a)
  PROVE  Kept(d, a)'
<1>1. Kept(d, a)
  BY DEF PullServed, PullAnswered, historyVars
<1>2. UNCHANGED <<store, server, retain, edited, requests, poll, previous>>
  BY DEF PullServed, PullAnswered, saveVars, serverVars, listenVars
<1>3. ASSUME PullServed(e) PROVE NoDrop(d, a)'
  <2> DEFINE new == [kind |-> "pulled", snap |-> server]
  <2>1. new.kind # "apply" /\ Become(e, Pull, new)
    BY <1>3 DEF PullServed
  <2> HIDE DEF new
  <2> QED BY <1>1, <2>1, BecomeKeepsDrops DEF Kept
<1>4. ASSUME NEW v \in work[e], PullAnswered(e, v) PROVE NoDrop(d, a)'
  <2>1. v.snap \in [Anni -> Doc] /\ Saved(v.snap) \in SUBSET Saved(v.snap)
    BY <1>4, WorkKinds DEF PullAnswered, Typed, LockTyped
  <2>2. [anni |-> a, rev |-> 0] \notin Syncs(v.snap, Saved(v.snap))
    BY <2>1, SyncsDropNothing
  <2>3. Apply(Syncs(v.snap, Saved(v.snap))).jobs = Syncs(v.snap, Saved(v.snap))
    BY DEF Apply
  <2>4. Become(e, v, Apply(Syncs(v.snap, Saved(v.snap))))
    BY <1>4 DEF PullAnswered
  <2> QED BY <1>1, <2>2, <2>3, <2>4, BecomeKeepsDrops DEF Kept
<1>5. NoDrop(d, a)'
  BY <1>3, <1>4
<1>6. Has(d, a)'
  BY <1>1, <1>2 DEF Has, Kept
<1> QED BY <1>1, <1>2, <1>5, <1>6, KeptLocally

LEMMA EndsKeep ==
  ASSUME Typed, NEW e \in Device,
         \/ PullFailed(e)
         \/ \E v \in work[e] : UploadDone(e, v) \/ ApplyDone(e, v) \/ PullEmpty(e, v),
         NEW d \in Device, NEW a \in private'[d], a \in private[d] => Kept(d, a)
  PROVE  Kept(d, a)'
<1>1. Kept(d, a) /\ UNCHANGED <<store, server, retain, edited, requests, poll, previous>>
  BY DEF PullFailed, UploadDone, ApplyDone, PullEmpty, GivesUp,
         historyVars, saveVars, serverVars, listenVars
<1>2. Pull.kind # "apply"
  BY DEF Pull
<1>3. \A v \in work'[d] : v \in work[d] \/ v = Pull
  BY DEF PullFailed, UploadDone, ApplyDone, PullEmpty, GivesUp, Done, Typed, LockTyped
<1> HIDE DEF Pull
<1>4. NoDrop(d, a)'
  BY <1>1, <1>2, <1>3 DEF Kept, NoDrop
<1>5. Has(d, a)'
  BY <1>1 DEF Has, Kept
<1> QED BY <1>1, <1>4, <1>5, KeptLocally

(* The listener.                                                           *)
LEMMA QueryKeeps ==
  ASSUME Typed, NEW e \in Device,
         PollUnchanged(e) \/ PollQuery(e) \/ PollFailed(e) \/ Relisten(e),
         NEW d \in Device, NEW a \in private'[d], a \in private[d] => Kept(d, a)
  PROVE  Kept(d, a)'
<1>1. a \in private[d] /\ Kept(d, a)
  BY DEF PollUnchanged, PollQuery, PollFailed, Relisten, vars, historyVars
<1>2. UNCHANGED <<server, store, work, retain, edited, requests>>
  BY DEF PollUnchanged, PollQuery, PollFailed, Relisten, vars, serverVars, saveVars, lockVars
<1>3. Has(d, a)' /\ NoDrop(d, a)' /\ Edits(d, a)' = Edits(d, a) /\ Deletes(d, a)' = Deletes(d, a)
  BY <1>1, <1>2 DEF Has, Kept, NoDrop, Edits, Deletes
<1>4. CASE UNCHANGED <<poll, previous>>
  BY <1>1, <1>2, <1>3, <1>4, KeptFrame DEF Calm
<1>5. CASE PollQuery(e)
  <2>1. Calm(d, a) => Calm(d, a)'
    BY <1>2, <1>5 DEF PollQuery, Calm, Typed, PollTyped
  <2> QED BY <1>1, <1>2, <1>3, <2>1, KeptFrame
<1>6. CASE Relisten(e)
  <2>1. NoDocs[a] = NoDoc
    BY <1>1 DEF NoDocs, Typed, HistoryTyped
  <2>2. Calm(d, a) => Calm(d, a)'
    BY <1>2, <1>6, <2>1 DEF Relisten, Calm, Typed, PollTyped
  <2> QED BY <1>1, <1>2, <1>3, <2>2, KeptFrame
<1> QED BY <1>4, <1>5, <1>6 DEF PollUnchanged, PollFailed, vars, listenVars

(* An answer that reports the removal finds the id registered, and after   *)
(* it no removal is unseen.                                                *)
LEMMA AnswerDrops ==
  ASSUME Typed, NEW d \in Device, NEW a \in Anni, Kept(d, a), PollApplied(d)
  PROVE  NoDrop(d, a)'
<1> DEFINE written == Syncs(poll[d].snap, Changed(d) \ Removed(d))
           dropped == {[anni |-> b, rev |-> 0] : b \in Removed(d) \ retain[d]}
<1>1. poll[d].sent /\ work' = [work EXCEPT ![d] = @ \cup {Apply(written \cup dropped)}]
  BY DEF PollApplied, AnswerTaken
<1>2. poll[d].snap \in [Anni -> Doc] /\ Changed(d) \ Removed(d) \in SUBSET Saved(poll[d].snap)
  BY DEF Typed, PollTyped, Changed, Removed, Saved
<1>3. [anni |-> a, rev |-> 0] \notin written
  BY <1>2, SyncsDropNothing
<1>4. a \in Removed(d) => a \in retain[d]
  BY <1>1 DEF Removed, Changed, Kept, Calm
<1>5. [anni |-> a, rev |-> 0] \notin dropped
  BY <1>4
<1>6. Apply(written \cup dropped).jobs = written \cup dropped
  BY DEF Apply
<1> HIDE DEF written, dropped, Apply
<1>7. \A v \in work'[d] : v \in work[d] \/ v = Apply(written \cup dropped)
  BY <1>1 DEF Typed, LockTyped
<1> QED BY <1>3, <1>5, <1>6, <1>7 DEF Kept, NoDrop

LEMMA AnsweredKeeps ==
  ASSUME Typed, NEW e \in Device, Answered(e),
         NEW d \in Device, NEW a \in private'[d], a \in private[d] => Kept(d, a)
  PROVE  Kept(d, a)'
<1>1. a \in private[d] /\ Kept(d, a)
  BY DEF Answered, PollIgnored, PollDropped, PollApplied, AnswerTaken, historyVars
<1>2. a \in Anni
  BY <1>1 DEF Typed, HistoryTyped
<1>3. AnswerTaken(e) /\ UNCHANGED <<server, store, edited, requests>>
  BY DEF Answered, PollIgnored, PollDropped, PollApplied, AnswerTaken, serverVars, saveVars
<1>4. Has(d, a)' /\ Edits(d, a)' = Edits(d, a) /\ Deletes(d, a)' = Deletes(d, a)
  BY <1>1, <1>3 DEF Has, Kept, Edits, Deletes
<1>5. CASE e # d
  <2>1. work'[d] = work[d] /\ retain'[d] = retain[d] /\ poll'[d] = poll[d] /\ previous'[d] = previous[d]
    BY <1>3, <1>5 DEF Answered, PollIgnored, PollDropped, PollApplied, AnswerTaken, lockVars,
                      Typed, LockTyped, CallsTyped, PollTyped
  <2> QED BY <1>1, <1>3, <1>4, <2>1, KeptFrame DEF Kept, NoDrop, Calm
<1>6. CASE e = d
  <2>1. poll[d].sent /\ ~ poll'[d].sent /\ previous'[d] = poll[d].snap
    BY <1>3, <1>6 DEF AnswerTaken, Idle, Typed, PollTyped
  <2>2. Calm(d, a) => Calm(d, a)'
    BY <1>3, <2>1 DEF Calm
  <2>3. NoDrop(d, a)'
    <3>1. CASE PollApplied(d)
      BY <1>1, <1>2, <3>1, AnswerDrops
    <3>2. CASE UNCHANGED work
      BY <1>1, <3>2 DEF Kept, NoDrop
    <3> QED BY <1>6, <3>1, <3>2 DEF Answered, PollIgnored, PollDropped, lockVars
  <2>4. CASE a \in retain'[d]
    BY <1>1, <1>4, <2>2, <2>3, <2>4, KeptFrame
  <2>5. CASE a \in retain[d] /\ a \notin retain'[d]
    <3>1. a \in Removed(d)
      BY <1>6, <2>5 DEF Answered, PollIgnored, PollDropped, PollApplied, Typed, CallsTyped
    <3>2. ~ Calm(d, a) /\ poll[d].snap[a] = NoDoc
      BY <2>1, <3>1 DEF Removed, Changed, Calm
    <3>3. Edits(d, a) = {} /\ Deletes(d, a) = {}
      BY <1>1, <3>2 DEF Kept
    <3>4. Calm(d, a)'
      BY <2>1, <3>2 DEF Calm
    <3> QED BY <1>4, <2>3, <3>3, <3>4 DEF Kept
  <2>6. CASE a \notin retain[d]
    BY <1>1, <1>4, <2>2, <2>3, <2>6, KeptFrame
  <2> QED BY <2>4, <2>5, <2>6
<1> QED BY <1>5, <1>6

(* All steps together.                                                     *)
Backed == Unlinked /\ Unfollowed /\ AllKept

LEMMA NextLinked == Typed /\ Unlinked /\ [Next]_vars => Unlinked'
<1> SUFFICES ASSUME Typed, Unlinked, [Next]_vars, NEW d \in Device, ~ linked'[d]
             PROVE  private'[d] = {}
  BY DEF Unlinked
<1>1. CASE UNCHANGED <<linked, private>>
  BY <1>1 DEF Unlinked
<1>2. ASSUME NEW e \in Device, CoupleDidLink(e) PROVE private'[d] = {}
  BY <1>2 DEF CoupleDidLink, Unlinked, Typed, StoreTyped
<1>3. ASSUME NEW e \in Device, UserNext(e) PROVE private'[d] = {}
  BY <1>3 DEF UserNext, AddModel, AnniupdateItem, DeleteModel, OtherSave, UserMay, historyVars,
              Unlinked, Typed, StoreTyped, HistoryTyped
<1>4. CASE CallNext
  BY <1>4 DEF CallNext, Served, AnswerLost, Failed, Effect, saveVars, historyVars,
              Unlinked, Typed, StoreTyped, HistoryTyped
<1>5. ASSUME NEW e \in Device, WorkNext(e) \/ PullFailed(e) PROVE UNCHANGED <<linked, private>>
  BY <1>5 DEF WorkNext, PullServed, UploadDone, ApplyDone, PullAnswered, PullEmpty, PullFailed,
              GivesUp, JobRuns, saveVars, historyVars
<1>6. ASSUME NEW e \in Device,
             \/ \E x \in edited[e] : AnniupdateItemSaved(e, x)
             \/ Restart(e)
      PROVE  UNCHANGED <<linked, private>>
  BY <1>6 DEF AnniupdateItemSaved, Restart, saveVars, historyVars
<1>7. ASSUME NEW e \in Device,
             PollUnchanged(e) \/ PollQuery(e) \/ PollFailed(e) \/ Answered(e) \/ Relisten(e)
      PROVE  UNCHANGED <<linked, private>>
  BY <1>7 DEF PollUnchanged, PollQuery, PollFailed, Answered, PollIgnored, PollDropped, PollApplied,
              AnswerTaken, Relisten, vars, saveVars, historyVars
<1>8. CASE UNCHANGED vars
  BY <1>1, <1>8 DEF vars, saveVars, historyVars
<1> QED BY <1>1, <1>2, <1>3, <1>4, <1>5, <1>6, <1>7, <1>8 DEF Next

LEMMA NextFollowed == Typed /\ Unfollowed /\ [Next]_vars => Unfollowed'
<1> SUFFICES ASSUME Typed, Unfollowed, [Next]_vars PROVE Unfollowed'
  OBVIOUS
<1>1. CASE UNCHANGED <<poll, previous>>
  BY <1>1 DEF Unfollowed
<1>2. CASE CallNext \/ UNCHANGED vars
  BY <1>1, <1>2 DEF CallNext, Served, AnswerLost, Failed, vars, listenVars
<1>3. ASSUME NEW e \in Device, CoupleDidLink(e) \/ UserNext(e) \/ \E x \in edited[e] : AnniupdateItemSaved(e, x)
      PROVE  UNCHANGED <<poll, previous>>
  BY <1>3 DEF CoupleDidLink, UserNext, AddModel, AnniupdateItem, DeleteModel, OtherSave,
              AnniupdateItemSaved, listenVars
<1>4. ASSUME NEW e \in Device, WorkNext(e) \/ PullFailed(e) PROVE UNCHANGED <<poll, previous>>
  BY <1>4 DEF WorkNext, PullServed, UploadDone, ApplyDone, PullAnswered, PullEmpty, PullFailed,
              GivesUp, JobRuns, listenVars
<1>5. ASSUME NEW e \in Device, PollUnchanged(e) \/ PollFailed(e) PROVE UNCHANGED <<poll, previous>>
  BY <1>5 DEF PollUnchanged, PollFailed, vars, listenVars
<1>6. ASSUME NEW e \in Device, PollQuery(e) \/ Answered(e) PROVE Unfollowed'
  <2>1. e \in Listeners
    BY <1>6 DEF PollQuery, Listening, Answered, PollIgnored, PollDropped, PollApplied, AnswerTaken,
                Unfollowed
  <2>2. \A d \in Device \ Listeners : poll'[d] = poll[d] /\ previous'[d] = previous[d]
    BY <1>6, <2>1 DEF PollQuery, Answered, PollIgnored, PollDropped, PollApplied, AnswerTaken,
                      Typed, PollTyped
  <2> QED BY <2>2 DEF Unfollowed
<1>7. ASSUME NEW e \in Device, Relisten(e) \/ Restart(e) PROVE Unfollowed'
  <2>1. Idle.sent = FALSE
    BY DEF Idle
  <2> HIDE DEF Idle
  <2> QED BY <1>7, <2>1 DEF Relisten, Restart, Unfollowed, Typed, PollTyped
<1> QED BY <1>1, <1>2, <1>3, <1>4, <1>5, <1>6, <1>7 DEF Next

LEMMA RestartsCounted ==
  ASSUME [Next]_vars PROVE restarts' = restarts \/ restarts' = restarts + 1
<1>1. CASE CallNext \/ UNCHANGED vars
  BY <1>1 DEF CallNext, Served, AnswerLost, Failed, vars, boundVars
<1>2. ASSUME NEW e \in Device, CoupleDidLink(e) \/ UserNext(e) \/ \E x \in edited[e] : AnniupdateItemSaved(e, x)
      PROVE  restarts' = restarts
  BY <1>2 DEF CoupleDidLink, UserNext, AddModel, AnniupdateItem, DeleteModel, OtherSave,
              AnniupdateItemSaved, boundVars
<1>3. ASSUME NEW e \in Device, WorkNext(e) \/ PullFailed(e) PROVE restarts' = restarts
  BY <1>3 DEF WorkNext, PullServed, UploadDone, ApplyDone, PullAnswered, PullEmpty, PullFailed,
              GivesUp, JobRuns, boundVars
<1>4. ASSUME NEW e \in Device,
             PollUnchanged(e) \/ PollQuery(e) \/ PollFailed(e) \/ Answered(e) \/ Relisten(e)
      PROVE  restarts' = restarts
  BY <1>4 DEF PollUnchanged, PollQuery, PollFailed, Answered, PollIgnored, PollDropped, PollApplied,
              AnswerTaken, Relisten, vars, boundVars
<1>5. ASSUME NEW e \in Device, Restart(e) PROVE restarts' = restarts + 1
  BY <1>5 DEF Restart
<1> QED BY <1>1, <1>2, <1>3, <1>4, <1>5 DEF Next

LEMMA NextKeeps == Typed /\ Backed /\ [Next]_vars => AllKept'
<1> SUFFICES ASSUME Typed, Backed, [Next]_vars, restarts' = 0,
                    NEW d \in Patient, NEW a \in private'[d]
             PROVE  Kept(d, a)'
  BY DEF AllKept
<1>1. d \in Device
  BY ConstantsAssumption
<1>2. CASE restarts = 0
  <2>1. a \in private[d] => Kept(d, a)
    BY <1>2 DEF Backed, AllKept
  <2>2. CASE UNCHANGED vars
    <3>1. Kept(d, a)
      BY <2>1, <2>2 DEF vars, historyVars
    <3> QED BY <2>2, <3>1, KeptLocally DEF vars, saveVars, serverVars, lockVars, listenVars,
                                          Has, Kept, NoDrop
  <2>3. CASE CallNext
    BY <1>1, <2>1, <2>3, CallKeeps DEF CallNext
  <2>4. ASSUME NEW e \in Device, CoupleDidLink(e) PROVE Kept(d, a)'
    BY <1>1, <2>1, <2>4, CoupleDidLinkKeeps DEF Backed
  <2>5. ASSUME NEW e \in Device, UserNext(e) PROVE Kept(d, a)'
    BY <1>1, <2>1, <2>5, AddModelKeeps, AnniupdateItemKeeps, DeleteModelKeeps, OtherSaveKeeps
       DEF UserNext, Backed
  <2>6. ASSUME NEW e \in Device, WorkNext(e) \/ PullFailed(e) PROVE Kept(d, a)'
    BY <1>1, <2>1, <2>6, JobRunsKeeps, PullKeeps, EndsKeep DEF WorkNext
  <2>7. ASSUME NEW e \in Device, NEW x \in edited[e], AnniupdateItemSaved(e, x) PROVE Kept(d, a)'
    BY <1>1, <2>1, <2>7, AnniupdateItemSavedKeeps
  <2>8. ASSUME NEW e \in Device,
               PollUnchanged(e) \/ PollQuery(e) \/ PollFailed(e) \/ Answered(e) \/ Relisten(e)
        PROVE  Kept(d, a)'
    BY <1>1, <2>1, <2>8, QueryKeeps, AnsweredKeeps
  <2>9. ASSUME NEW e \in Device, Restart(e) PROVE FALSE
    BY <1>2, <2>9 DEF Restart
  <2> QED BY <2>2, <2>3, <2>4, <2>5, <2>6, <2>7, <2>8, <2>9 DEF Next
<1>3. CASE restarts # 0
  <2>1. restarts' = restarts \/ restarts' = restarts + 1
    BY RestartsCounted
  <2> QED BY <1>3, <2>1 DEF Typed, HistoryTyped
<1> QED BY <1>2, <1>3

LEMMA InitBacked == Init => Backed
  BY ConstantsAssumption DEF Init, Backed, Unlinked, Unfollowed, AllKept, Idle

(* Without restarts, an anniversary that a patient user has stopped sharing*)
(* stays on the phone until they or the partner write or delete it again:  *)
(* registerRetainLocalAnniAfterCloudRemove covers the one removal that its *)
(* own deletion causes, however often answers are dropped and calls fail.  *)
THEOREM UnsharedStays == Spec => []UnsharedIsKept
<1>1. Typed /\ Backed /\ [Next]_vars => Backed'
  BY NextLinked, NextFollowed, NextKeeps DEF Backed
<1>2. Backed => UnsharedIsKept
  BY DEF Backed, AllKept, Kept, UnsharedIsKept
<1> QED BY <1>1, <1>2, InitTyped, NextTyped, InitBacked, PTL DEF Spec
================================================================================
