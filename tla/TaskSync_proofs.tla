---------------------------- MODULE TaskSync_proofs ----------------------------
(* Theorems about TaskSync, for every set of devices, tasks and poll slots  *)
(* and every bound.                                                         *)
EXTENDS TaskSync, TLAPS

-----------------------------------------------------------------------------
(* What a document and a poll look like.                                    *)
LEMMA NoDocType == NoDoc \in Doc /\ Absent \in Content /\ NoDocs \in [Task -> Doc]
  BY DEF NoDoc, Absent, Doc, Content, NoDocs

LEMMA IdlePollType == IdlePoll \in Poll
  BY NoDocType DEF IdlePoll, Poll

(* A write that is sent is well formed.                                     *)
LEMMA WriteType ==
    ASSUME TypeOK, NEW d \in Device, NEW t \in Task, NEW op \in {"set", "delete"},
           NEW data \in Content, NEW group \in Nat
    PROVE  Write(d, op, t, data, group) \in Request
  BY DEF Write, Request, TypeOK

(* The effect of a write leaves a collection of documents.                  *)
LEMMA EffectType ==
    ASSUME TypeOK, NEW r \in requests, Effect(r)
    PROVE  server' \in [Task -> Doc] /\ writes' \in Nat
  <1>1. r \in Request
    BY DEF TypeOK
  <1>2. [data |-> r.data, stamp |-> writes + 1] \in Doc
    BY <1>1 DEF TypeOK, Request, Doc
  <1>3. r.task \in Task
    BY <1>1 DEF Request
  <1>4. QED
    BY <1>2, <1>3, NoDocType DEF Effect, TypeOK

(* The observer keeps the types of the flag and of the batches.             *)
LEMMA HandleContextDidSaveType ==
    ASSUME TypeOK, NEW d \in Device, NEW ids \in SUBSET Task,
           HandleContextDidSave(d, ids)
    PROVE  /\ isLocalSyncing' \in [Device -> BOOLEAN]
           /\ batches' \in [Device -> SUBSET [id : Nat, ids : SUBSET Task]]
  <1>1. [id |-> clock + 1, ids |-> ids] \in [id : Nat, ids : SUBSET Task]
    BY DEF TypeOK
  <1>2. Observed(d, {[id |-> clock + 1, ids |-> ids]})
            \subseteq [id : Nat, ids : SUBSET Task]
    BY <1>1 DEF Observed
  <1>3. batches[d] \cup Observed(d, {[id |-> clock + 1, ids |-> ids]})
            \in SUBSET [id : Nat, ids : SUBSET Task]
    BY <1>2 DEF TypeOK
  <1>4. QED
    BY <1>3 DEF HandleContextDidSave, TypeOK

-----------------------------------------------------------------------------
(* Every variable keeps its type: Core Data, the marks, the timers and the  *)
(* calls of DbManager, and the polls of TCBFirestoreCompat.                 *)
THEOREM TypeCorrect == Spec => []TypeOK
  <1>1. Init => TypeOK
    BY NoDocType, IdlePollType DEF Init, TypeOK
  <1>2. TypeOK /\ [Next]_vars => TypeOK'
    <2> SUFFICES ASSUME TypeOK, [Next]_vars PROVE TypeOK'
      OBVIOUS
    <2>1. ASSUME NEW r \in requests, Served(r) PROVE TypeOK'
      <3>1. r \in Request /\ r.dev \in Device
        BY DEF TypeOK, Request
      <3>2. unmarks' \in [Device -> SUBSET Request]
        BY <2>1, <3>1 DEF Served, TypeOK
      <3>3. QED
        BY <2>1, <3>2, EffectType
        DEF Served, TypeOK, markVars, pollVars, userVars, boundVars
    <2>2. ASSUME NEW r \in requests, AnswerLost(r) PROVE TypeOK'
      <3>1. [r EXCEPT !.state = "lost"] \in Request
        BY DEF TypeOK, Request
      <3>2. requests' \in SUBSET Request /\ faults' \in Nat
        <4>1. requests' = (requests \ {r}) \cup {[r EXCEPT !.state = "lost"]}
          BY <2>2 DEF AnswerLost
        <4>2. faults' \in Nat
          BY <2>2 DEF AnswerLost, TypeOK
        <4>3. QED
          BY <3>1, <4>1, <4>2 DEF TypeOK
      <3>3. server' \in [Task -> Doc] /\ writes' \in Nat
        BY <2>2, EffectType DEF AnswerLost
      <3>4. QED
        BY <2>2, <3>2, <3>3
        DEF AnswerLost, TypeOK, markVars, timerVars, pollVars, userVars
    <2>3. ASSUME NEW r \in requests, Failed(r) PROVE TypeOK'
      <3>1. requests' \in SUBSET Request /\ faults' \in Nat
        BY <2>3 DEF Failed, TypeOK
      <3>2. /\ syncingTaskIds' \in [Device -> SUBSET Task]
            /\ deletingTaskIds' \in [Device -> SUBSET Task]
        <4>1. MarkTakenBack(r)
          BY <2>3 DEF Failed
        <4>2. QED
          BY <4>1 DEF MarkTakenBack, TypeOK
      <3>3. QED
        BY <2>3, <3>1, <3>2
        DEF Failed, TypeOK, serverVars, timerVars, pollVars, userVars
    <2>4. ASSUME NEW d \in Device, NEW t \in Task, AddModel(d, t) PROVE TypeOK'
      <3> DEFINE task == [rev |-> clock + 1, done |-> FALSE]
                 w    == Write(d, "set", t, task, clock + 1)
      <3>1. task \in Content /\ clock' \in Nat
        BY <2>4 DEF TypeOK, Content, AddModel, UserSaves
      <3>2. w \in Request
        BY <3>1, WriteType DEF TypeOK
      <3>3. Observed(d, {w}) \subseteq Request /\ Observed(d, {t}) \subseteq Task
        BY <3>2 DEF Observed
      <3>4. requests' \in SUBSET Request /\ store' \in [Device -> [Task -> Content]]
        BY <2>4, <3>1, <3>3 DEF AddModel, TypeOK
      <3>5. syncingTaskIds' \in [Device -> SUBSET Task] /\ handedOver' \in SUBSET Task
        BY <2>4, <3>3 DEF AddModel, TypeOK
      <3>6. taskLastCompletedStatus' \in [Device -> [Task -> BOOLEAN]] /\ added' \in SUBSET Task
        BY <2>4 DEF AddModel, TypeOK
      <3>7. /\ isLocalSyncing' \in [Device -> BOOLEAN]
            /\ batches' \in [Device -> SUBSET [id : Nat, ids : SUBSET Task]]
        BY <2>4, HandleContextDidSaveType DEF AddModel
      <3>8. QED
        BY <2>4, <3>1, <3>4, <3>5, <3>6, <3>7
        DEF AddModel, TypeOK, serverVars, pollVars, boundVars
    <2>5. ASSUME NEW d \in Device, NEW t \in Task, NEW done \in BOOLEAN,
                 UpdateModel(d, t, done)
          PROVE  TypeOK'
      <3> DEFINE task == [rev |-> clock + 1, done |-> done]
                 w    == Write(d, "set", t, task, clock + 1)
                 w0   == Write(d, "set", t, task, 0)
      <3>1. task \in Content /\ clock' \in Nat
        BY <2>5 DEF TypeOK, Content, UpdateModel, UserSaves
      <3>2. w \in Request /\ w0 \in Request
        BY <3>1, WriteType DEF TypeOK
      <3>3. Observed(d, {w}) \subseteq Request
        BY <3>2 DEF Observed
      <3>4. requests' \in SUBSET Request /\ store' \in [Device -> [Task -> Content]]
        <4>1. requests' = requests \cup Observed(d, {w}) \cup {w0}
          BY <2>5 DEF UpdateModel
        <4>2. store' = [store EXCEPT ![d][t] = task]
          BY <2>5 DEF UpdateModel
        <4>3. requests' \in SUBSET Request
          BY <3>2, <3>3, <4>1 DEF TypeOK
        <4>4. QED
          BY <3>1, <4>2, <4>3 DEF TypeOK
      <3>5. /\ syncingTaskIds' \in [Device -> SUBSET Task]
            /\ taskLastCompletedStatus' \in [Device -> [Task -> BOOLEAN]]
        BY <2>5 DEF UpdateModel, TypeOK
      <3>6. /\ isLocalSyncing' \in [Device -> BOOLEAN]
            /\ batches' \in [Device -> SUBSET [id : Nat, ids : SUBSET Task]]
        BY <2>5, HandleContextDidSaveType DEF UpdateModel
      <3>7. QED
        BY <2>5, <3>1, <3>4, <3>5, <3>6
        DEF UpdateModel, TypeOK, serverVars, pollVars, userVars, boundVars
    <2>6. ASSUME NEW d \in Device, NEW t \in Task, UpdateItem(d, t) PROVE TypeOK'
      <3>1. [store[d][t] EXCEPT !.rev = clock + 1] \in Content /\ clock' \in Nat
        <4>1. store[d][t] \in Content /\ clock + 1 \in Nat
          BY DEF TypeOK
        <4>2. clock' = clock + 1
          BY <2>6 DEF UpdateItem, UserSaves
        <4>3. [store[d][t] EXCEPT !.rev = clock + 1] \in Content
          BY <4>1 DEF Content
        <4>4. QED
          BY <4>1, <4>2, <4>3
      <3>2. store' \in [Device -> [Task -> Content]]
        BY <2>6, <3>1 DEF UpdateItem, TypeOK
      <3>3. [task |-> t, seq |-> clock + 1] \in [task : Task, seq : Nat]
        BY DEF TypeOK
      <3>4. edited' \in [Device -> SUBSET [task : Task, seq : Nat]]
        BY <2>6, <3>3 DEF UpdateItem, TypeOK
      <3>5. QED
        BY <2>6, <3>1, <3>2, <3>4
        DEF UpdateItem, TypeOK, serverVars, markVars, pollVars, userVars, boundVars
    <2>7. ASSUME NEW d \in Device, NEW e \in edited[d], UpdateItemSaved(d, e)
          PROVE  TypeOK'
      <3>1. e.task \in Task /\ store[d][e.task] \in Content
        BY DEF TypeOK
      <3>2. Write(d, "set", e.task, store[d][e.task], 0) \in Request
        BY <3>1, WriteType
      <3>3. requests' \in SUBSET Request
        BY <2>7, <3>2 DEF UpdateItemSaved, TypeOK
      <3>4. store[d][e.task].done \in BOOLEAN
        BY <3>1 DEF Content
      <3>5. /\ syncingTaskIds' \in [Device -> SUBSET Task]
            /\ taskLastCompletedStatus' \in [Device -> [Task -> BOOLEAN]]
        <4>1. CASE store[d][e.task] = Absent
          BY <2>7, <4>1 DEF UpdateItemSaved, TypeOK
        <4>2. CASE store[d][e.task] # Absent
          <5>1. syncingTaskIds' = [syncingTaskIds EXCEPT ![d] = @ \cup {e.task}]
            BY <2>7, <4>2 DEF UpdateItemSaved
          <5>2. taskLastCompletedStatus' =
                  [taskLastCompletedStatus EXCEPT ![d][e.task] = store[d][e.task].done]
            BY <2>7, <4>2 DEF UpdateItemSaved
          <5>3. QED
            BY <3>1, <3>4, <5>1, <5>2 DEF TypeOK
        <4>3. QED
          BY <4>1, <4>2
      <3>6. edited' \in [Device -> SUBSET [task : Task, seq : Nat]] /\ clock' \in Nat
        BY <2>7 DEF UpdateItemSaved, TypeOK
      <3>7. QED
        BY <2>7, <3>3, <3>5, <3>6
        DEF UpdateItemSaved, TypeOK, serverVars, pollVars, userVars, boundVars
    <2>8. ASSUME NEW d \in Device, NEW t \in Task, DeleteModel(d, t) PROVE TypeOK'
      <3> DEFINE w  == Write(d, "delete", t, Absent, clock + 1)
                 w0 == Write(d, "delete", t, Absent, 0)
      <3>1. w \in Request /\ w0 \in Request
        BY WriteType, NoDocType DEF TypeOK
      <3>2. Observed(d, {w}) \subseteq Request
        BY <3>1 DEF Observed
      <3>3. requests' \in SUBSET Request
        BY <2>8, <3>1, <3>2 DEF DeleteModel, TypeOK
      <3>4. /\ store' \in [Device -> [Task -> Content]]
            /\ deletingTaskIds' \in [Device -> SUBSET Task]
            /\ taskLastCompletedStatus' \in [Device -> [Task -> BOOLEAN]]
            /\ deleted' \in SUBSET Task /\ clock' \in Nat
        BY <2>8, NoDocType DEF DeleteModel, UserSaves, TypeOK
      <3>5. /\ isLocalSyncing' \in [Device -> BOOLEAN]
            /\ batches' \in [Device -> SUBSET [id : Nat, ids : SUBSET Task]]
        BY <2>8, HandleContextDidSaveType DEF DeleteModel
      <3>6. QED
        BY <2>8, <3>3, <3>4, <3>5
        DEF DeleteModel, TypeOK, serverVars, pollVars, boundVars
    <2>9. ASSUME NEW d \in Device, OtherManagerSaves(d) PROVE TypeOK'
      <3>1. /\ isLocalSyncing' \in [Device -> BOOLEAN]
            /\ batches' \in [Device -> SUBSET [id : Nat, ids : SUBSET Task]]
        BY <2>9, HandleContextDidSaveType DEF OtherManagerSaves
      <3>2. QED
        BY <2>9, <3>1
        DEF OtherManagerSaves, UserSaves, TypeOK, serverVars, pollVars, userVars, boundVars
    <2>10. ASSUME NEW d \in Device, NEW u \in unmarks[d], UnmarkDeleted(d, u)
           PROVE  TypeOK'
      BY <2>10 DEF UnmarkDeleted, TypeOK, serverVars, pollVars, userVars, boundVars
    <2>11. ASSUME NEW d \in Device, NEW b \in batches[d], BatchDone(d, b)
           PROVE  TypeOK'
      BY <2>11 DEF BatchDone, TypeOK, serverVars, pollVars, userVars, boundVars
    <2>12. ASSUME NEW d \in Device, Restart(d) PROVE TypeOK'
      <3>1. [t \in Task |-> store[d][t].done] \in [Task -> BOOLEAN]
        BY DEF TypeOK, Content
      <3>2. [s \in Slot |-> IdlePoll] \in [Slot -> Poll]
        BY IdlePollType
      <3>3. /\ polls' \in [Device -> [Slot -> Poll]]
            /\ taskLastCompletedStatus' \in [Device -> [Task -> BOOLEAN]]
            /\ previous' \in [Device -> [Task -> Doc]]
        BY <2>12, <3>1, <3>2, NoDocType DEF Restart, TypeOK
      <3>4. QED
        BY <2>12, <3>3 DEF Restart, TypeOK, serverVars, userVars
    <2>13. ASSUME NEW d \in Device, NEW s \in Slot, PollNext(d, s) PROVE TypeOK'
      <3>1. polls[d][s] \in Poll /\ polls[d][s].snap \in [Task -> Doc]
        BY DEF TypeOK, Poll
      <3>2. CASE PollQuery(d, s)
        <4>1. [IdlePoll EXCEPT !.phase = "asked", !.snap = server] \in Poll
          BY IdlePollType DEF Poll, TypeOK
        <4>2. QED
          BY <3>2, <4>1
          DEF PollQuery, TypeOK, serverVars, markVars, timerVars, userVars, boundVars
      <3>3. CASE PollFailed(d, s)
        BY <3>3, IdlePollType
        DEF PollFailed, TypeOK, serverVars, markVars, timerVars, userVars
      <3>4. CASE PollIgnored(d, s)
        BY <3>1, <3>4, IdlePollType
        DEF PollIgnored, AnswerTaken, TypeOK, serverVars, markVars, timerVars, userVars, boundVars
      <3>5. CASE PollApplied(d, s)
        <4> DEFINE job == [t \in Task |-> IF t \in Accepted(d, s) THEN "save" ELSE "none"]
        <4>1. [[polls[d][s] EXCEPT !.phase = "applying"] EXCEPT !.job = job] \in Poll
          BY <3>1 DEF Poll
        <4>2. polls' \in [Device -> [Slot -> Poll]]
          BY <3>5, <4>1 DEF PollApplied, TypeOK
        <4>3. previous' \in [Device -> [Task -> Doc]] /\ first' \in [Device -> BOOLEAN]
          BY <3>1, <3>5 DEF PollApplied, AnswerTaken, TypeOK
        <4>4. QED
          BY <3>5, <4>2, <4>3
          DEF PollApplied, TypeOK, serverVars, timerVars, userVars, boundVars
      <3>6. CASE PollDone(d, s)
        BY <3>6, IdlePollType
        DEF PollDone, TypeOK, serverVars, timerVars, userVars, boundVars
      <3>7. ASSUME NEW t \in Task, SaveRemote(d, s, t) PROVE TypeOK'
        <4>1. polls[d][s].snap[t].data \in Content
          BY <3>1 DEF Doc
        <4>2. [polls[d][s] EXCEPT !.job[t] = "callback"] \in Poll
          BY <3>1 DEF Poll
        <4>3. polls' \in [Device -> [Slot -> Poll]]
          BY <3>7, <4>2 DEF SaveRemote, TypeOK
        <4>4. store' \in [Device -> [Task -> Content]]
          BY <3>7, <4>1 DEF SaveRemote, TypeOK
        <4>5. QED
          BY <3>7, <4>3, <4>4
          DEF SaveRemote, TypeOK, serverVars, markVars, timerVars, userVars, boundVars
      <3>8. ASSUME NEW t \in Task, RemoteSaved(d, s, t) PROVE TypeOK'
        <4>1. [polls[d][s] EXCEPT !.job[t] = "none"] \in Poll
          BY <3>1 DEF Poll
        <4>2. polls' \in [Device -> [Slot -> Poll]]
          BY <3>8, <4>1 DEF RemoteSaved, StatusFound, TypeOK
        <4>3. store[d][t].done \in BOOLEAN /\ taskLastCompletedStatus[d][t] \in BOOLEAN
          BY DEF TypeOK, Content
        <4>4. taskLastCompletedStatus' \in [Device -> [Task -> BOOLEAN]]
          BY <3>8, <4>3 DEF RemoteSaved, StatusFound, TypeOK
        <4>5. QED
          BY <3>8, <4>2, <4>4
          DEF RemoteSaved, TypeOK, serverVars, markVars, timerVars, userVars, boundVars
      <3>9. QED
        BY <2>13, <3>2, <3>3, <3>4, <3>5, <3>6, <3>7, <3>8 DEF PollNext
    <2>14. CASE UNCHANGED vars
      BY <2>14
      DEF vars, TypeOK, serverVars, markVars, timerVars, pollVars, userVars, boundVars
    <2>15. QED
      BY <2>1, <2>2, <2>3, <2>4, <2>5, <2>6, <2>7, <2>8, <2>9, <2>10, <2>11,
         <2>12, <2>13, <2>14 DEF Next, CallNext, UserNext, TimerNext
  <1>3. QED
    BY <1>1, <1>2, PTL DEF Spec
-----------------------------------------------------------------------------
(* isLocalSyncing always has an owner.  FlagHasOwner is inductive, given    *)
(* the types: what can disturb it is a step that sets the flag, ends a      *)
(* batch or ends a poll.                                                    *)

(* Steps that do none of the three.                                         *)
LEMMA FlagUndisturbed ==
    ASSUME FlagHasOwner,
           isLocalSyncing' = isLocalSyncing,
           batches' = batches,
           \A d \in Device, s \in Slot :
               polls[d][s].phase = "applying" => polls'[d][s].phase = "applying"
    PROVE  FlagHasOwner'
  BY DEF FlagHasOwner

(* The observer: either it was deaf, and the owner of the flag is still     *)
(* there, or it leaves a batch.                                             *)
LEMMA FlagAfterSave ==
    ASSUME TypeOK, FlagHasOwner, NEW d \in Device, NEW ids \in SUBSET Task,
           HandleContextDidSave(d, ids), polls' = polls
    PROVE  FlagHasOwner'
  <1> SUFFICES ASSUME NEW e \in Device, isLocalSyncing'[e]
               PROVE  batches'[e] # {} \/ \E s \in Slot : polls[e][s].phase = "applying"
    BY DEF FlagHasOwner
  <1>1. CASE e # d
    BY <1>1 DEF FlagHasOwner, HandleContextDidSave, TypeOK
  <1>2. CASE e = d /\ isLocalSyncing[d]
    BY <1>2 DEF FlagHasOwner, HandleContextDidSave, Observed, TypeOK
  <1>3. CASE e = d /\ ~ isLocalSyncing[d]
    <2>1. [id |-> clock + 1, ids |-> ids] \in batches'[d]
      BY <1>3 DEF HandleContextDidSave, Observed, TypeOK
    <2>2. QED
      BY <1>3, <2>1
  <1>4. QED
    BY <1>1, <1>2, <1>3

LEMMA FlagStep == TypeOK /\ FlagHasOwner /\ [Next]_vars => FlagHasOwner'
  <1> SUFFICES ASSUME TypeOK, FlagHasOwner, [Next]_vars PROVE FlagHasOwner'
    OBVIOUS
  <1>1. ASSUME NEW r \in requests, Served(r) \/ AnswerLost(r) \/ Failed(r)
        PROVE  FlagHasOwner'
    BY <1>1, FlagUndisturbed
    DEF Served, AnswerLost, Failed, markVars, timerVars, pollVars
  <1>2. ASSUME NEW d \in Device, UserNext(d) PROVE FlagHasOwner'
    <2>1. ASSUME NEW t \in Task, AddModel(d, t) PROVE FlagHasOwner'
      BY <2>1, FlagAfterSave DEF AddModel, pollVars
    <2>2. ASSUME NEW t \in Task, NEW done \in BOOLEAN, UpdateModel(d, t, done)
          PROVE  FlagHasOwner'
      BY <2>2, FlagAfterSave DEF UpdateModel, pollVars
    <2>3. ASSUME NEW t \in Task, UpdateItem(d, t) PROVE FlagHasOwner'
      BY <2>3, FlagUndisturbed DEF UpdateItem, markVars, pollVars
    <2>4. ASSUME NEW t \in Task, DeleteModel(d, t) PROVE FlagHasOwner'
      BY <2>4, FlagAfterSave DEF DeleteModel, pollVars
    <2>5. CASE OtherManagerSaves(d)
      BY <2>5, FlagAfterSave DEF OtherManagerSaves, pollVars
    <2>6. QED
      BY <1>2, <2>1, <2>2, <2>3, <2>4, <2>5 DEF UserNext
  <1>3. ASSUME NEW d \in Device, TimerNext(d) PROVE FlagHasOwner'
    <2>1. ASSUME NEW e \in edited[d], UpdateItemSaved(d, e) PROVE FlagHasOwner'
      BY <2>1, FlagUndisturbed DEF UpdateItemSaved, pollVars
    <2>2. ASSUME NEW u \in unmarks[d], UnmarkDeleted(d, u) PROVE FlagHasOwner'
      BY <2>2, FlagUndisturbed DEF UnmarkDeleted, pollVars
    <2>3. ASSUME NEW b \in batches[d], BatchDone(d, b) PROVE FlagHasOwner'
      BY <2>3 DEF BatchDone, FlagHasOwner, TypeOK, pollVars
    <2>4. QED
      BY <1>3, <2>1, <2>2, <2>3 DEF TimerNext
  <1>4. ASSUME NEW d \in Device, Restart(d) PROVE FlagHasOwner'
    BY <1>4 DEF Restart, FlagHasOwner, TypeOK
  <1>5. ASSUME NEW d \in Device, NEW s \in Slot, PollNext(d, s) PROVE FlagHasOwner'
    <2>1. CASE PollQuery(d, s) \/ PollFailed(d, s) \/ PollIgnored(d, s)
      <3>1. \A e \in Device, c \in Slot :
              polls[e][c].phase = "applying" => polls'[e][c] = polls[e][c]
        <4>1. polls[d][s].phase # "applying"
          BY <2>1 DEF PollQuery, PollFailed, PollIgnored, AnswerTaken, Asked
        <4>2. PICK q : polls' = [polls EXCEPT ![d][s] = q]
          BY <2>1 DEF PollQuery, PollFailed, PollIgnored
        <4>3. QED
          BY <4>1, <4>2 DEF TypeOK
      <3>2. isLocalSyncing' = isLocalSyncing /\ batches' = batches
        BY <2>1 DEF PollQuery, PollFailed, PollIgnored, markVars, timerVars
      <3>3. QED
        BY <3>1, <3>2, FlagUndisturbed
    <2>2. CASE PollApplied(d, s)
      <3>1. polls'[d][s].phase = "applying"
        BY <2>2 DEF PollApplied, TypeOK, Poll
      <3>2. \A e \in Device : e # d => polls'[e] = polls[e]
        BY <2>2 DEF PollApplied, TypeOK
      <3>3. QED
        BY <2>2, <3>1, <3>2 DEF PollApplied, FlagHasOwner, TypeOK, timerVars
    <2>3. CASE PollDone(d, s)
      BY <2>3 DEF PollDone, FlagHasOwner, TypeOK, timerVars
    <2>4. ASSUME NEW t \in Task, SaveRemote(d, s, t) \/ RemoteSaved(d, s, t)
          PROVE  FlagHasOwner'
      <3>1. \A e \in Device, c \in Slot : polls'[e][c].phase = polls[e][c].phase
        <4>1. PICK j \in {"callback", "none"} :
                polls' = [polls EXCEPT ![d][s].job[t] = j]
          BY <2>4 DEF SaveRemote, RemoteSaved
        <4>2. QED
          BY <4>1 DEF TypeOK, Poll
      <3>2. QED
        BY <2>4, <3>1, FlagUndisturbed DEF SaveRemote, RemoteSaved, markVars, timerVars
    <2>5. QED
      BY <1>5, <2>1, <2>2, <2>3, <2>4 DEF PollNext
  <1>6. CASE UNCHANGED vars
    BY <1>6, FlagUndisturbed DEF vars, markVars, timerVars, pollVars
  <1>7. QED
    BY <1>1, <1>2, <1>3, <1>4, <1>5, <1>6 DEF Next, CallNext

(* The observer of local saves is never left deaf for good: whenever the    *)
(* flag is set, a timer or a poll in progress will clear it.                *)
THEOREM FlagAlwaysOwned == Spec => []FlagHasOwner
  <1>1. Init => FlagHasOwner
    BY DEF Init, FlagHasOwner
  <1>2. QED
    BY <1>1, FlagStep, TypeCorrect, PTL DEF Spec
-----------------------------------------------------------------------------
(* deletingTaskIds.  DeleteMarkHasOwner is inductive, given the types: a    *)
(* mark is added with its request, a request that leaves takes the mark     *)
(* along or hands it to a timer, and a timer takes it along.                *)
LEMMA DeleteMarkUndisturbed ==
    ASSUME DeleteMarkHasOwner,
           deletingTaskIds' = deletingTaskIds,
           unmarks' = unmarks,
           requests \subseteq requests'
    PROVE  DeleteMarkHasOwner'
  BY DEF DeleteMarkHasOwner

LEMMA DeleteMarkStep == TypeOK /\ DeleteMarkHasOwner /\ [Next]_vars => DeleteMarkHasOwner'
  <1> SUFFICES ASSUME TypeOK, DeleteMarkHasOwner, [Next]_vars
               PROVE  DeleteMarkHasOwner'
    OBVIOUS
  <1>1. ASSUME NEW r \in requests, Served(r) PROVE DeleteMarkHasOwner'
    <2>1. r \in Request
      BY DEF TypeOK
    <2>2. \A e \in Device : unmarks[e] \subseteq unmarks'[e]
      BY <1>1, <2>1 DEF Served, TypeOK
    <2>3. r.op = "delete" => r \in unmarks'[r.dev]
      BY <1>1, <2>1 DEF Served, TypeOK, Request
    <2>4. requests' = requests \ {r} /\ deletingTaskIds' = deletingTaskIds
      BY <1>1 DEF Served, markVars
    <2>5. QED
      BY <2>2, <2>3, <2>4 DEF DeleteMarkHasOwner
  <1>2. ASSUME NEW r \in requests, AnswerLost(r) PROVE DeleteMarkHasOwner'
    <2> DEFINE l == [r EXCEPT !.state = "lost"]
    <2>1. r \in Request
      BY DEF TypeOK
    <2>2. l.dev = r.dev /\ l.op = r.op /\ l.task = r.task
      BY <2>1 DEF Request
    <2>3. requests' = (requests \ {r}) \cup {l}
      BY <1>2 DEF AnswerLost
    <2>4. deletingTaskIds' = deletingTaskIds /\ unmarks' = unmarks
      BY <1>2 DEF AnswerLost, markVars, timerVars
    <2>5. SUFFICES ASSUME NEW e \in Device, NEW t \in deletingTaskIds[e],
                          NEW q \in requests, q.dev = e /\ q.op = "delete" /\ q.task = t
                   PROVE  \E p \in requests' : p.dev = e /\ p.op = "delete" /\ p.task = t
      BY <2>4 DEF DeleteMarkHasOwner
    <2>6. CASE q = r
      <3>1. l.dev = e /\ l.op = "delete" /\ l.task = t
        BY <2>2, <2>5, <2>6
      <3>2. QED
        BY <2>3, <3>1
    <2>7. CASE q # r
      BY <2>3, <2>5, <2>7
    <2>8. QED
      BY <2>6, <2>7
  <1>3. ASSUME NEW r \in requests, Failed(r) PROVE DeleteMarkHasOwner'
    <2>1. requests' = requests \ {r} /\ unmarks' = unmarks
      BY <1>3 DEF Failed, timerVars
    <2>2. \A e \in Device : deletingTaskIds'[e] \subseteq deletingTaskIds[e]
      BY <1>3 DEF Failed, MarkTakenBack, TypeOK
    <2>3. r.op = "delete" => r.task \notin deletingTaskIds'[r.dev]
      BY <1>3 DEF Failed, MarkTakenBack, TypeOK, Request
    <2>4. QED
      BY <2>1, <2>2, <2>3 DEF DeleteMarkHasOwner
  <1>4. ASSUME NEW d \in Device, UserNext(d) PROVE DeleteMarkHasOwner'
    <2>1. ASSUME NEW t \in Task, AddModel(d, t) PROVE DeleteMarkHasOwner'
      BY <2>1, DeleteMarkUndisturbed DEF AddModel
    <2>2. ASSUME NEW t \in Task, NEW done \in BOOLEAN, UpdateModel(d, t, done)
          PROVE  DeleteMarkHasOwner'
      BY <2>2, DeleteMarkUndisturbed DEF UpdateModel
    <2>3. ASSUME NEW t \in Task, UpdateItem(d, t) PROVE DeleteMarkHasOwner'
      BY <2>3, DeleteMarkUndisturbed DEF UpdateItem, markVars
    <2>4. ASSUME NEW t \in Task, DeleteModel(d, t) PROVE DeleteMarkHasOwner'
      <3> DEFINE w == Write(d, "delete", t, Absent, 0)
      <3>1. w \in requests' /\ requests \subseteq requests' /\ unmarks' = unmarks
        BY <2>4 DEF DeleteModel
      <3>2. w.dev = d /\ w.op = "delete" /\ w.task = t
        BY DEF Write
      <3>3. \A e \in Device : \A x \in deletingTaskIds'[e] :
                x \in deletingTaskIds[e] \/ (e = d /\ x = t)
        BY <2>4 DEF DeleteModel, TypeOK
      <3>4. QED
        BY <3>1, <3>2, <3>3 DEF DeleteMarkHasOwner
    <2>5. CASE OtherManagerSaves(d)
      BY <2>5, DeleteMarkUndisturbed DEF OtherManagerSaves
    <2>6. QED
      BY <1>4, <2>1, <2>2, <2>3, <2>4, <2>5 DEF UserNext
  <1>5. ASSUME NEW d \in Device, TimerNext(d) PROVE DeleteMarkHasOwner'
    <2>1. ASSUME NEW e \in edited[d], UpdateItemSaved(d, e) PROVE DeleteMarkHasOwner'
      <3>1. requests \subseteq requests'
        BY <2>1 DEF UpdateItemSaved
      <3>2. QED
        BY <2>1, <3>1, DeleteMarkUndisturbed DEF UpdateItemSaved
    <2>2. ASSUME NEW u \in unmarks[d], UnmarkDeleted(d, u) PROVE DeleteMarkHasOwner'
      <3>1. \A e \in Device : deletingTaskIds'[e] =
                IF e = d THEN deletingTaskIds[e] \ {u.task} ELSE deletingTaskIds[e]
        BY <2>2 DEF UnmarkDeleted, TypeOK
      <3>2. \A e \in Device : unmarks'[e] =
                IF e = d THEN unmarks[e] \ {u} ELSE unmarks[e]
        BY <2>2 DEF UnmarkDeleted, TypeOK
      <3>3. requests' = requests
        BY <2>2 DEF UnmarkDeleted
      <3>4. ASSUME NEW e \in Device, NEW t \in deletingTaskIds'[e], ~ \E r \in requests :
                     r.dev = e /\ r.op = "delete" /\ r.task = t
            PROVE  \E v \in unmarks'[e] : v.task = t
        <4>1. t \in deletingTaskIds[e] /\ (e = d => t # u.task)
          BY <3>1
        <4>2. PICK v \in unmarks[e] : v.task = t
          BY <3>4, <4>1 DEF DeleteMarkHasOwner
        <4>3. QED
          BY <3>2, <4>1, <4>2
      <3>5. QED
        BY <3>3, <3>4 DEF DeleteMarkHasOwner
    <2>3. ASSUME NEW b \in batches[d], BatchDone(d, b) PROVE DeleteMarkHasOwner'
      BY <2>3, DeleteMarkUndisturbed DEF BatchDone
    <2>4. QED
      BY <1>5, <2>1, <2>2, <2>3 DEF TimerNext
  <1>6. ASSUME NEW d \in Device, Restart(d) PROVE DeleteMarkHasOwner'
    <2>1. \A e \in Device : deletingTaskIds'[e] = IF e = d THEN {} ELSE deletingTaskIds[e]
      BY <1>6 DEF Restart, TypeOK
    <2>2. \A e \in Device : e # d => unmarks'[e] = unmarks[e]
      BY <1>6 DEF Restart, TypeOK
    <2>3. requests' = {r \in requests : r.dev # d}
      BY <1>6 DEF Restart
    <2>4. QED
      BY <2>1, <2>2, <2>3 DEF DeleteMarkHasOwner
  <1>7. ASSUME NEW d \in Device, NEW s \in Slot, PollNext(d, s) PROVE DeleteMarkHasOwner'
    BY <1>7, DeleteMarkUndisturbed
    DEF PollNext, PollQuery, PollFailed, PollIgnored, PollApplied, PollDone,
        SaveRemote, RemoteSaved, markVars, timerVars
  <1>8. CASE UNCHANGED vars
    BY <1>8, DeleteMarkUndisturbed DEF vars, markVars, timerVars
  <1>9. QED
    BY <1>1, <1>2, <1>3, <1>4, <1>5, <1>6, <1>7, <1>8 DEF Next, CallNext

(* No delete, however it ends, leaves its task marked for good: a mark that *)
(* outlived its owner would hide the partner's later removals.              *)
THEOREM DeleteMarkAlwaysOwned == Spec => []DeleteMarkHasOwner
  <1>1. Init => DeleteMarkHasOwner
    BY DEF Init, DeleteMarkHasOwner
  <1>2. QED
    BY <1>1, DeleteMarkStep, TypeCorrect, PTL DEF Spec

-----------------------------------------------------------------------------
(* A task handed to the observer stays in the collection or on its way.     *)
(* The invariant also has to say that only deleted tasks have a delete on   *)
(* its way, and that without a fault every request is still unanswered.     *)
DeletesAreOfDeleted == \A r \in requests : r.op = "delete" => r.task \in deleted
LostOnlyByFault     == faults = 0 => \A r \in requests : r.state = "sent"
KeptInv == HandedOverIsKept /\ DeletesAreOfDeleted /\ LostOnlyByFault

(* Steps that neither touch the collection nor take a request away.         *)
LEMMA KeptUndisturbed ==
    ASSUME HandedOverIsKept,
           server' = server,
           requests \subseteq requests',
           handedOver' \subseteq handedOver,
           deleted \subseteq deleted',
           faults' = faults, restarts' = restarts
    PROVE  HandedOverIsKept'
  BY DEF HandedOverIsKept

(* Requests that are added are of the two kinds the invariant allows.       *)
LEMMA RequestsAdded ==
    ASSUME DeletesAreOfDeleted, LostOnlyByFault,
           deleted \subseteq deleted', faults' = faults,
           \A r \in requests' : \/ r \in requests
                                \/ /\ r.state = "sent"
                                   /\ r.op = "delete" => r.task \in deleted'
    PROVE  DeletesAreOfDeleted' /\ LostOnlyByFault'
  BY DEF DeletesAreOfDeleted, LostOnlyByFault

LEMMA KeptCallStep ==
    ASSUME TypeOK, KeptInv, NEW r \in requests,
           Served(r) \/ AnswerLost(r) \/ Failed(r)
    PROVE  KeptInv'
  <1>1. r \in Request /\ r.task \in Task
    BY DEF TypeOK, Request
  <1>2. CASE Served(r)
    <2>1. /\ requests' = requests \ {r}
          /\ handedOver' = handedOver /\ deleted' = deleted
          /\ faults' = faults /\ restarts' = restarts
      BY <1>2 DEF Served, userVars, boundVars
    <2>2. DeletesAreOfDeleted' /\ LostOnlyByFault'
      BY <2>1 DEF KeptInv, DeletesAreOfDeleted, LostOnlyByFault
    <2>3. CASE r.op = "set"
      <3>1. server' = [server EXCEPT ![r.task] = [data |-> r.data, stamp |-> writes + 1]]
        BY <1>2, <2>3 DEF Served, Effect
      <3>2. [data |-> r.data, stamp |-> writes + 1] # NoDoc
        BY DEF NoDoc, TypeOK
      <3>3. \A t \in Task : server'[t] = IF t = r.task
                 THEN [data |-> r.data, stamp |-> writes + 1] ELSE server[t]
        BY <3>1 DEF TypeOK
      <3>4. HandedOverIsKept'
        <4>1. SUFFICES ASSUME faults = 0, restarts = 0, NEW t \in handedOver \ deleted
                       PROVE  \/ server'[t] # NoDoc
                              \/ \E q \in requests \ {r} :
                                     q.task = t /\ q.op = "set" /\ q.state = "sent"
          BY <2>1 DEF HandedOverIsKept
        <4>2. t \in Task
          BY DEF TypeOK
        <4>3. CASE t = r.task
          BY <3>2, <3>3, <4>2, <4>3
        <4>4. CASE t # r.task
          BY <3>3, <4>1, <4>2, <4>4 DEF KeptInv, HandedOverIsKept
        <4>5. QED
          BY <4>3, <4>4
      <3>5. QED
        BY <2>2, <3>4 DEF KeptInv
    <2>4. CASE r.op = "delete"
      <3>1. \A t \in Task : t # r.task => server'[t] = server[t]
        BY <1>2, <2>4 DEF Served, Effect, TypeOK
      <3>2. r.task \in deleted
        BY <2>4 DEF KeptInv, DeletesAreOfDeleted
      <3>3. HandedOverIsKept'
        <4>1. SUFFICES ASSUME faults = 0, restarts = 0, NEW t \in handedOver \ deleted
                       PROVE  \/ server'[t] # NoDoc
                              \/ \E q \in requests \ {r} :
                                     q.task = t /\ q.op = "set" /\ q.state = "sent"
          BY <2>1 DEF HandedOverIsKept
        <4>2. t \in Task /\ server'[t] = server[t]
          BY <3>1, <3>2 DEF TypeOK
        <4>3. QED
          BY <2>4, <4>1, <4>2 DEF KeptInv, HandedOverIsKept
      <3>4. QED
        BY <2>2, <3>3 DEF KeptInv
    <2>5. QED
      BY <1>1, <2>3, <2>4 DEF Request
  <1>3. CASE AnswerLost(r)
    <2> DEFINE l == [r EXCEPT !.state = "lost"]
    <2>1. faults' # 0
      BY <1>3 DEF AnswerLost, TypeOK
    <2>2. l.op = r.op /\ l.task = r.task
      BY <1>1 DEF Request
    <2>3. requests' = (requests \ {r}) \cup {l} /\ deleted' = deleted
      BY <1>3 DEF AnswerLost, userVars
    <2>4. QED
      BY <2>1, <2>2, <2>3 DEF KeptInv, HandedOverIsKept, DeletesAreOfDeleted, LostOnlyByFault
  <1>4. CASE Failed(r)
    <2>1. requests' = requests \ {r} /\ deleted' = deleted /\ restarts' = restarts
      BY <1>4 DEF Failed, userVars
    <2>2. faults' # 0
      BY <1>4 DEF Failed, TypeOK, KeptInv, LostOnlyByFault
    <2>3. QED
      BY <2>1, <2>2 DEF KeptInv, HandedOverIsKept, DeletesAreOfDeleted, LostOnlyByFault
  <1>5. QED
    BY <1>2, <1>3, <1>4

LEMMA KeptUserStep ==
    ASSUME TypeOK, KeptInv, NEW d \in Device, UserNext(d)
    PROVE  KeptInv'
  <1>1. \A op, t, data, group :
            LET w == Write(d, op, t, data, group) IN
            w.op = op /\ w.task = t /\ w.state = "sent"
    BY DEF Write
  <1>2. ASSUME NEW t \in Task, AddModel(d, t) PROVE KeptInv'
    <2> DEFINE w == Write(d, "set", t, [rev |-> clock + 1, done |-> FALSE], clock + 1)
    <2>1. /\ requests' = requests \cup Observed(d, {w})
          /\ handedOver' = handedOver \cup Observed(d, {t})
          /\ server' = server /\ deleted' = deleted
          /\ faults' = faults /\ restarts' = restarts
      BY <1>2 DEF AddModel, serverVars, boundVars
    <2>2. HandedOverIsKept'
      BY <1>1, <2>1 DEF KeptInv, HandedOverIsKept, Observed
    <2>3. QED
      BY <1>1, <2>1, <2>2, RequestsAdded DEF KeptInv, Observed
  <1>3. ASSUME NEW t \in Task, NEW done \in BOOLEAN, UpdateModel(d, t, done) PROVE KeptInv'
    <2>1. /\ requests \subseteq requests'
          /\ server' = server /\ handedOver' = handedOver /\ deleted' = deleted
          /\ faults' = faults /\ restarts' = restarts
      BY <1>3 DEF UpdateModel, serverVars, userVars, boundVars
    <2>2. \A r \in requests' : r \in requests \/ (r.state = "sent" /\ r.op = "set")
      BY <1>1, <1>3 DEF UpdateModel, Observed
    <2>3. QED
      BY <2>1, <2>2, KeptUndisturbed, RequestsAdded DEF KeptInv
  <1>4. ASSUME NEW t \in Task, DeleteModel(d, t) PROVE KeptInv'
    <2>1. /\ requests \subseteq requests'
          /\ server' = server /\ handedOver' = handedOver
          /\ deleted' = deleted \cup {t}
          /\ faults' = faults /\ restarts' = restarts
      BY <1>4 DEF DeleteModel, serverVars, boundVars
    <2>2. \A r \in requests' : r \in requests \/ (r.state = "sent" /\ r.task = t)
      BY <1>1, <1>4 DEF DeleteModel, Observed
    <2>3. QED
      BY <2>1, <2>2, KeptUndisturbed, RequestsAdded DEF KeptInv
  <1>5. ASSUME \/ \E t \in Task : UpdateItem(d, t)
               \/ OtherManagerSaves(d)
        PROVE  KeptInv'
    <2>1. /\ requests' = requests
          /\ server' = server /\ handedOver' = handedOver /\ deleted' = deleted
          /\ faults' = faults /\ restarts' = restarts
      BY <1>5 DEF UpdateItem, OtherManagerSaves, serverVars, userVars, boundVars
    <2>2. QED
      BY <2>1, KeptUndisturbed, RequestsAdded DEF KeptInv
  <1>6. QED
    BY <1>2, <1>3, <1>4, <1>5 DEF UserNext

LEMMA KeptStep == TypeOK /\ KeptInv /\ [Next]_vars => KeptInv'
  <1> SUFFICES ASSUME TypeOK, KeptInv, [Next]_vars PROVE KeptInv'
    OBVIOUS
  <1>1. ASSUME NEW d \in Device, NEW e \in edited[d], UpdateItemSaved(d, e) PROVE KeptInv'
    <2>1. /\ requests \subseteq requests'
          /\ server' = server /\ handedOver' = handedOver /\ deleted' = deleted
          /\ faults' = faults /\ restarts' = restarts
      BY <1>1 DEF UpdateItemSaved, serverVars, userVars, boundVars
    <2>2. \A r \in requests' : r \in requests \/ (r.state = "sent" /\ r.op = "set")
      BY <1>1 DEF UpdateItemSaved, Write
    <2>3. QED
      BY <2>1, <2>2, KeptUndisturbed, RequestsAdded DEF KeptInv
  <1>2. ASSUME NEW d \in Device, Restart(d) PROVE KeptInv'
    BY <1>2
    DEF Restart, KeptInv, HandedOverIsKept, DeletesAreOfDeleted, LostOnlyByFault,
        TypeOK, userVars
  <1>3. ASSUME NEW d \in Device,
               \/ \E u \in unmarks[d] : UnmarkDeleted(d, u)
               \/ \E b \in batches[d] : BatchDone(d, b)
        PROVE  KeptInv'
    BY <1>3, KeptUndisturbed, RequestsAdded
    DEF UnmarkDeleted, BatchDone, KeptInv, serverVars, userVars, boundVars
  <1>4. ASSUME NEW d \in Device, NEW s \in Slot, PollNext(d, s) PROVE KeptInv'
    <2>1. CASE PollFailed(d, s)
      BY <2>1
      DEF PollFailed, KeptInv, HandedOverIsKept, DeletesAreOfDeleted,
          LostOnlyByFault, TypeOK, userVars
    <2>2. CASE ~ PollFailed(d, s)
      <3>1. /\ requests' = requests
            /\ server' = server /\ handedOver' = handedOver /\ deleted' = deleted
            /\ faults' = faults /\ restarts' = restarts
        BY <1>4, <2>2
        DEF PollNext, PollQuery, PollIgnored, PollApplied, PollDone, SaveRemote,
            RemoteSaved, serverVars, userVars, boundVars
      <3>2. QED
        BY <3>1, KeptUndisturbed, RequestsAdded DEF KeptInv
    <2>3. QED
      BY <2>1, <2>2
  <1>5. CASE UNCHANGED vars
    BY <1>5, KeptUndisturbed, RequestsAdded
    DEF KeptInv, vars, serverVars, userVars, boundVars
  <1>6. QED
    BY <1>1, <1>2, <1>3, <1>4, <1>5, KeptCallStep, KeptUserStep
    DEF Next, CallNext, TimerNext

(* Nothing the partner, the listener or the timers do loses a task that the *)
(* observer has taken over.                                                 *)
THEOREM HandedOverAlwaysKept == Spec => []HandedOverIsKept
  <1>1. Init => KeptInv
    BY DEF Init, KeptInv, HandedOverIsKept, DeletesAreOfDeleted, LostOnlyByFault
  <1>2. KeptInv => HandedOverIsKept
    BY DEF KeptInv
  <1>3. QED
    BY <1>1, <1>2, KeptStep, TypeCorrect, PTL DEF Spec
-----------------------------------------------------------------------------
(* A device on which nobody edits.  It never marks a task nor sends a       *)
(* request, so the callback skips nothing; and as long as one poll is       *)
(* finished before the next is sent, jobs are left only of the last answer. *)
PassiveIsQuiet ==
    \A d \in Passive :
        /\ syncingTaskIds[d] = {} /\ deletingTaskIds[d] = {}
        /\ batches[d] = {} /\ unmarks[d] = {} /\ edited[d] = {}
        /\ \A r \in requests : r.dev # d

JobsAreOfLastAnswer ==
    \A d \in Passive, s \in Slot, t \in Task :
        polls[d][s].job[t] # "none" =>
            polls[d][s].phase = "applying" /\ polls[d][s].snap[t] = previous[d][t]

MirrorInv == PassiveIsQuiet /\ JobsAreOfLastAnswer /\ PassiveDeviceMirrors

LEMMA PassiveDevice == Passive \subseteq Device
  BY DEF Passive

LEMMA QuietStep == TypeOK /\ PassiveIsQuiet /\ [Next]_vars => PassiveIsQuiet'
  <1> SUFFICES ASSUME TypeOK, PassiveIsQuiet, [Next]_vars PROVE PassiveIsQuiet'
    OBVIOUS
  <1>1. ASSUME NEW r \in requests, Served(r) \/ AnswerLost(r) \/ Failed(r)
        PROVE  PassiveIsQuiet'
    <2>1. r \in Request /\ r.dev \in Device /\ r.dev \notin Passive
      BY DEF TypeOK, Request, PassiveIsQuiet
    <2>2. \A q \in requests' : \E p \in requests : q.dev = p.dev
      BY <1>1, <2>1 DEF Served, AnswerLost, Failed, Request
    <2>3. \A d \in Passive :
            /\ syncingTaskIds'[d] = syncingTaskIds[d]
            /\ deletingTaskIds'[d] = deletingTaskIds[d]
            /\ unmarks'[d] = unmarks[d]
      <3>1. CASE Served(r)
        BY <2>1, <3>1, PassiveDevice DEF Served, TypeOK, markVars
      <3>2. CASE AnswerLost(r)
        BY <3>2 DEF AnswerLost, markVars, timerVars
      <3>3. CASE Failed(r)
        BY <2>1, <3>3, PassiveDevice DEF Failed, MarkTakenBack, TypeOK, timerVars
      <3>4. QED
        BY <1>1, <3>1, <3>2, <3>3
    <2>4. batches' = batches /\ edited' = edited
      BY <1>1 DEF Served, AnswerLost, Failed, timerVars
    <2>5. QED
      BY <2>2, <2>3, <2>4 DEF PassiveIsQuiet
  <1>2. ASSUME NEW e \in Device, UserNext(e) PROVE PassiveIsQuiet'
    <2>1. e \notin Passive
      BY <1>2
      DEF UserNext, AddModel, UpdateModel, UpdateItem, DeleteModel,
          OtherManagerSaves, UserSaves, Passive
    <2>2. \A op, t, data, group : Write(e, op, t, data, group).dev = e
      BY DEF Write
    <2>3. \A q \in requests' : q \in requests \/ q.dev = e
      <3>1. CASE \E t \in Task : AddModel(e, t)
        BY <2>2, <3>1 DEF AddModel, Observed
      <3>2. CASE \E t \in Task, done \in BOOLEAN : UpdateModel(e, t, done)
        BY <2>2, <3>2 DEF UpdateModel, Observed
      <3>3. CASE \E t \in Task : DeleteModel(e, t)
        BY <2>2, <3>3 DEF DeleteModel, Observed
      <3>4. CASE (\E t \in Task : UpdateItem(e, t)) \/ OtherManagerSaves(e)
        BY <3>4 DEF UpdateItem, OtherManagerSaves
      <3>5. QED
        BY <1>2, <3>1, <3>2, <3>3, <3>4 DEF UserNext
    <2>4. \A d \in Device : d # e =>
            /\ syncingTaskIds'[d] = syncingTaskIds[d]
            /\ deletingTaskIds'[d] = deletingTaskIds[d]
      BY <1>2
      DEF UserNext, AddModel, UpdateModel, UpdateItem, DeleteModel,
          OtherManagerSaves, markVars, TypeOK
    <2>5. \A d \in Device : d # e =>
            batches'[d] = batches[d] /\ edited'[d] = edited[d]
      BY <1>2
      DEF UserNext, AddModel, UpdateModel, UpdateItem, DeleteModel,
          OtherManagerSaves, HandleContextDidSave, TypeOK
    <2>6. unmarks' = unmarks
      BY <1>2
      DEF UserNext, AddModel, UpdateModel, UpdateItem, DeleteModel, OtherManagerSaves
    <2>7. QED
      BY <2>1, <2>3, <2>4, <2>5, <2>6, PassiveDevice DEF PassiveIsQuiet
  <1>3. ASSUME NEW e \in Device, TimerNext(e) \/ Restart(e) PROVE PassiveIsQuiet'
    <2>1. e \notin Passive
      BY <1>3 DEF TimerNext, Restart, PassiveIsQuiet, Passive
    <2>2. \A q \in requests' : q \in requests \/ q.dev = e
      BY <1>3
      DEF TimerNext, UpdateItemSaved, UnmarkDeleted, BatchDone, Restart, Write
    <2>3. \A d \in Device : d # e =>
            /\ syncingTaskIds'[d] = syncingTaskIds[d]
            /\ deletingTaskIds'[d] = deletingTaskIds[d]
            /\ batches'[d] = batches[d]
            /\ unmarks'[d] = unmarks[d]
            /\ edited'[d] = edited[d]
      BY <1>3
      DEF TimerNext, UpdateItemSaved, UnmarkDeleted, BatchDone, Restart, TypeOK
    <2>4. QED
      BY <2>1, <2>2, <2>3, PassiveDevice DEF PassiveIsQuiet
  <1>4. ASSUME NEW d \in Device, NEW s \in Slot, PollNext(d, s) PROVE PassiveIsQuiet'
    <2>1. requests' = requests
      BY <1>4
      DEF PollNext, PollQuery, PollFailed, PollIgnored, PollApplied, PollDone,
          SaveRemote, RemoteSaved
    <2>2. /\ syncingTaskIds' = syncingTaskIds /\ deletingTaskIds' = deletingTaskIds
          /\ batches' = batches /\ unmarks' = unmarks /\ edited' = edited
      BY <1>4
      DEF PollNext, PollQuery, PollFailed, PollIgnored, PollApplied, PollDone,
          SaveRemote, RemoteSaved, markVars, timerVars
    <2>3. QED
      BY <2>1, <2>2 DEF PassiveIsQuiet
  <1>5. CASE UNCHANGED vars
    BY <1>5 DEF PassiveIsQuiet, vars, markVars, timerVars
  <1>6. QED
    BY <1>1, <1>2, <1>3, <1>4, <1>5 DEF Next, CallNext

(* A step that is not one of the device's own leaves its polls and store.   *)
LEMMA OthersLeaveDevice ==
    ASSUME TypeOK, PassiveIsQuiet, [Next]_vars, NEW d \in Passive,
           ~ \E s \in Slot : PollNext(d, s)
    PROVE  store'[d] = store[d] /\ polls'[d] = polls[d] /\ previous'[d] = previous[d]
  <1> USE PassiveDevice
  <1>1. ASSUME NEW r \in requests, Served(r) \/ AnswerLost(r) \/ Failed(r)
        PROVE  store' = store /\ polls' = polls /\ previous' = previous
    BY <1>1 DEF Served, AnswerLost, Failed, pollVars
  <1>2. ASSUME NEW e \in Device, UserNext(e)
        PROVE  store'[d] = store[d] /\ polls' = polls /\ previous' = previous
    <2>1. e # d
      BY <1>2
      DEF UserNext, AddModel, UpdateModel, UpdateItem, DeleteModel,
          OtherManagerSaves, UserSaves, Passive
    <2>2. QED
      BY <1>2, <2>1
      DEF UserNext, AddModel, UpdateModel, UpdateItem, DeleteModel,
          OtherManagerSaves, TypeOK, pollVars
  <1>3. ASSUME NEW e \in Device, TimerNext(e)
        PROVE  store' = store /\ polls' = polls /\ previous' = previous
    BY <1>3 DEF TimerNext, UpdateItemSaved, UnmarkDeleted, BatchDone, pollVars
  <1>4. ASSUME NEW e \in Device, Restart(e)
        PROVE  store' = store /\ polls'[d] = polls[d] /\ previous'[d] = previous[d]
    <2>1. e # d
      BY <1>4 DEF Restart, Passive
    <2>2. QED
      BY <1>4, <2>1 DEF Restart, TypeOK
  <1>5. ASSUME NEW e \in Device, NEW s \in Slot, PollNext(e, s), e # d
        PROVE  store'[d] = store[d] /\ polls'[d] = polls[d] /\ previous'[d] = previous[d]
    <2>1. store'[d] = store[d]
      BY <1>5
      DEF PollNext, PollQuery, PollFailed, PollIgnored, PollApplied, PollDone,
          SaveRemote, RemoteSaved, TypeOK
    <2>2. previous'[d] = previous[d]
      BY <1>5
      DEF PollNext, PollQuery, PollFailed, PollIgnored, PollApplied, PollDone,
          SaveRemote, RemoteSaved, AnswerTaken, TypeOK
    <2>3. polls'[d] = polls[d]
      BY <1>5
      DEF PollNext, PollQuery, PollFailed, PollIgnored, PollApplied, PollDone,
          SaveRemote, RemoteSaved, TypeOK
    <2>4. QED
      BY <2>1, <2>2, <2>3
  <1>6. CASE UNCHANGED vars
    BY <1>6 DEF vars, pollVars
  <1>7. QED
    BY <1>1, <1>2, <1>3, <1>4, <1>5, <1>6 DEF Next, CallNext
LEMMA MirrorStep ==
    ASSUME NEW c, Slot = {c}, TypeOK, MirrorInv, [Next]_vars
    PROVE  MirrorInv'
  <1> USE PassiveDevice DEF MirrorInv
  <1>1. SUFFICES ASSUME NEW d \in Passive, NEW t \in Task
                 PROVE  /\ polls'[d][c].job[t] # "none" =>
                               /\ polls'[d][c].phase = "applying"
                               /\ polls'[d][c].snap[t] = previous'[d][t]
                        /\ \/ polls'[d][c].job[t] = "save"
                           \/ store'[d][t] = previous'[d][t].data
    BY QuietStep DEF JobsAreOfLastAnswer, PassiveDeviceMirrors, Passive
  <1>2. /\ polls[d][c] \in Poll
        /\ polls[d][c].snap \in [Task -> Doc]
        /\ polls[d][c].job \in [Task -> {"none", "save", "callback"}]
    BY DEF TypeOK, Poll
  <1>3. /\ polls[d][c].job[t] # "none" =>
              polls[d][c].phase = "applying" /\ polls[d][c].snap[t] = previous[d][t]
        /\ polls[d][c].job[t] = "save" \/ store[d][t] = previous[d][t].data
    BY DEF JobsAreOfLastAnswer, PassiveDeviceMirrors
  <1>4. CASE ~ \E s \in Slot : PollNext(d, s)
    BY <1>3, <1>4, OthersLeaveDevice
  <1>5. IdlePoll.job[t] = "none"
    BY DEF IdlePoll
  <1>6. CASE PollQuery(d, c)
    <2>1. polls'[d][c] = [IdlePoll EXCEPT !.phase = "asked", !.snap = server]
      BY <1>6 DEF PollQuery, TypeOK
    <2>2. polls'[d][c].job[t] = "none"
      BY <1>5, <2>1 DEF IdlePoll
    <2>3. polls[d][c].job[t] = "none" /\ store' = store /\ previous' = previous
      BY <1>3, <1>6 DEF PollQuery
    <2>4. QED
      BY <1>3, <2>2, <2>3
  <1>7. CASE PollFailed(d, c) \/ PollDone(d, c)
    <2>1. polls'[d][c] = IdlePoll
      BY <1>7 DEF PollFailed, PollDone, TypeOK
    <2>2. polls[d][c].job[t] = "none" /\ store' = store /\ previous' = previous
      BY <1>3, <1>7 DEF PollFailed, PollDone, Asked
    <2>3. QED
      BY <1>3, <1>5, <2>1, <2>2
  <1>8. syncingTaskIds[d] = {} /\ deletingTaskIds[d] = {}
    BY DEF PassiveIsQuiet
  <1>9. CASE PollIgnored(d, c)
    <2>1. t \notin Changed(d, c)
      BY <1>8, <1>9 DEF PollIgnored, Handled, Delivered, Unmarked
    <2>2. polls[d][c].snap[t] = previous[d][t]
      BY <2>1 DEF Changed
    <2>3. polls'[d][c] = IdlePoll /\ store' = store
      BY <1>9 DEF PollIgnored, TypeOK
    <2>4. previous'[d] = polls[d][c].snap
      BY <1>9 DEF PollIgnored, AnswerTaken, TypeOK
    <2>5. polls[d][c].job[t] = "none"
      BY <1>3, <1>9 DEF PollIgnored, AnswerTaken, Asked
    <2>6. QED
      BY <1>3, <1>5, <2>2, <2>3, <2>4, <2>5
  <1>10. CASE PollApplied(d, c)
    <2> DEFINE job == [x \in Task |-> IF x \in Accepted(d, c) THEN "save" ELSE "none"]
    <2>1. t \in Accepted(d, c) <=> polls[d][c].snap[t] # previous[d][t]
      BY <1>8 DEF Accepted, Changed
    <2>2. polls'[d][c] = [[polls[d][c] EXCEPT !.phase = "applying"] EXCEPT !.job = job]
      BY <1>10 DEF PollApplied, TypeOK
    <2>3. /\ polls'[d][c].phase = "applying"
          /\ polls'[d][c].snap = polls[d][c].snap
          /\ polls'[d][c].job = job
      BY <1>2, <2>2 DEF Poll
    <2>4. previous'[d] = polls[d][c].snap /\ store' = store
      BY <1>10 DEF PollApplied, AnswerTaken, TypeOK
    <2>5. polls[d][c].job[t] = "none"
      BY <1>3, <1>10 DEF PollApplied, AnswerTaken, Asked
    <2>6. QED
      BY <1>3, <2>1, <2>3, <2>4, <2>5
  <1>11. ASSUME NEW u \in Task, SaveRemote(d, c, u) \/ RemoteSaved(d, c, u)
         PROVE  /\ polls'[d][c].phase = polls[d][c].phase
                /\ polls'[d][c].snap = polls[d][c].snap
                /\ u # t => polls'[d][c].job[t] = polls[d][c].job[t]
                /\ u = t => polls'[d][c].job[t] =
                                IF SaveRemote(d, c, u) THEN "callback" ELSE "none"
    <2>1. CASE SaveRemote(d, c, u)
      <3>1. polls'[d][c] = [polls[d][c] EXCEPT !.job[u] = "callback"]
        BY <2>1 DEF SaveRemote, TypeOK
      <3>2. QED
        BY <1>2, <2>1, <3>1 DEF Poll
    <2>2. CASE ~ SaveRemote(d, c, u)
      <3>1. polls'[d][c] = [polls[d][c] EXCEPT !.job[u] = "none"]
        <4>1. polls' = [polls EXCEPT ![d][c].job[u] = "none"]
          BY <1>11, <2>2 DEF RemoteSaved
        <4>2. QED
          BY <4>1, PassiveDevice DEF TypeOK
      <3>2. QED
        BY <1>2, <2>2, <3>1 DEF Poll
    <2>3. QED
      BY <2>1, <2>2
  <1>12. ASSUME NEW u \in Task, SaveRemote(d, c, u)
         PROVE  /\ store'[d][t] = IF u = t THEN polls[d][c].snap[t].data ELSE store[d][t]
                /\ previous' = previous
                /\ polls[d][c].job[u] = "save"
    BY <1>12 DEF SaveRemote, TypeOK
  <1>13. ASSUME NEW u \in Task, RemoteSaved(d, c, u)
         PROVE  store' = store /\ previous' = previous /\ polls[d][c].job[u] = "callback"
    BY <1>13 DEF RemoteSaved
  <1>14. CASE \E u \in Task : SaveRemote(d, c, u) \/ RemoteSaved(d, c, u)
    <2>1. PICK u \in Task : SaveRemote(d, c, u) \/ RemoteSaved(d, c, u)
      BY <1>14
    <2>2. CASE u # t
      BY <1>3, <1>11, <1>12, <1>13, <2>1, <2>2
    <2>3. CASE u = t /\ SaveRemote(d, c, t)
      BY <1>3, <1>11, <1>12, <2>3
    <2>4. CASE u = t /\ ~ SaveRemote(d, c, t)
      BY <1>3, <1>11, <1>13, <2>1, <2>4
    <2>5. QED
      BY <2>1, <2>2, <2>3, <2>4
  <1>15. QED
    BY <1>4, <1>6, <1>7, <1>9, <1>10, <1>14 DEF PollNext

(* As long as polls do not overlap, a phone on which nobody edits loses no  *)
(* change and applies none twice, whatever the other phone does and however *)
(* calls and polls fail.                                                    *)
THEOREM PassiveDeviceAlwaysMirrors ==
    ASSUME NEW c, Slot = {c}
    PROVE  Spec => []PassiveDeviceMirrors
  <1>1. Init => MirrorInv
    BY PassiveDevice
    DEF Init, MirrorInv, PassiveIsQuiet, JobsAreOfLastAnswer,
        PassiveDeviceMirrors, IdlePoll, NoDocs, NoDoc
  <1>2. TypeOK /\ MirrorInv /\ [Next]_vars => MirrorInv'
    BY MirrorStep
  <1>3. MirrorInv => PassiveDeviceMirrors
    BY DEF MirrorInv
  <1>4. QED
    BY <1>1, <1>2, <1>3, TypeCorrect, PTL DEF Spec
-----------------------------------------------------------------------------
(* The completion flags.  Nothing is known of a task before addModel hands  *)
(* out its id.                                                              *)
Unheard(t) ==
    /\ server[t] = NoDoc
    /\ \A r \in requests : r.task # t
    /\ \A d \in Device :
        /\ store[d][t] = Absent /\ previous[d][t] = NoDoc
        /\ \A e \in edited[d] : e.task # t
        /\ \A s \in Slot : polls[d][s].snap[t] = NoDoc /\ polls[d][s].job[t] = "none"

KnownAreAdded == \A t \in Task \ added : Unheard(t)

(* A step that does not hand out the id leaves a task unheard of.           *)
LEMMA UnheardCallStep ==
    ASSUME TypeOK, NEW t \in Task, Unheard(t), NEW r \in requests,
           Served(r) \/ AnswerLost(r) \/ Failed(r)
    PROVE  Unheard(t)'
  <1>1. r \in Request /\ r.task # t
    BY DEF TypeOK, Unheard
  <1>2. server'[t] = server[t]
    BY <1>1 DEF Served, AnswerLost, Failed, Effect, TypeOK, serverVars
  <1>3. \A q \in requests' : q.task # t
    <2>1. [r EXCEPT !.state = "lost"].task = r.task
      BY <1>1 DEF Request
    <2>2. \A q \in requests' : q \in requests \/ q = [r EXCEPT !.state = "lost"]
      BY DEF Served, AnswerLost, Failed
    <2>3. QED
      BY <1>1, <2>1, <2>2 DEF Unheard
  <1>4. store' = store /\ previous' = previous /\ edited' = edited /\ polls' = polls
    BY DEF Served, AnswerLost, Failed, timerVars, pollVars
  <1>5. QED
    BY <1>2, <1>3, <1>4 DEF Unheard

LEMMA UnheardUserStep ==
    ASSUME TypeOK, NEW t \in Task, t \notin added', Unheard(t),
           NEW d \in Device, UserNext(d)
    PROVE  Unheard(t)'
  <1>1. \A op, u, data, group : Write(d, op, u, data, group).task = u
    BY DEF Write
  <1>2. server' = server /\ previous' = previous /\ polls' = polls
    BY DEF UserNext, AddModel, UpdateModel, UpdateItem, DeleteModel,
           OtherManagerSaves, serverVars, pollVars
  <1>3. ASSUME NEW u \in Task, AddModel(d, u) PROVE Unheard(t)'
    <2>1. u # t
      BY <1>3 DEF AddModel
    <2>2. \A q \in requests' : q \in requests \/ q.task = u
      BY <1>1, <1>3 DEF AddModel, Observed
    <2>3. \A e \in Device : store'[e][t] = store[e][t]
      BY <1>3, <2>1 DEF AddModel, TypeOK
    <2>4. edited' = edited
      BY <1>3 DEF AddModel
    <2>5. QED
      BY <1>2, <2>1, <2>2, <2>3, <2>4 DEF Unheard
  <1>4. ASSUME NEW u \in Task, NEW done \in BOOLEAN, UpdateModel(d, u, done)
        PROVE  Unheard(t)'
    <2>1. u # t
      BY <1>4 DEF UpdateModel, Unheard
    <2>2. \A q \in requests' : q \in requests \/ q.task = u
      BY <1>1, <1>4 DEF UpdateModel, Observed
    <2>3. \A e \in Device : store'[e][t] = store[e][t]
      BY <1>4, <2>1 DEF UpdateModel, TypeOK
    <2>4. edited' = edited
      BY <1>4 DEF UpdateModel
    <2>5. QED
      BY <1>2, <2>1, <2>2, <2>3, <2>4 DEF Unheard
  <1>5. ASSUME NEW u \in Task, UpdateItem(d, u) PROVE Unheard(t)'
    <2>1. u # t
      BY <1>5 DEF UpdateItem, Unheard
    <2>2. requests' = requests
      BY <1>5 DEF UpdateItem
    <2>3. \A e \in Device : store'[e][t] = store[e][t]
      BY <1>5, <2>1 DEF UpdateItem, TypeOK
    <2>4. \A e \in Device : \A x \in edited'[e] : x \in edited[e] \/ x.task = u
      BY <1>5 DEF UpdateItem, TypeOK
    <2>5. QED
      BY <1>2, <2>1, <2>2, <2>3, <2>4 DEF Unheard
  <1>6. ASSUME NEW u \in Task, DeleteModel(d, u) PROVE Unheard(t)'
    <2>1. u # t
      BY <1>6 DEF DeleteModel, Unheard
    <2>2. \A q \in requests' : q \in requests \/ q.task = u
      BY <1>1, <1>6 DEF DeleteModel, Observed
    <2>3. \A e \in Device : store'[e][t] = store[e][t]
      BY <1>6, <2>1 DEF DeleteModel, TypeOK
    <2>4. edited' = edited
      BY <1>6 DEF DeleteModel
    <2>5. QED
      BY <1>2, <2>1, <2>2, <2>3, <2>4 DEF Unheard
  <1>7. CASE OtherManagerSaves(d)
    BY <1>2, <1>7 DEF OtherManagerSaves, Unheard
  <1>8. QED
    BY <1>3, <1>4, <1>5, <1>6, <1>7 DEF UserNext

LEMMA UnheardTimerStep ==
    ASSUME TypeOK, NEW t \in Task, Unheard(t), NEW d \in Device,
           TimerNext(d) \/ Restart(d)
    PROVE  Unheard(t)'
  <1>1. server' = server /\ store' = store
    BY DEF TimerNext, UpdateItemSaved, UnmarkDeleted, BatchDone, Restart, serverVars
  <1>2. \A q \in requests' : q \in requests \/ \E e \in edited[d] : q.task = e.task
    BY DEF TimerNext, UpdateItemSaved, UnmarkDeleted, BatchDone, Restart, Write
  <1>3. \A e \in Device : edited'[e] \subseteq edited[e]
    <2>1. CASE Restart(d)
      BY <2>1 DEF Restart, TypeOK
    <2>2. CASE \E e \in edited[d] : UpdateItemSaved(d, e)
      BY <2>2 DEF UpdateItemSaved, TypeOK
    <2>3. CASE ~ Restart(d) /\ ~ \E e \in edited[d] : UpdateItemSaved(d, e)
      BY <2>3 DEF TimerNext, UnmarkDeleted, BatchDone
    <2>4. QED
      BY <2>1, <2>2, <2>3
  <1>4. CASE TimerNext(d)
    <2>1. previous' = previous /\ polls' = polls
      BY <1>4 DEF TimerNext, UpdateItemSaved, UnmarkDeleted, BatchDone, pollVars
    <2>2. QED
      BY <1>1, <1>2, <1>3, <2>1 DEF Unheard
  <1>5. CASE Restart(d)
    <2>1. \A e \in Device, s \in Slot :
            polls'[e][s] = IF e = d THEN IdlePoll ELSE polls[e][s]
      BY <1>5 DEF Restart, TypeOK
    <2>2. \A e \in Device : previous'[e] = IF e = d THEN NoDocs ELSE previous[e]
      BY <1>5 DEF Restart, TypeOK
    <2>3. IdlePoll.snap[t] = NoDoc /\ IdlePoll.job[t] = "none" /\ NoDocs[t] = NoDoc
      BY DEF IdlePoll, NoDocs
    <2>4. QED
      BY <1>1, <1>2, <1>3, <2>1, <2>2, <2>3 DEF Unheard
  <1>6. QED
    BY <1>4, <1>5

(* The answer of a poll is a document of the collection, and so is what the *)
(* listener remembers and what it saves.                                    *)
LEMMA PollUpdate ==
    ASSUME TypeOK, NEW d \in Device, NEW s \in Slot, PollNext(d, s)
    PROVE  \/ polls' = [polls EXCEPT ![d][s] = IdlePoll]
           \/ \E q \in Poll :
                /\ polls' = [polls EXCEPT ![d][s] = q]
                /\ \/ PollQuery(d, s) /\ q = [IdlePoll EXCEPT !.phase = "asked", !.snap = server]
                   \/ /\ ~ PollQuery(d, s) /\ q.snap = polls[d][s].snap
                      /\ \A t \in Task : q.job[t] # "none" =>
                             polls[d][s].job[t] # "none" \/ t \in Changed(d, s)
  <1>1. polls[d][s] \in Poll
    BY DEF TypeOK
  <1>2. CASE PollQuery(d, s)
    <2>1. [IdlePoll EXCEPT !.phase = "asked", !.snap = server] \in Poll
      BY IdlePollType DEF Poll, TypeOK
    <2>2. polls' = [polls EXCEPT ![d][s] =
                       [IdlePoll EXCEPT !.phase = "asked", !.snap = server]]
      BY <1>2 DEF PollQuery
    <2>3. QED
      BY <1>2, <2>1, <2>2
  <1>3. CASE PollFailed(d, s) \/ PollIgnored(d, s) \/ PollDone(d, s)
    BY <1>3 DEF PollFailed, PollIgnored, PollDone
  <1>4. CASE PollApplied(d, s)
    <2> DEFINE job == [t \in Task |-> IF t \in Accepted(d, s) THEN "save" ELSE "none"]
               q   == [[polls[d][s] EXCEPT !.phase = "applying"] EXCEPT !.job = job]
    <2>1. polls' = [polls EXCEPT ![d][s] = q]
      BY <1>4 DEF PollApplied, TypeOK
    <2>2. q \in Poll /\ q.snap = polls[d][s].snap /\ q.job = job
      BY <1>1 DEF Poll
    <2>3. \A t \in Task : job[t] # "none" => t \in Changed(d, s)
      BY DEF Accepted
    <2>4. ~ PollQuery(d, s)
      BY <1>4 DEF PollApplied, AnswerTaken, Asked, PollQuery
    <2> HIDE DEF job, q
    <2>5. QED
      BY <2>1, <2>2, <2>3, <2>4
  <1>5. ASSUME NEW u \in Task, SaveRemote(d, s, u) \/ RemoteSaved(d, s, u), ~ PollQuery(d, s)
        PROVE  \E q \in Poll :
                 /\ polls' = [polls EXCEPT ![d][s] = q]
                 /\ q.snap = polls[d][s].snap
                 /\ \A t \in Task : q.job[t] # "none" => polls[d][s].job[t] # "none"
    <2>1. PICK j \in {"callback", "none"} : polls' = [polls EXCEPT ![d][s].job[u] = j]
      BY <1>5 DEF SaveRemote, RemoteSaved
    <2>2. polls[d][s].job[u] # "none"
      BY <1>5 DEF SaveRemote, RemoteSaved
    <2> DEFINE q == [polls[d][s] EXCEPT !.job[u] = j]
    <2>3. q \in Poll /\ q.snap = polls[d][s].snap
      BY <1>1 DEF Poll
    <2>4. \A t \in Task : q.job[t] = IF t = u THEN j ELSE polls[d][s].job[t]
      BY <1>1 DEF Poll
    <2>5. polls' = [polls EXCEPT ![d][s] = q]
      BY <2>1 DEF TypeOK
    <2> HIDE DEF q
    <2>6. QED
      BY <2>2, <2>3, <2>4, <2>5
  <1>6. QED
    BY <1>2, <1>3, <1>4, <1>5 DEF PollNext

LEMMA UnheardPollStep ==
    ASSUME TypeOK, NEW t \in Task, Unheard(t), NEW d \in Device, NEW s \in Slot,
           PollNext(d, s)
    PROVE  Unheard(t)'
  <1>1. server' = server /\ requests' = requests /\ edited' = edited
    BY DEF PollNext, PollQuery, PollFailed, PollIgnored, PollApplied, PollDone,
           SaveRemote, RemoteSaved, serverVars, timerVars
  <1> DEFINE Blank(p) == p.snap[t] = NoDoc /\ p.job[t] = "none"
  <1>2. \A e \in Device, c \in Slot : Blank(polls'[e][c])
    <2>1. \A e \in Device, c \in Slot : Blank(polls[e][c])
      BY DEF Unheard
    <2>2. Blank(IdlePoll) /\ t \notin Changed(d, s)
      BY DEF IdlePoll, NoDocs, Changed, Unheard
    <2>3. [IdlePoll EXCEPT !.phase = "asked", !.snap = server].snap = server
      BY DEF IdlePoll
    <2>4. [IdlePoll EXCEPT !.phase = "asked", !.snap = server].job[t] = "none"
      BY DEF IdlePoll
    <2>5. Blank([IdlePoll EXCEPT !.phase = "asked", !.snap = server])
      BY <2>3, <2>4 DEF Unheard
    <2>6. PICK q : polls' = [polls EXCEPT ![d][s] = q] /\ Blank(q)
      <3>1. CASE polls' = [polls EXCEPT ![d][s] = IdlePoll]
        BY <2>2, <3>1
      <3>2. ASSUME NEW q \in Poll, polls' = [polls EXCEPT ![d][s] = q],
                   q.snap = polls[d][s].snap,
                   q.job[t] # "none" =>
                       polls[d][s].job[t] # "none" \/ t \in Changed(d, s)
            PROVE  Blank(q)
        BY <2>1, <2>2, <3>2
      <3>3. QED
        BY <2>5, <3>1, <3>2, PollUpdate
    <2> HIDE DEF Blank
    <2>7. QED
      BY <2>1, <2>6 DEF TypeOK
  <1>3. \A e \in Device : previous'[e][t] = NoDoc
    <2>1. polls[d][s].snap[t] = NoDoc
      BY DEF Unheard
    <2>2. CASE AnswerTaken(d, s)
      BY <2>1, <2>2 DEF AnswerTaken, TypeOK, Unheard
    <2>3. CASE ~ AnswerTaken(d, s)
      BY <2>3 DEF PollNext, PollQuery, PollFailed, PollIgnored, PollApplied, PollDone,
                  SaveRemote, RemoteSaved, Unheard
    <2>4. QED
      BY <2>2, <2>3
  <1>4. \A e \in Device : store'[e][t] = Absent
    <2>1. ASSUME NEW u \in Task, SaveRemote(d, s, u) PROVE <1>4
      BY <2>1 DEF SaveRemote, TypeOK, Unheard
    <2>2. CASE ~ \E u \in Task : SaveRemote(d, s, u)
      BY <2>2 DEF PollNext, PollQuery, PollFailed, PollIgnored, PollApplied, PollDone,
                  RemoteSaved, Unheard
    <2>3. QED
      BY <2>1, <2>2
  <1>5. QED
    BY <1>1, <1>2, <1>3, <1>4 DEF Unheard

LEMMA AddedGrows == [Next]_vars => added \subseteq added'
  <1> SUFFICES ASSUME [Next]_vars PROVE added \subseteq added'
    OBVIOUS
  <1>1. CASE CallNext
    BY <1>1 DEF CallNext, Served, AnswerLost, Failed, userVars
  <1>2. ASSUME NEW d, UserNext(d) PROVE added \subseteq added'
    BY <1>2 DEF UserNext, AddModel, UpdateModel, UpdateItem, DeleteModel,
                OtherManagerSaves, userVars
  <1>3. ASSUME NEW d, TimerNext(d) \/ Restart(d) PROVE added \subseteq added'
    BY <1>3 DEF TimerNext, UpdateItemSaved, UnmarkDeleted, BatchDone, Restart, userVars
  <1>4. ASSUME NEW d, NEW s, PollNext(d, s) PROVE added \subseteq added'
    BY <1>4 DEF PollNext, PollQuery, PollFailed, PollIgnored, PollApplied, PollDone,
                SaveRemote, RemoteSaved, userVars
  <1>5. CASE UNCHANGED vars
    BY <1>5 DEF vars, userVars
  <1>6. QED
    BY <1>1, <1>2, <1>3, <1>4, <1>5 DEF Next

LEMMA KnownStep == TypeOK /\ KnownAreAdded /\ [Next]_vars => KnownAreAdded'
  <1> SUFFICES ASSUME TypeOK, KnownAreAdded, [Next]_vars,
                      NEW t \in Task, t \notin added'
               PROVE  Unheard(t)'
    BY DEF KnownAreAdded
  <1>1. added \subseteq added'
    BY AddedGrows
  <1>2. Unheard(t)
    BY <1>1 DEF KnownAreAdded
  <1>3. CASE UNCHANGED vars
    BY <1>2, <1>3 DEF vars, serverVars, timerVars, pollVars, Unheard
  <1>4. QED
    BY <1>2, <1>3, UnheardCallStep, UnheardUserStep, UnheardTimerStep, UnheardPollStep
    DEF Next, CallNext

(* Jobs are left only while an answer is applied, and the callback of a     *)
(* removal finds the task gone: nobody can have added it again.             *)
JobsWhileApplying ==
    \A d \in Device, s \in Slot, t \in Task :
        polls[d][s].job[t] # "none" => polls[d][s].phase = "applying"

RemovedIsAbsent ==
    \A d \in Device, s \in Slot, t \in Task :
        polls[d][s].job[t] = "callback" /\ polls[d][s].snap[t] = NoDoc =>
            store[d][t] = Absent

StatusInv == KnownAreAdded /\ JobsWhileApplying /\ RemovedIsAbsent /\ StatusCacheFollowsStore

(* The same for one task of one phone, on which p is the only poll, in is   *)
(* what the list holds and cached the cached flag.                          *)
StatusOf(t, p, in, cached) ==
    /\ p.job[t] # "none" => p.phase = "applying"
    /\ p.job[t] = "callback" /\ p.snap[t] = NoDoc => in = Absent
    /\ in = Absent \/ p.job[t] = "callback" \/ cached = in.done

LEMMA StatusOfEach ==
    ASSUME NEW c, Slot = {c}
    PROVE  StatusInv <=> /\ KnownAreAdded
                         /\ \A d \in Device, t \in Task :
                                StatusOf(t, polls[d][c], store[d][t],
                                         taskLastCompletedStatus[d][t])
  BY DEF StatusInv, JobsWhileApplying, RemovedIsAbsent, StatusCacheFollowsStore, StatusOf

(* The user of the phone, its timers and its process.                       *)
LEMMA StatusUserStep ==
    ASSUME TypeOK, KnownAreAdded, NEW c \in Slot, NEW d \in Device, NEW t \in Task,
           StatusOf(t, polls[d][c], store[d][t], taskLastCompletedStatus[d][t]),
           UserNext(d)
    PROVE  StatusOf(t, polls'[d][c], store'[d][t], taskLastCompletedStatus'[d][t])
  <1> USE DEF StatusOf
  <1>1. polls' = polls
    BY DEF UserNext, AddModel, UpdateModel, UpdateItem, DeleteModel,
           OtherManagerSaves, pollVars
  <1>2. ASSUME NEW u \in Task, AddModel(d, u)
        PROVE  StatusOf(t, polls'[d][c], store'[d][t], taskLastCompletedStatus'[d][t])
    <2>1. CASE u # t
      BY <1>1, <1>2, <2>1 DEF AddModel, TypeOK
    <2>2. CASE u = t
      <3>1. polls[d][c].job[t] = "none"
        BY <1>2, <2>2 DEF AddModel, KnownAreAdded, Unheard
      <3>2. store' = [store EXCEPT ![d][t] = [rev |-> clock + 1, done |-> FALSE]]
        BY <1>2, <2>2 DEF AddModel
      <3>3. store'[d][t].done = FALSE
        BY <3>2 DEF TypeOK
      <3>4. taskLastCompletedStatus'[d][t] = FALSE
        BY <1>2, <2>2 DEF AddModel, TypeOK
      <3>5. QED
        BY <1>1, <3>1, <3>3, <3>4
    <2>3. QED
      BY <2>1, <2>2
  <1>3. ASSUME NEW u \in Task, NEW done \in BOOLEAN, UpdateModel(d, u, done)
        PROVE  StatusOf(t, polls'[d][c], store'[d][t], taskLastCompletedStatus'[d][t])
    <2>1. CASE u # t
      BY <1>1, <1>3, <2>1 DEF UpdateModel, TypeOK
    <2>2. CASE u = t
      <3>1. store[d][t] # Absent
        BY <1>3, <2>2 DEF UpdateModel
      <3>2. store' = [store EXCEPT ![d][t] = [rev |-> clock + 1, done |-> done]]
        BY <1>3, <2>2 DEF UpdateModel
      <3>3. store'[d][t].done = done
        BY <3>2 DEF TypeOK
      <3>4. taskLastCompletedStatus'[d][t] = done
        BY <1>3, <2>2 DEF UpdateModel, TypeOK
      <3>5. QED
        BY <1>1, <3>1, <3>3, <3>4
    <2>3. QED
      BY <2>1, <2>2
  <1>4. ASSUME NEW u \in Task, UpdateItem(d, u)
        PROVE  StatusOf(t, polls'[d][c], store'[d][t], taskLastCompletedStatus'[d][t])
    <2>1. taskLastCompletedStatus' = taskLastCompletedStatus /\ store[d][u] # Absent
      BY <1>4 DEF UpdateItem
    <2>2. store' = [store EXCEPT ![d][u].rev = clock + 1]
      BY <1>4 DEF UpdateItem
    <2>3. CASE u # t
      BY <1>1, <2>1, <2>2, <2>3 DEF TypeOK
    <2>4. CASE u = t
      <3>1. store'[d][t].done = store[d][t].done
        BY <2>2, <2>4 DEF TypeOK, Content
      <3>2. QED
        BY <1>1, <2>1, <2>4, <3>1
    <2>5. QED
      BY <2>3, <2>4
  <1>5. ASSUME NEW u \in Task, DeleteModel(d, u)
        PROVE  StatusOf(t, polls'[d][c], store'[d][t], taskLastCompletedStatus'[d][t])
    BY <1>1, <1>5 DEF DeleteModel, TypeOK
  <1>6. CASE OtherManagerSaves(d)
    BY <1>1, <1>6 DEF OtherManagerSaves
  <1>7. QED
    BY <1>2, <1>3, <1>4, <1>5, <1>6 DEF UserNext

LEMMA StatusTimerStep ==
    ASSUME TypeOK, NEW c \in Slot, NEW d \in Device, NEW t \in Task,
           StatusOf(t, polls[d][c], store[d][t], taskLastCompletedStatus[d][t]),
           TimerNext(d) \/ Restart(d)
    PROVE  StatusOf(t, polls'[d][c], store'[d][t], taskLastCompletedStatus'[d][t])
  <1> USE DEF StatusOf
  <1>1. CASE Restart(d)
    <2>1. polls'[d][c] = IdlePoll /\ store' = store
      BY <1>1 DEF Restart, TypeOK
    <2>2. taskLastCompletedStatus'[d][t] = store[d][t].done
      BY <1>1 DEF Restart, TypeOK
    <2>3. IdlePoll.job[t] = "none"
      BY DEF IdlePoll
    <2>4. QED
      BY <2>1, <2>2, <2>3
  <1>2. ASSUME NEW e \in edited[d], UpdateItemSaved(d, e)
        PROVE  StatusOf(t, polls'[d][c], store'[d][t], taskLastCompletedStatus'[d][t])
    <2>1. polls' = polls /\ store' = store
      BY <1>2 DEF UpdateItemSaved, pollVars
    <2>2. taskLastCompletedStatus'[d][t] \in {taskLastCompletedStatus[d][t], store[d][t].done}
      <3>1. CASE store[d][e.task] = Absent
        BY <1>2, <3>1 DEF UpdateItemSaved
      <3>2. CASE store[d][e.task] # Absent
        <4>1. taskLastCompletedStatus' =
                  [taskLastCompletedStatus EXCEPT ![d][e.task] = store[d][e.task].done]
          BY <1>2, <3>2 DEF UpdateItemSaved
        <4>2. QED
          BY <4>1 DEF TypeOK
      <3>3. QED
        BY <3>1, <3>2
    <2>3. QED
      BY <2>1, <2>2
  <1>3. ASSUME \/ \E u \in unmarks[d] : UnmarkDeleted(d, u)
               \/ \E b \in batches[d] : BatchDone(d, b)
        PROVE  StatusOf(t, polls'[d][c], store'[d][t], taskLastCompletedStatus'[d][t])
    BY <1>3 DEF UnmarkDeleted, BatchDone, pollVars
  <1>4. QED
    BY <1>1, <1>2, <1>3 DEF TimerNext

(* The poll of the phone.                                                   *)
LEMMA StatusPollStep ==
    ASSUME TypeOK, NEW c \in Slot, NEW d \in Device, NEW t \in Task,
           StatusOf(t, polls[d][c], store[d][t], taskLastCompletedStatus[d][t]),
           PollNext(d, c)
    PROVE  StatusOf(t, polls'[d][c], store'[d][t], taskLastCompletedStatus'[d][t])
  <1> USE DEF StatusOf
  <1>1. /\ polls[d][c] \in Poll
        /\ polls[d][c].job \in [Task -> {"none", "save", "callback"}]
    BY DEF TypeOK, Poll
  <1>2. IdlePoll.job[t] = "none"
    BY DEF IdlePoll
  <1>3. CASE PollQuery(d, c)
    <2>1. polls'[d][c] = [IdlePoll EXCEPT !.phase = "asked", !.snap = server]
      BY <1>3 DEF PollQuery, TypeOK
    <2>2. polls'[d][c].job[t] = "none"
      BY <1>2, <2>1 DEF IdlePoll
    <2>3. QED
      BY <1>3, <2>2 DEF PollQuery
  <1>4. CASE PollFailed(d, c) \/ PollIgnored(d, c) \/ PollDone(d, c)
    <2>1. polls'[d][c] = IdlePoll
      BY <1>4 DEF PollFailed, PollIgnored, PollDone, TypeOK
    <2>2. polls[d][c].job[t] = "none"
      BY <1>4 DEF PollFailed, PollIgnored, PollDone, AnswerTaken, Asked
    <2>3. store' = store /\ taskLastCompletedStatus' = taskLastCompletedStatus
      BY <1>4 DEF PollFailed, PollIgnored, PollDone
    <2>4. QED
      BY <1>2, <2>1, <2>2, <2>3
  <1>5. CASE PollApplied(d, c)
    <2> DEFINE job == [x \in Task |-> IF x \in Accepted(d, c) THEN "save" ELSE "none"]
    <2>1. polls'[d][c] = [[polls[d][c] EXCEPT !.phase = "applying"] EXCEPT !.job = job]
      BY <1>5 DEF PollApplied, TypeOK
    <2>2. polls'[d][c].phase = "applying" /\ polls'[d][c].job = job
      BY <1>1, <2>1 DEF Poll
    <2>3. polls[d][c].job[t] = "none" /\ polls'[d][c].job[t] # "callback"
      BY <1>5, <2>2 DEF PollApplied, AnswerTaken, Asked
    <2>4. store' = store /\ taskLastCompletedStatus' = taskLastCompletedStatus
      BY <1>5 DEF PollApplied
    <2>5. QED
      BY <2>2, <2>3, <2>4
  <1>6. ASSUME NEW u \in Task, NEW j \in {"none", "callback"},
               polls' = [polls EXCEPT ![d][c].job[u] = j]
        PROVE  /\ polls'[d][c].phase = polls[d][c].phase
               /\ polls'[d][c].snap = polls[d][c].snap
               /\ polls'[d][c].job[t] = IF u = t THEN j ELSE polls[d][c].job[t]
    <2>1. polls'[d][c] = [polls[d][c] EXCEPT !.job[u] = j]
      BY <1>6 DEF TypeOK
    <2>2. QED
      BY <1>1, <2>1 DEF Poll
  <1>7. ASSUME NEW u \in Task, SaveRemote(d, c, u)
        PROVE  StatusOf(t, polls'[d][c], store'[d][t], taskLastCompletedStatus'[d][t])
    <2>1. /\ polls' = [polls EXCEPT ![d][c].job[u] = "callback"]
          /\ taskLastCompletedStatus' = taskLastCompletedStatus
          /\ polls[d][c].job[u] = "save"
      BY <1>7 DEF SaveRemote
    <2>2. store'[d][t] = IF u = t THEN polls[d][c].snap[t].data ELSE store[d][t]
      BY <1>7 DEF SaveRemote, TypeOK
    <2>3. NoDoc.data = Absent
      BY DEF NoDoc
    <2>4. QED
      BY <1>6, <2>1, <2>2, <2>3
  <1>8. ASSUME NEW u \in Task, RemoteSaved(d, c, u)
        PROVE  StatusOf(t, polls'[d][c], store'[d][t], taskLastCompletedStatus'[d][t])
    <2>1. /\ polls' = [polls EXCEPT ![d][c].job[u] = "none"]
          /\ store' = store /\ polls[d][c].job[u] = "callback"
      BY <1>8 DEF RemoteSaved
    <2>2. taskLastCompletedStatus'[d][t] =
              IF u = t THEN StatusFound(d, c, t) ELSE taskLastCompletedStatus[d][t]
      BY <1>8 DEF RemoteSaved, TypeOK
    <2>3. CASE u # t
      BY <1>6, <2>1, <2>2, <2>3
    <2>4. CASE u = t
      BY <1>6, <2>1, <2>2, <2>4 DEF StatusFound
    <2>5. QED
      BY <2>3, <2>4
  <1>9. QED
    BY <1>3, <1>4, <1>5, <1>7, <1>8 DEF PollNext

(* What happens on the other phone, at the server and on the way there      *)
(* leaves the list, the polls and the cached flags of a phone.              *)
LEMMA ElsewhereStep ==
    ASSUME TypeOK, NEW d \in Device,
           \/ CallNext
           \/ \E e \in Device \ {d} : \/ UserNext(e) \/ TimerNext(e) \/ Restart(e)
                                      \/ \E s \in Slot : PollNext(e, s)
           \/ UNCHANGED vars
    PROVE  /\ store'[d] = store[d] /\ polls'[d] = polls[d]
           /\ taskLastCompletedStatus'[d] = taskLastCompletedStatus[d]
  <1>1. CASE CallNext
    BY <1>1 DEF CallNext, Served, AnswerLost, Failed, pollVars
  <1>2. ASSUME NEW e \in Device \ {d}, UserNext(e)
        PROVE  /\ store'[d] = store[d] /\ polls' = polls
               /\ taskLastCompletedStatus'[d] = taskLastCompletedStatus[d]
    BY <1>2 DEF UserNext, AddModel, UpdateModel, UpdateItem, DeleteModel,
                OtherManagerSaves, TypeOK, pollVars
  <1>3. ASSUME NEW e \in Device \ {d}, TimerNext(e)
        PROVE  /\ store' = store /\ polls' = polls
               /\ taskLastCompletedStatus'[d] = taskLastCompletedStatus[d]
    <2>1. ASSUME NEW x \in edited[e], UpdateItemSaved(e, x)
          PROVE  /\ store' = store /\ polls' = polls
                 /\ taskLastCompletedStatus'[d] = taskLastCompletedStatus[d]
      BY <2>1 DEF UpdateItemSaved, TypeOK, pollVars
    <2>2. QED
      BY <1>3, <2>1 DEF TimerNext, UnmarkDeleted, BatchDone, pollVars
  <1>4. ASSUME NEW e \in Device \ {d}, Restart(e)
        PROVE  /\ store' = store /\ polls'[d] = polls[d]
               /\ taskLastCompletedStatus'[d] = taskLastCompletedStatus[d]
    BY <1>4 DEF Restart, TypeOK
  <1>5. ASSUME NEW e \in Device \ {d}, NEW s \in Slot, PollNext(e, s)
        PROVE  /\ store'[d] = store[d] /\ polls'[d] = polls[d]
               /\ taskLastCompletedStatus'[d] = taskLastCompletedStatus[d]
    <2>1. store'[d] = store[d]
      BY <1>5 DEF PollNext, PollQuery, PollFailed, PollIgnored, PollApplied, PollDone,
                  SaveRemote, RemoteSaved, TypeOK
    <2>2. taskLastCompletedStatus'[d] = taskLastCompletedStatus[d]
      BY <1>5 DEF PollNext, PollQuery, PollFailed, PollIgnored, PollApplied, PollDone,
                  SaveRemote, RemoteSaved, TypeOK
    <2>3. polls'[d] = polls[d]
      BY <1>5 DEF PollNext, PollQuery, PollFailed, PollIgnored, PollApplied, PollDone,
                  SaveRemote, RemoteSaved, TypeOK
    <2>4. QED
      BY <2>1, <2>2, <2>3
  <1>6. CASE UNCHANGED vars
    BY <1>6 DEF vars, pollVars
  <1>7. QED
    BY <1>1, <1>2, <1>3, <1>4, <1>5, <1>6

LEMMA StatusStep ==
    ASSUME NEW c, Slot = {c}, TypeOK, StatusInv, [Next]_vars
    PROVE  StatusInv'
  <1>1. KnownAreAdded'
    BY KnownStep DEF StatusInv
  <1>2. ASSUME NEW d \in Device, NEW t \in Task
        PROVE  StatusOf(t, polls'[d][c], store'[d][t], taskLastCompletedStatus'[d][t])
    <2>1. StatusOf(t, polls[d][c], store[d][t], taskLastCompletedStatus[d][t])
      BY StatusOfEach
    <2>2. CASE UserNext(d)
      BY <2>1, <2>2, StatusUserStep DEF StatusInv
    <2>3. CASE TimerNext(d) \/ Restart(d)
      BY <2>1, <2>3, StatusTimerStep
    <2>4. CASE PollNext(d, c)
      BY <2>1, <2>4, StatusPollStep
    <2>5. CASE ~ (UserNext(d) \/ TimerNext(d) \/ Restart(d) \/ PollNext(d, c))
      BY <2>1, <2>5, ElsewhereStep DEF Next
    <2>6. QED
      BY <2>2, <2>3, <2>4, <2>5
  <1>3. QED
    BY <1>1, <1>2 DEF StatusInv, JobsWhileApplying, RemovedIsAbsent,
                      StatusCacheFollowsStore, StatusOf

(* As long as polls do not overlap, the flag that decides whether an edit   *)
(* scores is the one of the list, except between a remote save and its      *)
(* callback: whatever the users edit meanwhile, however calls fail and      *)
(* whenever a process dies.                                                 *)
THEOREM StatusCacheAlwaysFollows ==
    ASSUME NEW c, Slot = {c}
    PROVE  Spec => []StatusCacheFollowsStore
  <1>1. Init => StatusInv
    BY DEF Init, StatusInv, KnownAreAdded, Unheard, JobsWhileApplying, RemovedIsAbsent,
           StatusCacheFollowsStore, IdlePoll, NoDocs
  <1>2. TypeOK /\ StatusInv /\ [Next]_vars => StatusInv'
    BY StatusStep
  <1>3. StatusInv => StatusCacheFollowsStore
    BY DEF StatusInv
  <1>4. QED
    BY <1>1, <1>2, <1>3, TypeCorrect, PTL DEF Spec
-----------------------------------------------------------------------------
(* The same as a refinement: each step of TaskSync is, for a phone on which *)
(* nobody edits, a step of the listener of Follower or none at all.         *)
Answers(p) == IF p.phase = "asked" THEN {Data(p.snap)} ELSE {}

LEMMA AnswerOfOne ==
    ASSUME NEW c, Slot = {c}, NEW d
    PROVE  /\ {Data(polls[d][s].snap) : s \in Answering(d)} = Answers(polls[d][c])
           /\ {Data(polls[d][s].snap) : s \in Answering(d)}' = Answers(polls'[d][c])
  BY DEF Answering, Asked, Answers, Data

(* The state a step has to be mapped in: how the polls, the list and the    *)
(* collection change decides which step of Follower it is.                  *)
LEMMA FollowerStutters ==
    ASSUME NEW c, Slot = {c}, NEW d,
           server' = server, previous'[d] = previous[d], store'[d] = store[d],
           Answers(polls'[d][c]) = Answers(polls[d][c])
    PROVE  UNCHANGED F(d)!vars
  BY AnswerOfOne DEF F!vars, Data

LEMMA FollowerAsks ==
    ASSUME NEW c, Slot = {c}, NEW d,
           server' = server, previous'[d] = previous[d], store'[d] = store[d],
           Answers(polls[d][c]) = {}, Answers(polls'[d][c]) = {Data(server)}
    PROVE  F(d)!Ask
  BY AnswerOfOne DEF F!Ask, Data

LEMMA FollowerFails ==
    ASSUME NEW c, Slot = {c}, NEW d,
           server' = server, previous'[d] = previous[d], store'[d] = store[d],
           Answers(polls'[d][c]) = {}
    PROVE  F(d)!Fail
  BY AnswerOfOne DEF F!Fail, Data

LEMMA FollowerLearns ==
    ASSUME NEW c, Slot = {c}, NEW d,
           server' = server, store'[d] = store[d],
           store[d] = Data(previous[d]),
           Data(previous'[d]) \in Answers(polls[d][c]), Answers(polls'[d][c]) = {}
    PROVE  F(d)!Learn
  BY AnswerOfOne DEF F!Learn, Data

LEMMA FollowerCopies ==
    ASSUME NEW c, Slot = {c}, NEW d, NEW t \in Task,
           server' = server, previous'[d] = previous[d],
           store'[d] = [store[d] EXCEPT ![t] = previous[d][t].data],
           Answers(polls'[d][c]) = Answers(polls[d][c])
    PROVE  F(d)!Copy(t)
  BY AnswerOfOne DEF F!Copy, Data

LEMMA FollowerChanges ==
    ASSUME NEW c, Slot = {c}, NEW d, NEW t \in Task,
           server \in [Task -> Doc], server' \in [Task -> Doc],
           \A u \in Task : u # t => server'[u] = server[u],
           previous'[d] = previous[d], store'[d] = store[d], polls'[d] = polls[d]
    PROVE  F(d)!Change(t)
  <1>1. Data(server') = [Data(server) EXCEPT ![t] = Data(server')[t]]
    BY DEF Data
  <1>2. Answers(polls'[d][c]) = Answers(polls[d][c])
    OBVIOUS
  <1>3. QED
    BY <1>1, <1>2, AnswerOfOne DEF F!Change, Data

(* A step that is not one of the phone's polls changes one document of the  *)
(* collection or nothing that Follower speaks of.                           *)
LEMMA FollowsElsewhere ==
    ASSUME NEW c, Slot = {c}, TypeOK, PassiveIsQuiet, [Next]_vars, NEW d \in Passive,
           ~ \E s \in Slot : PollNext(d, s)
    PROVE  [F(d)!Next]_(F(d)!vars)
  <1>1. store'[d] = store[d] /\ polls'[d] = polls[d] /\ previous'[d] = previous[d]
    BY OthersLeaveDevice
  <1>2. CASE server' = server
    BY <1>1, <1>2, FollowerStutters
  <1>3. CASE server' # server
    <2>1. PICK r \in requests : Served(r) \/ AnswerLost(r)
      <3>1. \A r \in requests : Failed(r) => server' = server
        BY DEF Failed, serverVars
      <3>2. ASSUME NEW e \in Device, UserNext(e) \/ TimerNext(e) \/ Restart(e)
            PROVE  server' = server
        BY <3>2 DEF UserNext, AddModel, UpdateModel, UpdateItem, DeleteModel,
                    OtherManagerSaves, TimerNext, UpdateItemSaved, UnmarkDeleted,
                    BatchDone, Restart, serverVars
      <3>3. ASSUME NEW e \in Device, NEW s \in Slot, PollNext(e, s)
            PROVE  server' = server
        BY <3>3 DEF PollNext, PollQuery, PollFailed, PollIgnored, PollApplied, PollDone,
                    SaveRemote, RemoteSaved, serverVars
      <3>4. UNCHANGED vars => server' = server
        BY DEF vars, serverVars
      <3>5. QED
        BY <1>3, <3>1, <3>2, <3>3, <3>4 DEF Next, CallNext
    <2>2. Effect(r)
      BY <2>1 DEF Served, AnswerLost
    <2>3. r.task \in Task
      BY DEF TypeOK, Request
    <2>4. \A u \in Task : u # r.task => server'[u] = server[u]
      BY <2>2 DEF Effect, TypeOK
    <2>5. server \in [Task -> Doc] /\ server' \in [Task -> Doc]
      BY <2>2, EffectType DEF TypeOK
    <2>6. F(d)!Change(r.task)
      BY <1>1, <2>3, <2>4, <2>5, FollowerChanges
    <2>7. QED
      BY <2>3, <2>6 DEF F!Next
  <1>4. QED
    BY <1>2, <1>3

LEMMA FollowsStep ==
    ASSUME NEW c, Slot = {c}, TypeOK, MirrorInv, [Next]_vars, NEW d \in Passive
    PROVE  [F(d)!Next]_(F(d)!vars)
  <1> USE PassiveDevice DEF MirrorInv
  <1>1. CASE ~ \E s \in Slot : PollNext(d, s)
    BY <1>1, FollowsElsewhere
  <1>2. CASE PollNext(d, c)
    <2>1. polls[d][c] \in Poll
      BY DEF TypeOK
    <2>2. server' = server
      BY <1>2 DEF PollNext, PollQuery, PollFailed, PollIgnored, PollApplied, PollDone,
                  SaveRemote, RemoteSaved, serverVars
    <2>3. Answers(IdlePoll) = {}
      BY DEF Answers, IdlePoll
    <2>4. CASE PollQuery(d, c)
      <3>1. polls'[d][c] = [IdlePoll EXCEPT !.phase = "asked", !.snap = server]
        BY <2>4 DEF PollQuery, TypeOK
      <3>2. polls'[d][c].phase = "asked" /\ polls'[d][c].snap = server
        BY <3>1 DEF IdlePoll
      <3>3. Answers(polls[d][c]) = {} /\ Answers(polls'[d][c]) = {Data(server)}
        BY <2>4, <3>2 DEF PollQuery, Answers
      <3>4. F(d)!Ask
        BY <2>2, <2>4, <3>3, FollowerAsks DEF PollQuery
      <3>5. QED
        BY <3>4 DEF F!Next
    <2>5. CASE PollFailed(d, c)
      <3>1. polls'[d][c] = IdlePoll
        BY <2>5 DEF PollFailed, TypeOK
      <3>2. F(d)!Fail
        BY <2>2, <2>3, <2>5, <3>1, FollowerFails DEF PollFailed
      <3>3. QED
        BY <3>2 DEF F!Next
    <2>6. CASE PollIgnored(d, c) \/ PollApplied(d, c)
      <3>1. /\ polls[d][c].phase = "asked" /\ previous'[d] = polls[d][c].snap
            /\ store' = store
        BY <2>6 DEF PollIgnored, PollApplied, AnswerTaken, Asked, TypeOK
      <3>2. \A t \in Task : store[d][t] = previous[d][t].data
        BY <3>1 DEF JobsAreOfLastAnswer, PassiveDeviceMirrors
      <3>3. store[d] = Data(previous[d])
        BY <3>2 DEF TypeOK, Data
      <3>4. Data(previous'[d]) \in Answers(polls[d][c])
        BY <3>1 DEF Answers
      <3>5. Answers(polls'[d][c]) = {}
        <4>1. CASE PollIgnored(d, c)
          BY <2>3, <4>1 DEF PollIgnored, TypeOK
        <4>2. CASE PollApplied(d, c)
          <5> DEFINE job == [t \in Task |-> IF t \in Accepted(d, c) THEN "save" ELSE "none"]
          <5>1. polls'[d][c] = [[polls[d][c] EXCEPT !.phase = "applying"] EXCEPT !.job = job]
            BY <4>2 DEF PollApplied, TypeOK
          <5>2. polls'[d][c].phase = "applying"
            BY <2>1, <5>1 DEF Poll
          <5>3. QED
            BY <5>2 DEF Answers
        <4>3. QED
          BY <2>6, <4>1, <4>2
      <3>6. F(d)!Learn
        BY <2>2, <3>1, <3>3, <3>4, <3>5, FollowerLearns
      <3>7. QED
        BY <3>6 DEF F!Next
    <2>7. ASSUME NEW t \in Task, NEW j, polls' = [polls EXCEPT ![d][c].job[t] = j],
                 polls[d][c].job[t] # "none"
          PROVE  Answers(polls'[d][c]) = Answers(polls[d][c])
      <3>1. polls'[d][c] = [polls[d][c] EXCEPT !.job[t] = j]
        BY <2>7 DEF TypeOK
      <3>2. polls'[d][c].phase = polls[d][c].phase /\ polls[d][c].phase = "applying"
        BY <2>1, <2>7, <3>1 DEF Poll, JobsAreOfLastAnswer
      <3>3. QED
        BY <3>2 DEF Answers
    <2>8. ASSUME NEW t \in Task, SaveRemote(d, c, t) PROVE F(d)!Copy(t)
      <3>1. /\ polls' = [polls EXCEPT ![d][c].job[t] = "callback"]
            /\ polls[d][c].job[t] = "save" /\ previous' = previous
        BY <2>8 DEF SaveRemote
      <3>2. polls[d][c].snap[t] = previous[d][t]
        BY <3>1 DEF JobsAreOfLastAnswer
      <3>3. store'[d] = [store[d] EXCEPT ![t] = previous[d][t].data]
        BY <2>8, <3>2 DEF SaveRemote, TypeOK
      <3>4. Answers(polls'[d][c]) = Answers(polls[d][c])
        BY <2>7, <3>1
      <3>5. QED
        BY <2>2, <3>1, <3>3, <3>4, FollowerCopies
    <2>9. ASSUME NEW t \in Task, RemoteSaved(d, c, t) PROVE UNCHANGED F(d)!vars
      <3>1. /\ polls' = [polls EXCEPT ![d][c].job[t] = "none"]
            /\ polls[d][c].job[t] = "callback" /\ previous' = previous /\ store' = store
        BY <2>9 DEF RemoteSaved
      <3>2. Answers(polls'[d][c]) = Answers(polls[d][c])
        BY <2>7, <3>1
      <3>3. QED
        BY <2>2, <3>1, <3>2, FollowerStutters
    <2>10. CASE PollDone(d, c)
      <3>1. Answers(polls'[d][c]) = {}
        BY <2>3, <2>10 DEF PollDone, TypeOK
      <3>2. Answers(polls[d][c]) = {}
        BY <2>10 DEF PollDone, Answers
      <3>3. QED
        BY <2>2, <2>10, <3>1, <3>2, FollowerStutters DEF PollDone
    <2>11. QED
      BY <1>2, <2>4, <2>5, <2>6, <2>8, <2>9, <2>10 DEF PollNext, F!Next
  <1>3. QED
    BY <1>1, <1>2

(* To a phone on which nobody edits the whole of TaskSync is the listener   *)
(* of Follower: its list is copied from answers that are the collection of  *)
(* one moment each, and the next answer is taken up only when the list      *)
(* holds all of the last.                                                   *)
THEOREM PassiveDeviceAlwaysFollows ==
    ASSUME NEW c, Slot = {c}
    PROVE  Spec => PassiveDeviceFollows
  <1>1. Init => MirrorInv
    BY PassiveDevice
    DEF Init, MirrorInv, PassiveIsQuiet, JobsAreOfLastAnswer,
        PassiveDeviceMirrors, IdlePoll, NoDocs, NoDoc
  <1>2. Init => \A d \in Passive : F(d)!Init
    <2> SUFFICES ASSUME Init, NEW d \in Passive PROVE F(d)!Init
      OBVIOUS
    <2>1. Answering(d) = {}
      BY PassiveDevice DEF Init, Answering, Asked, IdlePoll
    <2>2. Data(NoDocs) = [t \in Task |-> Absent]
      BY DEF Data, NoDocs, NoDoc
    <2>3. QED
      BY <2>1, <2>2, PassiveDevice DEF F!Init, F!Nothing, Init
  <1>3. TypeOK /\ MirrorInv /\ [Next]_vars => MirrorInv'
    BY MirrorStep
  <1>4. TypeOK /\ MirrorInv /\ [Next]_vars =>
            [\A d \in Passive : [F(d)!Next]_(F(d)!vars)]_vars
    BY FollowsStep
  <1>5. QED
    BY <1>1, <1>2, <1>3, <1>4, TypeCorrect, PTL DEF Spec, PassiveDeviceFollows
================================================================================
