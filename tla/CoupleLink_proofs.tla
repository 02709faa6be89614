--------------------------- MODULE CoupleLink_proofs ---------------------------
(***************************************************************************)
(* Proofs about CoupleLink, for any number of links, ends of links and     *)
(* failures, and for users and answers in any order (Patient FALSE): the   *)
(* types, and that the two listeners of CoupleStatusManager always fit the *)
(* status and that one of them is always there.                            *)
(***************************************************************************)
EXTENDS CoupleLink, TLAPS

LinkOrNone == {NoLink} \cup Link

(* A listener is told of documents of its own kind.                        *)
DocsOf(k) ==
    CASE k \in {"global", "page"} -> [link : LinkOrNone]
      [] k = "couple"  -> [exists : BOOLEAN]
      [] k = "partner" -> [linked : BOOLEAN, version : Nat]

Answers      == {l \in Kind \X Docs : l[2] \in DocsOf(l[1])}
Listeners    == [on : BOOLEAN, seen : SUBSET Docs, answer : SUBSET Docs]
ListenerType ==
    {lis \in [Phone -> [Kind -> Listeners]] :
        \A p \in Phone, k \in Kind : lis[p][k].answer \subseteq DocsOf(k)}
RequestType  ==
    [by : Phone, of : Phone, group : {"rest", "overdue", "unlink", "inner"}, link : LinkOrNone,
     op : {"mark linked", "mark unlinked", "delete couple", "delete link", "list",
           "profile", "couple"}]

(* The type invariant in parts.                                            *)
ServerTyped ==
    /\ linkedCouples \in [Phone -> LinkOrNone]
    /\ couples \in BOOLEAN
    /\ users \in [Phone -> [linked : BOOLEAN, version : Nat]]

StatusTyped ==
    /\ isUserLinked \in [Phone -> BOOLEAN]
    /\ link \in [Phone -> LinkOrNone]
    /\ graceRunning \in [Phone -> BOOLEAN]
    /\ shared \in [Phone -> BOOLEAN]
    /\ left \in [Phone -> SUBSET Link]
    /\ \A q \in Phone : isUserLinked[q] => link[q] # NoLink

PollsTyped ==
    /\ listener \in ListenerType
    /\ late \in [Phone -> SUBSET Answers]
    /\ wasExisting \in [Phone -> BOOLEAN]

ConfirmType == [phase : {"no", "sent", "read"}, link : LinkOrNone]
LinkingType ==
    {l \in [phase : {"no", "sent", "written"}, link : LinkOrNone] :
        l.phase # "no" => l.link # NoLink}
TimerType   == SUBSET {"unlinked", "launched", "couple"}

FlowTyped ==
    /\ confirming \in [Phone -> ConfirmType]
    /\ linking \in [Phone -> LinkingType]
    /\ unlinking \in [Phone -> {"no", "waiting", "timed out", "done"}]
    /\ timers \in [Phone -> TimerType]

CountsTyped ==
    /\ links \in 0 .. MaxLinks /\ unlinks \in 0 .. MaxUnlinks
    /\ faults \in 0 .. MaxFaults
    /\ ended \subseteq Link

Typed == ServerTyped /\ StatusTyped /\ PollsTyped /\ FlowTyped /\ requests \subseteq RequestType /\ CountsTyped

(* The parts imply the type invariant.                                     *)
LEMMA TypedIsTypeOK == Typed => TypeOK
<1>1. Answers \subseteq Kind \X Docs /\ ListenerType \subseteq [Phone -> [Kind -> Listeners]]
  BY DEF Answers, ListenerType
<1> QED BY <1>1 DEF Typed, TypeOK, ServerTyped, StatusTyped, PollsTyped, FlowTyped, CountsTyped,
         LinkOrNone, Listeners, RequestType, ConfirmType, LinkingType, TimerType

(* The other phone is a phone, and so is the one that names the couple.    *)
LEMMA OtherIsPhone == \A p \in Phone : Other(p) \in Phone
  BY PhoneAssumption DEF Other

LEMMA CoupleCodeIsPhone == CoupleCode \in Phone
<1>1. PICK c \in Phone, d \in Phone : Phone = {c, d}
  BY PhoneAssumption
<1>2. c \in Nat /\ d \in Nat
  BY PhoneAssumption
<1>3. \E e \in Phone : \A q \in Phone : e <= q
  <2>1. CASE c <= d
    BY <1>1, <1>2, <2>1
  <2>2. CASE d <= c
    BY <1>1, <1>2, <2>2
  <2> QED BY <1>2, <2>1, <2>2
<1> QED BY <1>3 DEF CoupleCode

(* What a listener is told is a document.                                  *)
LEMMA WatchedIsDoc ==
  ASSUME ServerTyped, NEW p \in Phone, NEW k \in Kind
  PROVE  Watched(p, k) \in Docs /\ Watched(p, k) \in DocsOf(k)
<1>1. CASE k \in {"global", "page"}
  BY <1>1 DEF Watched, Docs, DocsOf, ServerTyped, LinkOrNone
<1>2. CASE k = "couple"
  BY <1>2 DEF Watched, Docs, DocsOf, ServerTyped
<1>3. CASE k = "partner"
  BY <1>3, OtherIsPhone DEF Watched, Docs, DocsOf, ServerTyped
<1> QED BY <1>1, <1>2, <1>3 DEF Kind

-----------------------------------------------------------------------------
(* What registering and removing makes of the listeners and the answers.   *)
Switched(p, lis, on, off) ==
    [lis EXCEPT ![p] = [k \in Kind |->
        IF k \in on THEN Fresh ELSE IF k \in off THEN Off ELSE lis[p][k]]]

Outliving(p, lis, lt, on, off) ==
    lt \cup UNION {{k} \X lis[p][k].answer : k \in on \cup off}

(* It keeps the types, leaves the other phone alone and switches exactly   *)
(* the kinds named.                                                        *)
LEMMA SwitchedType ==
  ASSUME NEW p \in Phone, NEW lis \in ListenerType,
         NEW on \in SUBSET Kind, NEW off \in SUBSET Kind
  PROVE  Switched(p, lis, on, off) \in ListenerType
<1>1. Off \in Listeners /\ Fresh \in Listeners /\ Off.answer = {} /\ Fresh.answer = {}
  BY DEF Off, Fresh, Listeners
<1>2. lis[p] \in [Kind -> Listeners] /\ \A k \in Kind : lis[p][k].answer \subseteq DocsOf(k)
  BY DEF ListenerType
<1> DEFINE mine == [k \in Kind |-> IF k \in on THEN Fresh ELSE IF k \in off THEN Off ELSE lis[p][k]]
<1>3. mine \in [Kind -> Listeners]
  BY <1>1, <1>2
<1>4. \A k \in Kind : mine[k].answer \subseteq DocsOf(k)
  BY <1>1, <1>2
<1>5. Switched(p, lis, on, off) = [lis EXCEPT ![p] = mine]
  BY DEF Switched
<1> HIDE DEF mine
<1> QED BY <1>3, <1>4, <1>5 DEF ListenerType

LEMMA SwitchedElsewhere ==
  ASSUME NEW p \in Phone, NEW lis \in ListenerType, NEW q \in Phone, q # p,
         NEW on \in SUBSET Kind, NEW off \in SUBSET Kind
  PROVE  Switched(p, lis, on, off)[q] = lis[q]
  BY DEF Switched, ListenerType

LEMMA SwitchedHere ==
  ASSUME NEW p \in Phone, NEW lis \in ListenerType, NEW k \in Kind,
         NEW on \in SUBSET Kind, NEW off \in SUBSET Kind
  PROVE  Switched(p, lis, on, off)[p][k] =
            IF k \in on THEN Fresh ELSE IF k \in off THEN Off ELSE lis[p][k]
  BY DEF Switched, ListenerType

LEMMA OutlivingLemma ==
  ASSUME NEW p \in Phone, NEW lis \in ListenerType, NEW lt \in SUBSET Answers,
         NEW on \in SUBSET Kind, NEW off \in SUBSET Kind
  PROVE  Outliving(p, lis, lt, on, off) \in SUBSET Answers
<1>1. \A k \in Kind : lis[p][k].answer \subseteq DocsOf(k) /\ lis[p][k].answer \subseteq Docs
  BY DEF ListenerType, Listeners
<1>2. \A k \in Kind : {k} \X lis[p][k].answer \subseteq Answers
  BY <1>1 DEF Answers
<1> QED BY <1>2 DEF Outliving

-----------------------------------------------------------------------------
(* The two properties, phone by phone.                                     *)
Fits(q) ==
    /\ listener[q]["global"].on => ~ isUserLinked[q]
    /\ listener[q]["couple"].on => isUserLinked[q]

Hears(q) ==
    IF isUserLinked[q]
    THEN listener[q]["couple"].on \/ "couple" \in timers[q]
    ELSE listener[q]["global"].on \/ timers[q] \cap {"unlinked", "launched"} # {}

Sound == \A q \in Phone : Fits(q) /\ Hears(q)

IInv == Typed /\ Sound

LEMMA SoundIsBoth == Sound <=> ListenersMatchStatus /\ SomebodyListens
  BY DEF Sound, Fits, Hears, ListenersMatchStatus, SomebodyListens

(* What lis switches on is what the listeners have on.                     *)
SameOn(lis) == \A q \in Phone, k \in Kind : lis[q][k].on = listener[q][k].on

(* Nothing a phone's status and switches depend on has changed.            *)
Untouched(q) ==
    /\ isUserLinked'[q] = isUserLinked[q] /\ timers'[q] = timers[q]
    /\ \A k \in Kind : listener'[q][k].on = listener[q][k].on

LEMMA UntouchedStaysSound ==
  ASSUME NEW q \in Phone, Fits(q), Hears(q), Untouched(q)
  PROVE  Fits(q)' /\ Hears(q)'
  BY DEF Fits, Hears, Untouched, Kind

(* setLinked and resetAllStatus leave the phone with the right listener.   *)
LEMMA SetLinkedLemma ==
  ASSUME StatusTyped, PollsTyped, NEW p \in Phone, NEW n \in Link,
         NEW lis \in ListenerType, NEW lt \in SUBSET Answers, SameOn(lis),
         SetLinked(p, n, lis, lt), timers' = timers
  PROVE  /\ StatusTyped' /\ PollsTyped'
         /\ Fits(p)' /\ Hears(p)' /\ \A q \in Phone \ {p} : Untouched(q)
<1> DEFINE on == {"couple"}
<1> DEFINE off == {"global"}
<1>1. on \in SUBSET Kind /\ off \in SUBSET Kind
  BY DEF Kind
<1>2. listener' = Switched(p, lis, on, off)
  BY DEF SetLinked, Relisten, Switched
<1>3. late' = [late EXCEPT ![p] = Outliving(p, lis, lt, on, off)]
  BY DEF SetLinked, Relisten, Outliving
<1>4. /\ listener' \in ListenerType /\ late' \in [Phone -> SUBSET Answers]
      /\ \A q \in Phone : q # p => listener'[q] = lis[q]
      /\ listener'[p]["couple"].on /\ ~ listener'[p]["global"].on
  <2>1. \A k \in Kind : listener'[p][k] =
            IF k \in on THEN Fresh ELSE IF k \in off THEN Off ELSE lis[p][k]
    <3> HIDE DEF on, off
    <3> QED BY <1>1, <1>2, SwitchedHere
  <2>2. listener'[p]["couple"].on /\ ~ listener'[p]["global"].on
    BY <2>1 DEF Kind, Fresh, Off
  <2> HIDE DEF on, off
  <2>3. Outliving(p, lis, lt, on, off) \in SUBSET Answers
    BY <1>1, OutlivingLemma
  <2>4. late' \in [Phone -> SUBSET Answers]
    BY <1>3, <2>3 DEF PollsTyped
  <2>5. listener' \in ListenerType
    BY <1>1, <1>2, SwitchedType
  <2>6. \A q \in Phone : q # p => listener'[q] = lis[q]
    BY <1>1, <1>2, SwitchedElsewhere
  <2> QED BY <2>2, <2>4, <2>5, <2>6
<1>5. StatusTyped'
  <2>1. n \in LinkOrNone /\ n # NoLink
    BY DEF LinkOrNone, Link, NoLink
  <2> QED BY <2>1 DEF SetLinked, StatusTyped
<1>6. PollsTyped'
  BY <1>4 DEF SetLinked, PollsTyped
<1>7. isUserLinked'[p] = TRUE
  BY DEF SetLinked, StatusTyped
<1>8. \A q \in Phone \ {p} : Untouched(q)
  BY <1>4 DEF SetLinked, StatusTyped, SameOn, Untouched
<1> QED BY <1>4, <1>5, <1>6, <1>7, <1>8 DEF Fits, Hears

LEMMA ResetLemma ==
  ASSUME StatusTyped, PollsTyped, FlowTyped, NEW p \in Phone,
         NEW lis \in ListenerType, NEW lt \in SUBSET Answers, SameOn(lis),
         \A q \in Phone : Fits(q),
         ResetAllStatus(p, lis, lt), shared' \in [Phone -> BOOLEAN],
         timers' = [timers EXCEPT ![p] = @ \cup {"unlinked"}]
  PROVE  /\ StatusTyped' /\ PollsTyped' /\ timers' \in [Phone -> TimerType]
         /\ Fits(p)' /\ Hears(p)' /\ \A q \in Phone \ {p} : Untouched(q)
<1> DEFINE on == {}
<1> DEFINE off == {"couple", "partner"}
<1>1. on \in SUBSET Kind /\ off \in SUBSET Kind
  BY DEF Kind
<1>2. listener' = Switched(p, lis, on, off)
  BY DEF ResetAllStatus, Relisten, Switched
<1>3. late' = [late EXCEPT ![p] = Outliving(p, lis, lt, on, off)]
  BY DEF ResetAllStatus, Relisten, Outliving
<1>4. /\ listener' \in ListenerType /\ late' \in [Phone -> SUBSET Answers]
      /\ \A q \in Phone : q # p => listener'[q] = lis[q]
      /\ ~ listener'[p]["couple"].on
  <2>1. \A k \in Kind : listener'[p][k] =
            IF k \in on THEN Fresh ELSE IF k \in off THEN Off ELSE lis[p][k]
    <3> HIDE DEF on, off
    <3> QED BY <1>1, <1>2, SwitchedHere
  <2>2. ~ listener'[p]["couple"].on
    BY <2>1 DEF Kind, Fresh, Off
  <2> HIDE DEF on, off
  <2>3. Outliving(p, lis, lt, on, off) \in SUBSET Answers
    BY <1>1, OutlivingLemma
  <2>4. late' \in [Phone -> SUBSET Answers]
    BY <1>3, <2>3 DEF PollsTyped
  <2>5. listener' \in ListenerType
    BY <1>1, <1>2, SwitchedType
  <2>6. \A q \in Phone : q # p => listener'[q] = lis[q]
    BY <1>1, <1>2, SwitchedElsewhere
  <2> QED BY <2>2, <2>4, <2>5, <2>6
<1>5. link[p] \in LinkOrNone /\ left[p] \in SUBSET Link
  BY DEF StatusTyped
<1>6. left[p] \cup ({link[p]} \ {NoLink}) \in SUBSET Link
  BY <1>5 DEF LinkOrNone
<1>7. StatusTyped'
  BY <1>6 DEF ResetAllStatus, StatusTyped, LinkOrNone
<1>8. PollsTyped'
  BY <1>4 DEF ResetAllStatus, PollsTyped
<1>9. timers' \in [Phone -> TimerType] /\ "unlinked" \in timers'[p]
  BY DEF FlowTyped, TimerType
<1>10. isUserLinked'[p] = FALSE
  BY DEF ResetAllStatus, StatusTyped
<1>11. \A q \in Phone \ {p} : Untouched(q)
  BY <1>4 DEF ResetAllStatus, StatusTyped, FlowTyped, SameOn, Untouched
<1>12. Fits(p)'
  BY <1>4, <1>10 DEF Fits, Kind
<1>13. Hears(p)'
  BY <1>9, <1>10 DEF Hears
<1> QED BY <1>7, <1>8, <1>9, <1>11, <1>12, <1>13

(* A step that leaves status and timers alone and no listener on or off.   *)
LEMMA QuietStaysSound ==
  ASSUME Sound, UNCHANGED <<isUserLinked, timers>>,
         \A q \in Phone, k \in {"global", "couple"} : listener'[q][k].on = listener[q][k].on
  PROVE  Sound'
  BY DEF Sound, Fits, Hears

(* A listener that notes an answer is still on or off.                     *)
LEMMA NotingLemma ==
  ASSUME PollsTyped, NEW p \in Phone, NEW k \in Kind, NEW r,
         r \in Listeners, r.answer \subseteq DocsOf(k), r.on = listener[p][k].on
  PROVE  /\ [listener EXCEPT ![p][k] = r] \in ListenerType
         /\ SameOn([listener EXCEPT ![p][k] = r])
<1> DEFINE lis == [listener EXCEPT ![p] = [listener[p] EXCEPT ![k] = r]]
<1>1. /\ listener \in [Phone -> [Kind -> Listeners]]
      /\ \A q \in Phone, j \in Kind : listener[q][j].answer \subseteq DocsOf(j)
  BY DEF PollsTyped, ListenerType
<1>2. [listener EXCEPT ![p][k] = r] = lis
  BY <1>1
<1>3. [listener[p] EXCEPT ![k] = r] \in [Kind -> Listeners]
  BY <1>1
<1>4. lis \in [Phone -> [Kind -> Listeners]]
  BY <1>1, <1>3
<1>6. \A q \in Phone, j \in Kind : lis[q][j].answer \subseteq DocsOf(j)
  BY <1>1
<1>5. \A q \in Phone, j \in Kind : lis[q][j].on = listener[q][j].on
  BY <1>1
<1> QED BY <1>2, <1>4, <1>5, <1>6 DEF ListenerType, SameOn

(* Registering and removing, as the actions say it.                        *)
LEMMA RelistenTyped ==
  ASSUME PollsTyped, NEW p \in Phone, NEW on \in SUBSET Kind, NEW off \in SUBSET Kind,
         Relisten(p, listener, late[p], on, off)
  PROVE  listener' \in ListenerType /\ late' \in [Phone -> SUBSET Answers]
<1>1. listener \in ListenerType /\ late[p] \in SUBSET Answers
  BY DEF PollsTyped
<1>2. listener' = Switched(p, listener, on, off)
  BY DEF Relisten, Switched
<1>3. late' = [late EXCEPT ![p] = Outliving(p, listener, late[p], on, off)]
  BY DEF Relisten, Outliving
<1>4. listener' \in ListenerType
  BY <1>1, <1>2, SwitchedType
<1>5. Outliving(p, listener, late[p], on, off) \in SUBSET Answers
  BY <1>1, OutlivingLemma
<1> QED BY <1>3, <1>4, <1>5 DEF PollsTyped

LEMMA RelistenElsewhere ==
  ASSUME PollsTyped, NEW p \in Phone, NEW on \in SUBSET Kind, NEW off \in SUBSET Kind,
         Relisten(p, listener, late[p], on, off), NEW q \in Phone, q # p
  PROVE  listener'[q] = listener[q]
<1>1. listener' = Switched(p, listener, on, off)
  BY DEF Relisten, Switched
<1> QED BY <1>1, SwitchedElsewhere DEF PollsTyped

LEMMA RelistenHere ==
  ASSUME PollsTyped, NEW p \in Phone, NEW on \in SUBSET Kind, NEW off \in SUBSET Kind,
         Relisten(p, listener, late[p], on, off), NEW k \in Kind
  PROVE  listener'[p][k] = IF k \in on THEN Fresh ELSE IF k \in off THEN Off ELSE listener[p][k]
<1>1. listener' = Switched(p, listener, on, off)
  BY DEF Relisten, Switched
<1> QED BY <1>1, SwitchedHere DEF PollsTyped

(* Changes to the page and to the partner's listener do not concern it.    *)
LEMMA OthersRelistenQuietly ==
  ASSUME PollsTyped, Sound, UNCHANGED <<isUserLinked, timers>>, NEW p \in Phone,
         NEW on \in SUBSET {"page", "partner"}, NEW off \in SUBSET {"page", "partner"},
         Relisten(p, listener, late[p], on, off)
  PROVE  Sound'
<1>1. on \in SUBSET Kind /\ off \in SUBSET Kind
  BY DEF Kind
<1>2. \A q \in Phone : q # p => listener'[q] = listener[q]
  BY <1>1, RelistenElsewhere
<1>3. \A k \in Kind : listener'[p][k] =
         IF k \in on THEN Fresh ELSE IF k \in off THEN Off ELSE listener[p][k]
  BY <1>1, RelistenHere
<1>4. \A k \in {"global", "couple"} : listener'[p][k] = listener[p][k]
  BY <1>3 DEF Kind
<1>5. \A q \in Phone, k \in {"global", "couple"} : listener'[q][k].on = listener[q][k].on
  BY <1>2, <1>4
<1> QED BY <1>5, QuietStaysSound

LEMMA RequestTyped ==
  ASSUME NEW p \in Phone, NEW q \in Phone, NEW n \in LinkOrNone,
         NEW group \in {"rest", "overdue", "unlink", "inner"},
         NEW op \in {"mark linked", "mark unlinked", "delete couple", "delete link", "list",
                     "profile", "couple"}
  PROVE  Request(p, op, q, group, n) \in RequestType
  BY DEF Request, RequestType

-----------------------------------------------------------------------------
(* The steps, one lemma each.                                              *)
LEMMA OpenPageStep == ASSUME IInv, NEW p \in Phone, OpenPage(p) PROVE IInv'
<1>1. {"page"} \in SUBSET {"page", "partner"} /\ {} \in SUBSET {"page", "partner"}
  OBVIOUS
<1>2. {"page"} \in SUBSET Kind /\ {} \in SUBSET Kind
  BY DEF Kind
<1>3. PollsTyped' /\ Sound'
  <2>1. PollsTyped /\ Sound /\ Relisten(p, listener, late[p], {"page"}, {})
        /\ UNCHANGED <<isUserLinked, timers, wasExisting>>
    BY DEF IInv, Typed, OpenPage, statusVars, flowVars
  <2>2. listener' \in ListenerType /\ late' \in [Phone -> SUBSET Answers]
    BY <1>2, <2>1, RelistenTyped
  <2>3. Sound'
    BY <1>1, <2>1, OthersRelistenQuietly
  <2> QED BY <2>1, <2>2, <2>3 DEF PollsTyped
<1>4. ServerTyped' /\ StatusTyped' /\ FlowTyped' /\ requests' \subseteq RequestType /\ CountsTyped'
  BY DEF IInv, Typed, OpenPage, serverVars, statusVars, flowVars, countVars,
         ServerTyped, StatusTyped, FlowTyped, CountsTyped
<1> QED BY <1>3, <1>4 DEF IInv, Typed

LEMMA ClosePageStep == ASSUME IInv, NEW p \in Phone, ClosePage(p) PROVE IInv'
<1>1. PollsTyped /\ Sound /\ UNCHANGED <<isUserLinked, timers, wasExisting>>
  BY DEF IInv, Typed, ClosePage, statusVars, flowVars
<1>2. listener' = [listener EXCEPT ![p]["page"] = Off]
      /\ late' = [late EXCEPT ![p] = {l \in @ : l[1] # "page"}]
  BY DEF ClosePage
<1>3. Off \in Listeners /\ Off.answer = {}
  BY DEF Off, Listeners
<1>4. "page" \in Kind
  BY DEF Kind
<1>5. listener' \in ListenerType
  BY <1>1, <1>2, <1>3, <1>4 DEF PollsTyped, ListenerType
<1>6. late' \in [Phone -> SUBSET Answers]
  BY <1>1, <1>2 DEF PollsTyped
<1>7. \A q \in Phone, k \in {"global", "couple"} : listener'[q][k].on = listener[q][k].on
  BY <1>1, <1>2 DEF PollsTyped, ListenerType, Kind
<1>8. Sound'
  BY <1>1, <1>7, QuietStaysSound
<1>9. ServerTyped' /\ StatusTyped' /\ FlowTyped' /\ requests' \subseteq RequestType /\ CountsTyped'
  BY DEF IInv, Typed, ClosePage, serverVars, statusVars, flowVars, countVars,
         ServerTyped, StatusTyped, FlowTyped, CountsTyped
<1> QED BY <1>1, <1>5, <1>6, <1>8, <1>9 DEF IInv, Typed, PollsTyped

(* A step that leaves all of it alone, and one that concerns one phone.    *)
LEMMA KeptStaysSound ==
  ASSUME IInv, UNCHANGED <<statusVars, pollVars, timers>>
  PROVE  StatusTyped' /\ PollsTyped' /\ Sound'
<1>1. StatusTyped' /\ PollsTyped'
  BY DEF IInv, Typed, StatusTyped, PollsTyped, statusVars, pollVars
<1>2. Sound'
  BY DEF IInv, Sound, Fits, Hears, statusVars, pollVars
<1> QED BY <1>1, <1>2

LEMMA OnePhoneStaysSound ==
  ASSUME Sound, NEW p \in Phone, Fits(p)', Hears(p)', \A q \in Phone \ {p} : Untouched(q)
  PROVE  Sound'
<1>1. \A q \in Phone \ {p} : Fits(q)' /\ Hears(q)'
  BY UntouchedStaysSound DEF Sound
<1> QED BY <1>1 DEF Sound

LEMMA LinkedSound ==
  ASSUME IInv, NEW p \in Phone, NEW n \in Link,
         SetLinked(p, n, listener, late[p]), timers' = timers
  PROVE  StatusTyped' /\ PollsTyped' /\ Sound'
<1>1. StatusTyped /\ PollsTyped /\ Sound
  BY DEF IInv, Typed
<1>2. listener \in ListenerType /\ late[p] \in SUBSET Answers /\ SameOn(listener)
  BY <1>1 DEF PollsTyped, SameOn
<1>3. /\ StatusTyped' /\ PollsTyped'
      /\ Fits(p)' /\ Hears(p)' /\ \A q \in Phone \ {p} : Untouched(q)
  BY <1>1, <1>2, SetLinkedLemma
<1> QED BY <1>1, <1>3, OnePhoneStaysSound

LEMMA StartLinkStep == ASSUME IInv, NEW p \in Phone, StartLink(p) PROVE IInv'
<1>1. {"page"} \in SUBSET {"page", "partner"} /\ {} \in SUBSET {"page", "partner"}
  OBVIOUS
<1>2. {"page"} \in SUBSET Kind /\ {} \in SUBSET Kind
  BY DEF Kind
<1>3. PollsTyped' /\ Sound'
  <2>1. PollsTyped /\ Sound /\ Relisten(p, listener, late[p], {}, {"page"})
        /\ UNCHANGED <<isUserLinked, timers, wasExisting>>
    BY DEF IInv, Typed, StartLink, statusVars
  <2>2. listener' \in ListenerType /\ late' \in [Phone -> SUBSET Answers]
    BY <1>2, <2>1, RelistenTyped
  <2>3. Sound'
    BY <1>1, <2>1, OthersRelistenQuietly
  <2> QED BY <2>1, <2>2, <2>3 DEF PollsTyped
<1>4. links + 1 \in Link /\ links' \in 0 .. MaxLinks
  BY PhoneAssumption DEF IInv, Typed, CountsTyped, StartLink, Link
<1>5. linking' \in [Phone -> LinkingType]
  <2>1. [phase |-> "sent", link |-> links + 1] \in LinkingType
    BY <1>4 DEF LinkingType, LinkOrNone, Link, NoLink
  <2> QED BY <2>1 DEF IInv, Typed, FlowTyped, StartLink
<1>6. FlowTyped' /\ CountsTyped'
  BY <1>4, <1>5 DEF IInv, Typed, FlowTyped, CountsTyped, StartLink
<1>7. ServerTyped' /\ StatusTyped' /\ requests' \subseteq RequestType
  BY DEF IInv, Typed, StartLink, serverVars, statusVars, ServerTyped, StatusTyped
<1> QED BY <1>3, <1>6, <1>7 DEF IInv, Typed

LEMMA LinkWrittenStep == ASSUME IInv, NEW p \in Phone, LinkWritten(p) PROVE IInv'
<1>1. StatusTyped' /\ PollsTyped' /\ Sound'
  BY KeptStaysSound DEF LinkWritten
<1>2. linking[p] \in LinkingType /\ Other(p) \in Phone
  BY OtherIsPhone DEF IInv, Typed, FlowTyped
<1>3. linking[p].link \in LinkOrNone
  BY <1>2 DEF LinkingType
<1>4. ServerTyped'
  BY <1>3 DEF IInv, Typed, ServerTyped, LinkWritten
<1>5. [linking[p] EXCEPT !.phase = "written"] \in LinkingType
  BY <1>2 DEF LinkingType, LinkWritten
<1>6. FlowTyped'
  BY <1>5 DEF IInv, Typed, FlowTyped, LinkWritten
<1>7. requests' \subseteq RequestType /\ CountsTyped'
  BY DEF IInv, Typed, LinkWritten, CountsTyped, countVars
<1> QED BY <1>1, <1>4, <1>6, <1>7 DEF IInv, Typed

LEMMA IdleTyped == Idle \in LinkingType /\ Idle \in ConfirmType
  BY DEF Idle, LinkingType, ConfirmType, LinkOrNone

LEMMA LinkConfirmedStep == ASSUME IInv, NEW p \in Phone, LinkConfirmed(p) PROVE IInv'
<1>1. linking[p].link \in LinkOrNone /\ linking[p].link \in Link
  BY DEF IInv, Typed, FlowTyped, LinkingType, LinkConfirmed, LinkOrNone
<1>2. StatusTyped' /\ PollsTyped' /\ Sound'
  BY <1>1, LinkedSound DEF LinkConfirmed
<1>3. FlowTyped'
  BY IdleTyped DEF IInv, Typed, FlowTyped, LinkConfirmed
<1>4. /\ Request(p, "mark linked", p, "rest", linking[p].link) \in RequestType
      /\ Request(p, "profile", p, "rest", linking[p].link) \in RequestType
  BY <1>1, RequestTyped
<1>5. requests' \subseteq RequestType
  BY <1>4 DEF IInv, Typed, LinkConfirmed, SyncCoupleUserInfo
<1>6. ServerTyped' /\ CountsTyped'
  BY DEF IInv, Typed, LinkConfirmed, ServerTyped, CountsTyped, serverVars, countVars
<1> QED BY <1>2, <1>3, <1>5, <1>6 DEF IInv, Typed

LEMMA LinkFailedStep == ASSUME IInv, NEW p \in Phone, LinkFailed(p) PROVE IInv'
<1>1. StatusTyped' /\ PollsTyped' /\ Sound'
  BY KeptStaysSound DEF LinkFailed
<1>2. FlowTyped'
  BY IdleTyped DEF IInv, Typed, FlowTyped, LinkFailed
<1>3. CountsTyped'
  BY PhoneAssumption DEF IInv, Typed, CountsTyped, LinkFailed
<1>4. ServerTyped' /\ requests' \subseteq RequestType
  BY DEF IInv, Typed, LinkFailed, ServerTyped, serverVars
<1> QED BY <1>1, <1>2, <1>3, <1>4 DEF IInv, Typed

-----------------------------------------------------------------------------
(* Polls and what their callbacks do.                                      *)
LEMMA PollStep == ASSUME IInv, NEW p \in Phone, NEW k \in Kind, Poll(p, k) PROVE IInv'
<1>1. PollsTyped /\ Sound /\ ServerTyped
  BY DEF IInv, Typed
<1> DEFINE r == [listener[p][k] EXCEPT !.answer = {Watched(p, k)}]
<1>2. listener[p][k] \in Listeners
  BY <1>1 DEF PollsTyped, ListenerType
<1>3. Watched(p, k) \in Docs /\ Watched(p, k) \in DocsOf(k)
  BY <1>1, WatchedIsDoc
<1>4. r \in Listeners /\ r.answer \subseteq DocsOf(k) /\ r.on = listener[p][k].on
  BY <1>2, <1>3 DEF Listeners
<1>5. listener' = [listener EXCEPT ![p][k] = r]
  BY DEF Poll
<1>6. listener' \in ListenerType /\ SameOn(listener')
  <2> HIDE DEF r
  <2> QED BY <1>1, <1>4, <1>5, NotingLemma
<1>7. PollsTyped'
  BY <1>1, <1>6 DEF Poll, PollsTyped
<1>8. Sound'
  BY <1>1, <1>6, QuietStaysSound DEF Poll, SameOn, Kind, statusVars, flowVars
<1>9. ServerTyped' /\ StatusTyped' /\ FlowTyped' /\ requests' \subseteq RequestType /\ CountsTyped'
  BY DEF IInv, Typed, Poll, serverVars, statusVars, flowVars, countVars,
         ServerTyped, StatusTyped, FlowTyped, CountsTyped
<1> QED BY <1>7, <1>8, <1>9 DEF IInv, Typed

(* A callback that removes and registers nothing.                          *)
LEMMA SameListenersSound ==
  ASSUME IInv, NEW p \in Phone, NEW lis \in ListenerType, NEW lt \in SUBSET Answers, SameOn(lis),
         SameListeners(p, lis, lt), wasExisting' \in [Phone -> BOOLEAN],
         UNCHANGED <<statusVars, timers>>
  PROVE  StatusTyped' /\ PollsTyped' /\ Sound'
<1>1. PollsTyped /\ StatusTyped /\ Sound
  BY DEF IInv, Typed
<1> DEFINE none == {}
<1>2. none \in SUBSET Kind
  OBVIOUS
<1>3. listener' = Switched(p, lis, none, none)
      /\ late' = [late EXCEPT ![p] = Outliving(p, lis, lt, none, none)]
  BY DEF SameListeners, Relisten, Switched, Outliving
<1>4. \A k \in Kind : listener'[p][k] = IF k \in none THEN Fresh ELSE IF k \in none THEN Off ELSE lis[p][k]
  <2> HIDE DEF none
  <2> QED BY <1>2, <1>3, SwitchedHere
<1>5. \A k \in Kind : listener'[p][k] = lis[p][k]
  BY <1>4
<1> HIDE DEF none
<1>6. listener' \in ListenerType
  BY <1>2, <1>3, SwitchedType
<1>7. \A q \in Phone : q # p => listener'[q] = lis[q]
  BY <1>2, <1>3, SwitchedElsewhere
<1>8. Outliving(p, lis, lt, none, none) \in SUBSET Answers
  BY <1>2, OutlivingLemma
<1>9. PollsTyped'
  BY <1>1, <1>3, <1>6, <1>8 DEF PollsTyped
<1>10. \A q \in Phone, k \in Kind : listener'[q][k].on = listener[q][k].on
  BY <1>5, <1>7 DEF SameOn
<1>11. Sound'
  BY <1>1, <1>10, QuietStaysSound DEF statusVars, Kind
<1>12. StatusTyped'
  BY <1>1 DEF StatusTyped, statusVars
<1> QED BY <1>9, <1>11, <1>12

LEMMA CallbackStep ==
  ASSUME IInv, NEW p \in Phone, NEW k \in Kind, NEW d \in DocsOf(k), NEW lis \in ListenerType,
         NEW lt \in SUBSET Answers, SameOn(lis), Callback(p, k, d, lis, lt)
  PROVE  IInv'
<1>1. PollsTyped /\ StatusTyped /\ FlowTyped /\ Sound
  BY DEF IInv, Typed
<1>2. ServerTyped' /\ CountsTyped' /\ UNCHANGED <<linking, unlinking>>
  BY DEF IInv, Typed, Callback, ServerTyped, CountsTyped, serverVars, countVars
<1>3. StatusTyped' /\ PollsTyped' /\ Sound' /\ FlowTyped' /\ requests' \subseteq RequestType
  <2>1. CASE /\ Invited(p, k, d)
             /\ confirming' = [confirming EXCEPT ![p].phase = "sent"]
             /\ SameListeners(p, lis, lt)
             /\ UNCHANGED <<statusVars, wasExisting, timers, requests>>
    <3>1. StatusTyped' /\ PollsTyped' /\ Sound'
      BY <2>1, <1>1, SameListenersSound DEF PollsTyped
    <3>2. [confirming[p] EXCEPT !.phase = "sent"] \in ConfirmType
      BY <1>1 DEF FlowTyped, ConfirmType
    <3>3. FlowTyped' /\ requests' \subseteq RequestType
      BY <1>1, <1>2, <2>1, <3>2 DEF FlowTyped, IInv, Typed
    <3> QED BY <3>1, <3>3
  <2>2. CASE /\ Followed(p, k, d)
             /\ SetLinked(p, d.link, lis, lt)
             /\ requests' = requests \cup {SyncCoupleUserInfo(p, d.link)}
             /\ UNCHANGED <<confirming, timers>>
    <3>1. d.link \in LinkOrNone /\ d.link \in Link
      BY <2>2 DEF Followed, DocsOf, LinkOrNone
    <3>2. /\ StatusTyped' /\ PollsTyped'
          /\ Fits(p)' /\ Hears(p)' /\ \A q \in Phone \ {p} : Untouched(q)
      BY <1>1, <2>2, <3>1, SetLinkedLemma
    <3>3. Sound'
      BY <1>1, <3>2, OnePhoneStaysSound
    <3>4. FlowTyped'
      BY <1>1, <1>2, <2>2 DEF FlowTyped
    <3>5. SyncCoupleUserInfo(p, d.link) \in RequestType
      BY <3>1, RequestTyped DEF SyncCoupleUserInfo
    <3>6. requests' \subseteq RequestType
      BY <2>2, <3>5 DEF IInv, Typed
    <3> QED BY <3>2, <3>3, <3>4, <3>6
  <2>3. CASE /\ Appeared(p, k, d)
             /\ wasExisting' = [wasExisting EXCEPT ![p] = TRUE]
             /\ SameListeners(p, lis, lt)
             /\ UNCHANGED <<statusVars, confirming, timers, requests>>
    <3>1. wasExisting' \in [Phone -> BOOLEAN]
      BY <1>1, <2>3 DEF PollsTyped
    <3>2. StatusTyped' /\ PollsTyped' /\ Sound'
      BY <2>3, <3>1, SameListenersSound
    <3>3. FlowTyped' /\ requests' \subseteq RequestType
      BY <1>1, <1>2, <2>3 DEF FlowTyped, IInv, Typed
    <3> QED BY <3>2, <3>3
  <2>4. CASE /\ Vanished(p, k, d) \/ Disowned(p, k, d)
             /\ ResetAllStatus(p, lis, lt)
             /\ timers' = [timers EXCEPT ![p] = @ \cup {"unlinked"}]
             /\ shared' = [shared EXCEPT ![p] = @ /\ k = "couple"]
             /\ UNCHANGED <<confirming, requests>>
    <3>1. shared' \in [Phone -> BOOLEAN]
      BY <1>1, <2>4 DEF StatusTyped
    <3>2. \A q \in Phone : Fits(q)
      BY <1>1 DEF Sound
    <3>3. /\ StatusTyped' /\ PollsTyped' /\ timers' \in [Phone -> TimerType]
          /\ Fits(p)' /\ Hears(p)' /\ \A q \in Phone \ {p} : Untouched(q)
      BY <1>1, <2>4, <3>1, <3>2, ResetLemma
    <3>4. Sound'
      BY <1>1, <3>3, OnePhoneStaysSound
    <3>5. FlowTyped' /\ requests' \subseteq RequestType
      BY <1>1, <1>2, <2>4, <3>3 DEF FlowTyped, IInv, Typed
    <3> QED BY <3>3, <3>4, <3>5
  <2>5. CASE /\ ~ Noted(p, k, d)
             /\ SameListeners(p, lis, lt)
             /\ UNCHANGED <<statusVars, wasExisting, confirming, timers, requests>>
    <3>1. StatusTyped' /\ PollsTyped' /\ Sound'
      BY <2>5, <1>1, SameListenersSound DEF PollsTyped
    <3>2. FlowTyped' /\ requests' \subseteq RequestType
      BY <1>1, <1>2, <2>5 DEF FlowTyped, IInv, Typed
    <3> QED BY <3>1, <3>2
  <2> QED BY <2>1, <2>2, <2>3, <2>4, <2>5 DEF Callback
<1> QED BY <1>2, <1>3 DEF IInv, Typed

(* A listener that has noted what it is told has no answer under way.      *)
LEMMA NotingIsTyped ==
  ASSUME PollsTyped, NEW p \in Phone, NEW k \in Kind, NEW d \in Docs
  PROVE  Noting(p, k, d) \in ListenerType /\ SameOn(Noting(p, k, d))
<1> DEFINE r == [on |-> listener[p][k].on, seen |-> {d}, answer |-> {}]
<1>1. listener[p][k] \in Listeners
  BY DEF PollsTyped, ListenerType
<1>2. r \in Listeners /\ r.answer \subseteq DocsOf(k) /\ r.on = listener[p][k].on
  BY <1>1 DEF Listeners
<1>3. Noting(p, k, d) = [listener EXCEPT ![p][k] = r]
  BY DEF Noting
<1> HIDE DEF r
<1>4. [listener EXCEPT ![p][k] = r] \in ListenerType /\ SameOn([listener EXCEPT ![p][k] = r])
  BY <1>2, NotingLemma
<1> QED BY <1>3, <1>4 DEF SameOn

LEMMA AnswerStep == ASSUME IInv, NEW p \in Phone, NEW k \in Kind, Answer(p, k) PROVE IInv'
<1>1. PICK d \in listener[p][k].answer : Callback(p, k, d, Noting(p, k, d), late[p])
  BY DEF Answer
<1>2. PollsTyped
  BY DEF IInv, Typed
<1>3. d \in DocsOf(k) /\ d \in Docs /\ late[p] \in SUBSET Answers
  BY <1>2 DEF PollsTyped, ListenerType, Listeners
<1>4. Noting(p, k, d) \in ListenerType /\ SameOn(Noting(p, k, d))
  BY <1>2, <1>3, NotingIsTyped
<1> QED BY <1>1, <1>3, <1>4, CallbackStep

LEMMA PollAnsweredStep ==
  ASSUME IInv, NEW p \in Phone, NEW k \in Kind, PollAnswered(p, k) PROVE IInv'
<1>1. PollsTyped /\ ServerTyped
  BY DEF IInv, Typed
<1>2. PICK d : d = Watched(p, k)
  OBVIOUS
<1>3. d \in Docs /\ d \in DocsOf(k)
  BY <1>1, <1>2, WatchedIsDoc
<1>4. late[p] \in SUBSET Answers
  BY <1>1 DEF PollsTyped
<1>5. Callback(p, k, d, Noting(p, k, d), late[p])
  BY <1>2 DEF PollAnswered
<1>6. Noting(p, k, d) \in ListenerType /\ SameOn(Noting(p, k, d))
  BY <1>1, <1>3, NotingIsTyped
<1> QED BY <1>3, <1>4, <1>5, <1>6, CallbackStep

LEMMA LateAnswerStep ==
  ASSUME IInv, NEW p \in Phone, NEW l \in late[p], LateAnswer(p, l[1], l[2]) PROVE IInv'
<1>1. PollsTyped
  BY DEF IInv, Typed
<1>2. PICK k, d : k = l[1] /\ d = l[2]
  OBVIOUS
<1>3. late[p] \in SUBSET Answers /\ l \in Answers
  BY <1>1 DEF PollsTyped
<1>4. k \in Kind /\ d \in DocsOf(k)
  BY <1>2, <1>3 DEF Answers
<1>5. Callback(p, k, d, listener, late[p] \ {<<k, d>>})
  BY <1>2 DEF LateAnswer
<1>6. listener \in ListenerType /\ SameOn(listener) /\ late[p] \ {<<k, d>>} \in SUBSET Answers
  BY <1>1, <1>3 DEF PollsTyped, SameOn
<1> QED BY <1>4, <1>5, <1>6, CallbackStep

-----------------------------------------------------------------------------
(* The confirming read and the timers.                                     *)
LEMMA ConfirmReadStep == ASSUME IInv, NEW p \in Phone, ConfirmRead(p) PROVE IInv'
<1>1. StatusTyped' /\ PollsTyped' /\ Sound'
  BY KeptStaysSound DEF ConfirmRead
<1>2. [phase |-> "read", link |-> linkedCouples[p]] \in ConfirmType
  BY DEF IInv, Typed, ServerTyped, ConfirmType
<1>3. FlowTyped'
  BY <1>2 DEF IInv, Typed, FlowTyped, ConfirmRead
<1>4. ServerTyped' /\ requests' \subseteq RequestType /\ CountsTyped'
  BY DEF IInv, Typed, ConfirmRead, ServerTyped, CountsTyped, serverVars, countVars
<1> QED BY <1>1, <1>3, <1>4 DEF IInv, Typed

LEMMA ConfirmedStep == ASSUME IInv, NEW p \in Phone, Confirmed(p) PROVE IInv'
<1>1. FlowTyped'
  BY IdleTyped DEF IInv, Typed, FlowTyped, Confirmed
<1>2. ServerTyped' /\ CountsTyped' /\ UNCHANGED timers
  BY DEF IInv, Typed, Confirmed, ServerTyped, CountsTyped, serverVars, countVars
<1>3. confirming[p].link \in LinkOrNone
  BY DEF IInv, Typed, FlowTyped, ConfirmType
<1>4. StatusTyped' /\ PollsTyped' /\ Sound' /\ requests' \subseteq RequestType
  <2>1. CASE /\ confirming[p].link # NoLink
             /\ SetLinked(p, confirming[p].link, listener, late[p])
             /\ requests' = requests \cup {SyncCoupleUserInfo(p, confirming[p].link)}
    <3>0. confirming[p].link \in Link
      BY <1>3, <2>1 DEF LinkOrNone
    <3>1. StatusTyped' /\ PollsTyped' /\ Sound'
      BY <1>2, <2>1, <3>0, LinkedSound
    <3>2. SyncCoupleUserInfo(p, confirming[p].link) \in RequestType
      BY <1>3, RequestTyped DEF SyncCoupleUserInfo
    <3> QED BY <2>1, <3>1, <3>2 DEF IInv, Typed
  <2>2. CASE UNCHANGED <<statusVars, pollVars, requests>>
    BY <1>2, <2>2, KeptStaysSound DEF IInv, Typed
  <2> QED BY <2>1, <2>2 DEF Confirmed
<1> QED BY <1>1, <1>2, <1>4 DEF IInv, Typed

LEMMA ConfirmFailedStep == ASSUME IInv, NEW p \in Phone, ConfirmFailed(p) PROVE IInv'
<1>1. StatusTyped' /\ PollsTyped' /\ Sound'
  BY KeptStaysSound DEF ConfirmFailed
<1>2. FlowTyped'
  BY IdleTyped DEF IInv, Typed, FlowTyped, ConfirmFailed
<1>3. CountsTyped'
  BY PhoneAssumption DEF IInv, Typed, CountsTyped, ConfirmFailed
<1>4. ServerTyped' /\ requests' \subseteq RequestType
  BY DEF IInv, Typed, ConfirmFailed, ServerTyped, serverVars
<1> QED BY <1>1, <1>2, <1>3, <1>4 DEF IInv, Typed

LEMMA TimerOffLemma ==
  ASSUME FlowTyped, NEW p \in Phone, NEW t, TimerOff(p, t)
  PROVE  /\ timers' \in [Phone -> TimerType] /\ timers'[p] = timers[p] \ {t}
         /\ \A q \in Phone \ {p} : timers'[q] = timers[q]
  BY DEF FlowTyped, TimerType, TimerOff

(* Registering and removing when a timer fires: the other phone is left    *)
(* alone.                                                                  *)
LEMMA RelistenOnTime ==
  ASSUME IInv, NEW p \in Phone, NEW t, TimerOff(p, t), UNCHANGED isUserLinked,
         NEW on \in SUBSET Kind, NEW off \in SUBSET Kind,
         Relisten(p, listener, late[p], on, off)
  PROVE  \A q \in Phone \ {p} : Untouched(q)
<1>1. PollsTyped /\ FlowTyped
  BY DEF IInv, Typed
<1>2. \A q \in Phone : q # p => listener'[q] = listener[q]
  BY <1>1, RelistenElsewhere
<1>3. \A q \in Phone \ {p} : timers'[q] = timers[q]
  BY <1>1, TimerOffLemma
<1> QED BY <1>2, <1>3 DEF Untouched

LEMMA StartGlobalLinkListenerStep ==
  ASSUME IInv, NEW p \in Phone, NEW t \in timers[p], StartGlobalLinkListener(p, t)
  PROVE  IInv'
<1>1. PollsTyped /\ FlowTyped /\ StatusTyped /\ Sound /\ Fits(p) /\ Hears(p)
  BY DEF IInv, Typed, Sound
<1>2. /\ TimerOff(p, t) /\ t \in {"unlinked", "launched"}
      /\ UNCHANGED <<isUserLinked, wasExisting, confirming, linking, unlinking>>
  BY DEF StartGlobalLinkListener, statusVars
<1>3. timers' \in [Phone -> TimerType] /\ timers'[p] = timers[p] \ {t}
  BY <1>1, <1>2, TimerOffLemma
<1> DEFINE none == {}
<1> DEFINE global == {"global"}
<1>4. none \in SUBSET Kind /\ global \in SUBSET Kind
  BY DEF Kind
<1>5. PollsTyped' /\ Sound'
  <2>1. CASE /\ ~ isUserLinked[p] /\ ~ listener[p]["global"].on
             /\ Relisten(p, listener, late[p], global, none)
    <3>1. \A k \in Kind : listener'[p][k] =
             IF k \in global THEN Fresh ELSE IF k \in none THEN Off ELSE listener[p][k]
      <4> HIDE DEF none, global
      <4>1. PollsTyped /\ Relisten(p, listener, late[p], global, none)
        BY <1>1, <2>1
      <4> QED BY <1>4, <4>1, RelistenHere
    <3>2. listener'[p]["global"].on /\ listener'[p]["couple"] = listener[p]["couple"]
      BY <3>1 DEF Kind, Fresh, Off
    <3>3. Fits(p)' /\ Hears(p)'
      BY <1>1, <1>2, <2>1, <3>2 DEF Fits, Hears
    <3> HIDE DEF none, global
    <3>4. \A q \in Phone \ {p} : Untouched(q)
      BY <1>2, <1>4, <2>1, RelistenOnTime
    <3>5. listener' \in ListenerType /\ late' \in [Phone -> SUBSET Answers]
      BY <1>1, <1>4, <2>1, RelistenTyped
    <3> QED BY <1>1, <1>2, <3>3, <3>4, <3>5, OnePhoneStaysSound DEF PollsTyped
  <2>2. CASE /\ isUserLinked[p] /\ t = "unlinked"
             /\ Relisten(p, listener, late[p], none, global)
    <3>1. \A k \in Kind : listener'[p][k] =
             IF k \in none THEN Fresh ELSE IF k \in global THEN Off ELSE listener[p][k]
      <4> HIDE DEF none, global
      <4> QED BY <1>1, <1>4, <2>2, RelistenHere
    <3>2. ~ listener'[p]["global"].on /\ listener'[p]["couple"] = listener[p]["couple"]
      BY <3>1 DEF Kind, Off
    <3>3. Fits(p)' /\ Hears(p)'
      BY <1>1, <1>2, <1>3, <2>2, <3>2 DEF Fits, Hears
    <3> HIDE DEF none, global
    <3>4. \A q \in Phone \ {p} : Untouched(q)
      BY <1>2, <1>4, <2>2, RelistenOnTime
    <3>5. listener' \in ListenerType /\ late' \in [Phone -> SUBSET Answers]
      BY <1>1, <1>4, <2>2, RelistenTyped
    <3> QED BY <1>1, <1>2, <3>3, <3>4, <3>5, OnePhoneStaysSound DEF PollsTyped
  <2>3. CASE /\ IF isUserLinked[p] THEN t = "launched" ELSE listener[p]["global"].on
             /\ SameListeners(p, listener, late[p])
    <3>1. Relisten(p, listener, late[p], none, none)
      BY <2>3 DEF SameListeners
    <3>2. \A k \in Kind : listener'[p][k] =
             IF k \in none THEN Fresh ELSE IF k \in none THEN Off ELSE listener[p][k]
      <4> HIDE DEF none, global
      <4> QED BY <1>1, <1>4, <3>1, RelistenHere
    <3>3. \A k \in {"global", "couple"} : listener'[p][k] = listener[p][k]
      BY <3>2 DEF Kind
    <3>4. Fits(p)' /\ Hears(p)'
      BY <1>1, <1>2, <1>3, <2>3, <3>3 DEF Fits, Hears
    <3> HIDE DEF none, global
    <3>5. \A q \in Phone \ {p} : Untouched(q)
      BY <1>2, <1>4, <3>1, RelistenOnTime
    <3>6. listener' \in ListenerType /\ late' \in [Phone -> SUBSET Answers]
      BY <1>1, <1>4, <3>1, RelistenTyped
    <3> QED BY <1>1, <1>2, <3>4, <3>5, <3>6, OnePhoneStaysSound DEF PollsTyped
  <2> QED BY <2>1, <2>2, <2>3 DEF StartGlobalLinkListener
<1>6. FlowTyped'
  BY <1>1, <1>2, <1>3 DEF FlowTyped
<1>7. ServerTyped' /\ StatusTyped' /\ requests' \subseteq RequestType /\ CountsTyped'
  BY DEF IInv, Typed, StartGlobalLinkListener, serverVars, statusVars, countVars,
         ServerTyped, StatusTyped, CountsTyped
<1> QED BY <1>5, <1>6, <1>7 DEF IInv, Typed

LEMMA StartCoupleListenerStep ==
  ASSUME IInv, NEW p \in Phone, StartCoupleListener(p) PROVE IInv'
<1>1. PollsTyped /\ FlowTyped /\ StatusTyped /\ Sound /\ Fits(p) /\ Hears(p)
  BY DEF IInv, Typed, Sound
<1>2. /\ TimerOff(p, "couple")
      /\ UNCHANGED <<isUserLinked, confirming, linking, unlinking>>
  BY DEF StartCoupleListener, statusVars
<1>3. timers' \in [Phone -> TimerType] /\ timers'[p] = timers[p] \ {"couple"}
  BY <1>1, <1>2, TimerOffLemma
<1> DEFINE none == {}
<1> DEFINE couple == {"couple"}
<1>4. none \in SUBSET Kind /\ couple \in SUBSET Kind
  BY DEF Kind
<1>5. PollsTyped' /\ Sound'
  <2>1. CASE /\ isUserLinked[p]
             /\ Relisten(p, listener, late[p], couple, none)
             /\ wasExisting' = [wasExisting EXCEPT ![p] = FALSE]
    <3>1. \A k \in Kind : listener'[p][k] =
             IF k \in couple THEN Fresh ELSE IF k \in none THEN Off ELSE listener[p][k]
      <4> HIDE DEF none, couple
      <4> QED BY <1>1, <1>4, <2>1, RelistenHere
    <3>2. listener'[p]["couple"].on /\ listener'[p]["global"] = listener[p]["global"]
      BY <3>1 DEF Kind, Fresh, Off
    <3>3. Fits(p)' /\ Hears(p)'
      BY <1>1, <1>2, <2>1, <3>2 DEF Fits, Hears
    <3> HIDE DEF none, couple
    <3>4. \A q \in Phone \ {p} : Untouched(q)
      BY <1>2, <1>4, <2>1, RelistenOnTime
    <3>5. listener' \in ListenerType /\ late' \in [Phone -> SUBSET Answers]
      BY <1>1, <1>4, <2>1, RelistenTyped
    <3> QED BY <1>1, <2>1, <3>3, <3>4, <3>5, OnePhoneStaysSound DEF PollsTyped
  <2>2. CASE /\ ~ isUserLinked[p]
             /\ SameListeners(p, listener, late[p]) /\ UNCHANGED wasExisting
    <3>1. Relisten(p, listener, late[p], none, none)
      BY <2>2 DEF SameListeners
    <3>2. \A k \in Kind : listener'[p][k] =
             IF k \in none THEN Fresh ELSE IF k \in none THEN Off ELSE listener[p][k]
      <4> HIDE DEF none, couple
      <4> QED BY <1>1, <1>4, <3>1, RelistenHere
    <3>3. \A k \in {"global", "couple"} : listener'[p][k] = listener[p][k]
      BY <3>2 DEF Kind
    <3>4. Fits(p)' /\ Hears(p)'
      BY <1>1, <1>2, <1>3, <2>2, <3>3 DEF Fits, Hears
    <3> HIDE DEF none, couple
    <3>5. \A q \in Phone \ {p} : Untouched(q)
      BY <1>2, <1>4, <3>1, RelistenOnTime
    <3>6. listener' \in ListenerType /\ late' \in [Phone -> SUBSET Answers]
      BY <1>1, <1>4, <3>1, RelistenTyped
    <3> QED BY <1>1, <2>2, <3>4, <3>5, <3>6, OnePhoneStaysSound DEF PollsTyped
  <2> QED BY <2>1, <2>2 DEF StartCoupleListener
<1>6. FlowTyped'
  BY <1>1, <1>2, <1>3 DEF FlowTyped
<1>7. ServerTyped' /\ StatusTyped' /\ requests' \subseteq RequestType /\ CountsTyped'
  BY DEF IInv, Typed, StartCoupleListener, serverVars, statusVars, countVars,
         ServerTyped, StatusTyped, CountsTyped
<1> QED BY <1>5, <1>6, <1>7 DEF IInv, Typed

LEMMA GraceOverStep == ASSUME IInv, NEW p \in Phone, GraceOver(p) PROVE IInv'
<1>1. UNCHANGED <<isUserLinked, timers, listener>>
  BY DEF GraceOver, pollVars, flowVars
<1>2. Sound'
  BY <1>1, QuietStaysSound DEF IInv
<1>3. StatusTyped'
  BY DEF IInv, Typed, StatusTyped, GraceOver
<1>4. ServerTyped' /\ PollsTyped' /\ FlowTyped' /\ requests' \subseteq RequestType /\ CountsTyped'
  BY DEF IInv, Typed, GraceOver, serverVars, pollVars, flowVars, countVars,
         ServerTyped, PollsTyped, FlowTyped, CountsTyped
<1> QED BY <1>2, <1>3, <1>4 DEF IInv, Typed

LEMMA UnlinkForgottenStep == ASSUME IInv, NEW p \in Phone, UnlinkForgotten(p) PROVE IInv'
<1>1. StatusTyped' /\ PollsTyped' /\ Sound'
  BY KeptStaysSound DEF UnlinkForgotten
<1>2. FlowTyped'
  BY DEF IInv, Typed, FlowTyped, UnlinkForgotten
<1>3. ServerTyped' /\ requests' \subseteq RequestType /\ CountsTyped'
  BY DEF IInv, Typed, UnlinkForgotten, ServerTyped, CountsTyped, serverVars, countVars
<1> QED BY <1>1, <1>2, <1>3 DEF IInv, Typed

-----------------------------------------------------------------------------
(* Writes at the server and what their answers set off.                    *)
LEMMA EffectTyped ==
  ASSUME ServerTyped, NEW r \in RequestType, Effect(r) PROVE ServerTyped'
<1>1. r.of \in Phone /\ r.by \in Phone
  BY DEF RequestType
<1>2. \A q \in Phone, b \in BOOLEAN : Mark(q, b) => users' \in [Phone -> [linked : BOOLEAN, version : Nat]]
  <2> SUFFICES ASSUME NEW q \in Phone, NEW b \in BOOLEAN, Mark(q, b)
               PROVE  users' \in [Phone -> [linked : BOOLEAN, version : Nat]]
    OBVIOUS
  <2>1. users[q] \in [linked : BOOLEAN, version : Nat]
    BY DEF ServerTyped
  <2>2. [linked |-> b, version |-> users[q].version + 1] \in [linked : BOOLEAN, version : Nat]
    BY <2>1
  <2> QED BY <2>2 DEF Mark, ServerTyped
<1>3. CASE r.op = "mark linked" /\ Mark(r.of, TRUE) /\ UNCHANGED <<linkedCouples, couples>>
  BY <1>1, <1>2, <1>3 DEF ServerTyped
<1>4. CASE r.op = "mark unlinked" /\ Mark(r.of, FALSE) /\ UNCHANGED <<linkedCouples, couples>>
  BY <1>1, <1>2, <1>4 DEF ServerTyped
<1>5. CASE r.op = "profile" /\ Mark(r.by, TRUE) /\ UNCHANGED <<linkedCouples, couples>>
  BY <1>1, <1>2, <1>5 DEF ServerTyped
<1>6. CASE /\ r.op \in {"couple", "delete couple"} /\ couples' = (r.op = "couple")
           /\ UNCHANGED <<linkedCouples, users>>
  BY <1>6 DEF ServerTyped
<1>7. CASE /\ r.op = "delete link"
           /\ linkedCouples' = [linkedCouples EXCEPT ![r.of] = NoLink]
           /\ UNCHANGED <<couples, users>>
  BY <1>7 DEF ServerTyped, LinkOrNone
<1>8. CASE r.op = "list" /\ UNCHANGED serverVars
  BY <1>8 DEF ServerTyped, serverVars
<1> QED BY <1>3, <1>4, <1>5, <1>6, <1>7, <1>8 DEF Effect

LEMMA FollowsTyped ==
  ASSUME NEW r \in RequestType, NEW done \in BOOLEAN, NEW next \in Follows(r, done)
  PROVE  next \subseteq RequestType
<1>1. [r EXCEPT !.op = "couple"] \in RequestType
  BY DEF RequestType
<1>2. \A q \in Phone : [r EXCEPT !.op = "delete link", !.of = q] \in RequestType
  BY DEF RequestType
<1>3. CASE r.op = "profile"
  BY <1>1, <1>3 DEF Follows
<1>4. CASE r.op = "list" /\ done
  <2>1. next = {[r EXCEPT !.op = "delete link", !.of = q] :
                   q \in {c \in Phone : c # r.by /\ linkedCouples[c] # NoLink}}
    BY <1>4 DEF Follows
  <2> QED BY <1>2, <2>1
<1>5. CASE ~ (r.op = "profile") /\ ~ (r.op = "list" /\ done)
  BY <1>5 DEF Follows
<1> QED BY <1>3, <1>4, <1>5

(* The listener to the partner may be started, nothing else changes on a   *)
(* phone.                                                                  *)
LEMMA PartnerListenedSound ==
  ASSUME IInv, NEW p \in Phone, UNCHANGED <<statusVars, wasExisting, timers>>,
         Relisten(p, listener, late[p], {"partner"}, {}) \/ UNCHANGED <<listener, late>>
  PROVE  StatusTyped' /\ PollsTyped' /\ Sound'
<1>1. PollsTyped /\ StatusTyped /\ Sound /\ UNCHANGED isUserLinked
  BY DEF IInv, Typed, statusVars
<1>2. {"partner"} \in SUBSET {"page", "partner"} /\ {} \in SUBSET {"page", "partner"}
      /\ {"partner"} \in SUBSET Kind /\ {} \in SUBSET Kind
  BY DEF Kind
<1>3. CASE Relisten(p, listener, late[p], {"partner"}, {})
  <2>1. listener' \in ListenerType /\ late' \in [Phone -> SUBSET Answers]
    BY <1>1, <1>2, <1>3, RelistenTyped
  <2>2. Sound'
    BY <1>1, <1>2, <1>3, OthersRelistenQuietly
  <2> QED BY <1>1, <2>1, <2>2 DEF PollsTyped, StatusTyped, statusVars
<1>4. CASE UNCHANGED <<listener, late>>
  BY <1>4, KeptStaysSound DEF pollVars
<1> QED BY <1>3, <1>4

LEMMA AnsweredSound ==
  ASSUME IInv, NEW r \in requests, NEW done \in BOOLEAN, Answered(r, done)
  PROVE  /\ StatusTyped' /\ PollsTyped' /\ Sound' /\ FlowTyped'
         /\ requests' \subseteq RequestType
<1>1. r \in RequestType /\ r.by \in Phone
  BY DEF IInv, Typed, RequestType
<1>2. PICK next \in Follows(r, done) :
        /\ requests' = (requests \ {r}) \cup next
        /\ IF r.op \in {"profile", "couple"} /\ next = {} /\ r.group = "rest"
           THEN Relisten(r.by, listener, late[r.by], {"partner"}, {})
           ELSE UNCHANGED <<listener, late>>
  BY DEF Answered
<1>3. requests' \subseteq RequestType
  BY <1>1, <1>2, FollowsTyped DEF IInv, Typed
<1>4. UNCHANGED <<statusVars, wasExisting, timers>>
  BY DEF Answered, flowVars
<1>5. StatusTyped' /\ PollsTyped' /\ Sound'
  BY <1>1, <1>2, <1>4, PartnerListenedSound
<1>6. FlowTyped'
  BY DEF IInv, Typed, Answered, FlowTyped, flowVars
<1> QED BY <1>3, <1>5, <1>6

LEMMA ServedStep == ASSUME IInv, NEW r \in requests, Served(r) PROVE IInv'
<1>1. ServerTyped'
  BY EffectTyped DEF IInv, Typed, Served
<1>2. /\ StatusTyped' /\ PollsTyped' /\ Sound' /\ FlowTyped'
      /\ requests' \subseteq RequestType
  BY AnsweredSound DEF Served
<1>3. CountsTyped'
  BY DEF IInv, Typed, Served, Answered, CountsTyped
<1> QED BY <1>1, <1>2, <1>3 DEF IInv, Typed

LEMMA FailedStep == ASSUME IInv, NEW r \in requests, Failed(r) PROVE IInv'
<1>1. /\ StatusTyped' /\ PollsTyped' /\ Sound' /\ FlowTyped'
      /\ requests' \subseteq RequestType
  BY AnsweredSound DEF Failed
<1>2. CountsTyped'
  BY PhoneAssumption DEF IInv, Typed, Failed, Answered, CountsTyped
<1>3. ServerTyped'
  BY DEF IInv, Typed, Failed, ServerTyped, serverVars
<1> QED BY <1>1, <1>2, <1>3 DEF IInv, Typed

LEMMA SyncTimedOutStep == ASSUME IInv, NEW r \in requests, SyncTimedOut(r) PROVE IInv'
<1>1. r \in RequestType /\ r.by \in Phone
  BY DEF IInv, Typed, RequestType
<1>2. StatusTyped' /\ PollsTyped' /\ Sound'
  BY <1>1, PartnerListenedSound DEF SyncTimedOut, flowVars
<1>3. [r EXCEPT !.group = "overdue"] \in RequestType
  BY <1>1 DEF RequestType
<1>4. requests' \subseteq RequestType
  BY <1>3 DEF IInv, Typed, SyncTimedOut
<1>5. CountsTyped'
  BY PhoneAssumption DEF IInv, Typed, SyncTimedOut, CountsTyped
<1>6. ServerTyped' /\ FlowTyped'
  BY DEF IInv, Typed, SyncTimedOut, ServerTyped, FlowTyped, serverVars, flowVars
<1> QED BY <1>2, <1>4, <1>5, <1>6 DEF IInv, Typed

-----------------------------------------------------------------------------
(* Ending the link, and restarts.                                          *)
LEMMA PerformUnlinkStep == ASSUME IInv, NEW p \in Phone, PerformUnlink(p) PROVE IInv'
<1>1. StatusTyped' /\ PollsTyped' /\ Sound'
  BY KeptStaysSound DEF PerformUnlink
<1>2. link[p] \in LinkOrNone /\ CoupleCode \in Phone
  BY CoupleCodeIsPhone DEF IInv, Typed, StatusTyped
<1>3. \A q \in Phone : Request(p, "mark unlinked", q, "unlink", link[p]) \in RequestType
  BY <1>2, RequestTyped
<1>4. /\ Request(p, "delete couple", p, "unlink", link[p]) \in RequestType
      /\ Request(p, "delete link", p, "inner", link[p]) \in RequestType
      /\ Request(p, "list", p, "inner", link[p]) \in RequestType
      /\ Request(p, "delete link", CoupleCode, "inner", link[p]) \in RequestType
  BY <1>2, RequestTyped
<1>5. requests' \subseteq RequestType
  BY <1>3, <1>4 DEF IInv, Typed, PerformUnlink
<1>6. FlowTyped'
  BY DEF IInv, Typed, FlowTyped, PerformUnlink
<1>7. CountsTyped'
  <2>1. {link[q] : q \in Phone} \ {NoLink} \subseteq Link
    BY DEF IInv, Typed, StatusTyped, LinkOrNone
  <2>2. unlinks' \in 0 .. MaxUnlinks
    <3>1. unlinks \in 0 .. MaxUnlinks /\ unlinks < MaxUnlinks /\ unlinks' = unlinks + 1
      BY DEF IInv, Typed, CountsTyped, PerformUnlink
    <3> QED BY <3>1, PhoneAssumption
  <2>3. ended' \subseteq Link
    BY <2>1 DEF IInv, Typed, CountsTyped, PerformUnlink
  <2> QED BY <2>2, <2>3 DEF IInv, Typed, CountsTyped, PerformUnlink
<1>8. ServerTyped'
  BY DEF IInv, Typed, PerformUnlink, ServerTyped, serverVars
<1> QED BY <1>1, <1>5, <1>6, <1>7, <1>8 DEF IInv, Typed

LEMMA UnlinkTimedOutStep == ASSUME IInv, NEW p \in Phone, UnlinkTimedOut(p) PROVE IInv'
<1>1. StatusTyped' /\ PollsTyped' /\ Sound'
  BY KeptStaysSound DEF UnlinkTimedOut
<1>2. FlowTyped'
  BY DEF IInv, Typed, FlowTyped, UnlinkTimedOut
<1>3. CountsTyped'
  <2>1. faults < MaxFaults /\ faults' = faults + 1 /\ UNCHANGED <<links, unlinks, ended>>
    BY DEF UnlinkTimedOut
  <2> QED BY <2>1, PhoneAssumption DEF IInv, Typed, CountsTyped
<1>4. ServerTyped' /\ requests' \subseteq RequestType
  BY DEF IInv, Typed, UnlinkTimedOut, ServerTyped, serverVars
<1> QED BY <1>1, <1>2, <1>3, <1>4 DEF IInv, Typed

LEMMA UnlinkDoneStep == ASSUME IInv, NEW p \in Phone, UnlinkDone(p) PROVE IInv'
<1>1. PollsTyped /\ StatusTyped /\ FlowTyped /\ Sound /\ \A q \in Phone : Fits(q)
  BY DEF IInv, Typed, Sound
<1>2. listener \in ListenerType /\ late[p] \in SUBSET Answers /\ SameOn(listener)
  BY <1>1 DEF PollsTyped, SameOn
<1>3. shared' \in [Phone -> BOOLEAN]
  BY <1>1 DEF UnlinkDone, StatusTyped
<1>4. /\ StatusTyped' /\ PollsTyped' /\ timers' \in [Phone -> TimerType]
      /\ Fits(p)' /\ Hears(p)' /\ \A q \in Phone \ {p} : Untouched(q)
  BY <1>1, <1>2, <1>3, ResetLemma DEF UnlinkDone
<1>5. Sound'
  BY <1>1, <1>4, OnePhoneStaysSound
<1>6. FlowTyped'
  BY <1>1, <1>4 DEF FlowTyped, UnlinkDone
<1>7. link[p] \in LinkOrNone
  BY <1>1 DEF StatusTyped
<1>8. Request(p, "mark unlinked", p, "rest", link[p]) \in RequestType
  BY <1>7, RequestTyped
<1>9. requests' \subseteq RequestType
  BY <1>8 DEF IInv, Typed, UnlinkDone
<1>10. ServerTyped' /\ CountsTyped'
  BY DEF IInv, Typed, UnlinkDone, ServerTyped, CountsTyped, serverVars, countVars
<1> QED BY <1>4, <1>5, <1>6, <1>9, <1>10 DEF IInv, Typed

LEMMA RestartStep == ASSUME IInv, NEW p \in Phone, Restart(p) PROVE IInv'
<1>1. PollsTyped /\ StatusTyped /\ FlowTyped /\ Sound
  BY DEF IInv, Typed
<1> DEFINE mine == [k \in Kind |-> IF k = "partner" /\ isUserLinked[p] THEN Fresh ELSE Off]
<1>2. Off \in Listeners /\ Fresh \in Listeners /\ Off.answer = {} /\ Fresh.answer = {} /\ ~ Off.on
  BY DEF Off, Fresh, Listeners
<1>3. mine \in [Kind -> Listeners] /\ \A k \in Kind : mine[k].answer \subseteq DocsOf(k)
  BY <1>2
<1>4. ~ mine["global"].on /\ ~ mine["couple"].on
  BY <1>2 DEF Kind
<1>5. listener' = [listener EXCEPT ![p] = mine]
  BY DEF Restart
<1> HIDE DEF mine
<1>6. listener' \in ListenerType
  BY <1>1, <1>3, <1>5 DEF PollsTyped, ListenerType
<1>7. PollsTyped'
  BY <1>1, <1>6 DEF PollsTyped, Restart
<1>8. listener'[p] = mine /\ \A q \in Phone \ {p} : listener'[q] = listener[q]
  BY <1>1, <1>5 DEF PollsTyped, ListenerType
<1>9. timers' \in [Phone -> TimerType] /\ timers'[p] = {"launched", "couple"}
      /\ \A q \in Phone \ {p} : timers'[q] = timers[q]
  BY <1>1 DEF FlowTyped, TimerType, Restart
<1>10. Fits(p)' /\ Hears(p)'
  BY <1>4, <1>8, <1>9 DEF Fits, Hears
<1>11. \A q \in Phone \ {p} : Untouched(q)
  BY <1>8, <1>9 DEF Untouched, Restart
<1>12. Sound'
  BY <1>1, <1>10, <1>11, OnePhoneStaysSound
<1>13. StatusTyped'
  BY <1>1 DEF StatusTyped, Restart
<1>14. FlowTyped'
  BY <1>1, <1>9, IdleTyped DEF FlowTyped, Restart
<1>15. CountsTyped' /\ requests' \subseteq RequestType
  BY PhoneAssumption DEF IInv, Typed, CountsTyped, Restart
<1>16. ServerTyped'
  BY DEF IInv, Typed, Restart, ServerTyped, serverVars
<1> QED BY <1>7, <1>12, <1>13, <1>14, <1>15, <1>16 DEF IInv, Typed

-----------------------------------------------------------------------------
LEMMA InitEstablishes == Init => IInv
<1> SUFFICES ASSUME Init PROVE IInv
  OBVIOUS
<1>1. ServerTyped
  BY DEF Init, ServerTyped, LinkOrNone
<1>2. StatusTyped
  BY DEF Init, StatusTyped, LinkOrNone
<1>3. Off \in Listeners /\ Off.answer = {} /\ ~ Off.on
  BY DEF Off, Listeners
<1>4. PollsTyped
  BY <1>3 DEF Init, PollsTyped, ListenerType
<1>5. FlowTyped
  BY IdleTyped DEF Init, FlowTyped, TimerType
<1>6. CountsTyped /\ requests \subseteq RequestType
  BY PhoneAssumption DEF Init, CountsTyped
<1>7. Sound
  BY <1>3 DEF Init, Sound, Fits, Hears, Kind
<1> QED BY <1>1, <1>2, <1>4, <1>5, <1>6, <1>7 DEF IInv, Typed

LEMMA StepPreserves == IInv /\ [Next]_vars => IInv'
<1> SUFFICES ASSUME IInv, [Next]_vars PROVE IInv'
  OBVIOUS
<1>1. ASSUME NEW r \in requests, Served(r) \/ Failed(r) \/ SyncTimedOut(r) PROVE IInv'
  BY <1>1, ServedStep, FailedStep, SyncTimedOutStep
<1>2. ASSUME NEW p \in Phone, UserNext(p) PROVE IInv'
  BY <1>2, OpenPageStep, ClosePageStep, StartLinkStep, PerformUnlinkStep DEF UserNext
<1>3. ASSUME NEW p \in Phone, FaultNext(p) PROVE IInv'
  BY <1>3, LinkFailedStep, ConfirmFailedStep, UnlinkTimedOutStep, RestartStep DEF FaultNext
<1>4. ASSUME NEW p \in Phone, CallNext(p) PROVE IInv'
  BY <1>4, LinkWrittenStep, LinkConfirmedStep, ConfirmReadStep, ConfirmedStep, UnlinkDoneStep
     DEF CallNext
<1>5. ASSUME NEW p \in Phone, TimerNext(p) PROVE IInv'
  BY <1>5, StartGlobalLinkListenerStep, StartCoupleListenerStep, GraceOverStep,
     UnlinkForgottenStep DEF TimerNext
<1>6. ASSUME NEW p \in Phone, PollNext(p) PROVE IInv'
  BY <1>6, PollStep, AnswerStep, PollAnsweredStep, LateAnswerStep DEF PollNext
<1>7. CASE UNCHANGED vars
  <2>1. UNCHANGED <<serverVars, statusVars, pollVars, flowVars, requests, countVars>>
    BY <1>7 DEF vars
  <2>2. StatusTyped' /\ PollsTyped' /\ Sound'
    BY <2>1, KeptStaysSound DEF flowVars
  <2>3. ServerTyped' /\ FlowTyped' /\ requests' \subseteq RequestType /\ CountsTyped'
    BY <2>1 DEF IInv, Typed, ServerTyped, FlowTyped, CountsTyped, serverVars, flowVars, countVars
  <2> QED BY <2>2, <2>3 DEF IInv, Typed
<1> QED BY <1>1, <1>2, <1>3, <1>4, <1>5, <1>6, <1>7 DEF Next, Due

LEMMA AlwaysIInv == Spec => []IInv
  BY InitEstablishes, StepPreserves, PTL DEF Spec

(* Every variable keeps its type, however often links are started, ended   *)
(* and interrupted: above all, a phone only ever records a link that some  *)
(* user has started, and each poller is told of documents of its own kind. *)
THEOREM LinkTypeCorrect == Spec => []TypeOK
<1>1. IInv => TypeOK
  BY TypedIsTypeOK DEF IInv
<1> QED BY <1>1, AlwaysIInv, PTL

(* startGlobalLinkListener and startListeningCoupleIfNeeded never listen   *)
(* on a phone whose isUserLinked says the contrary, whatever timers, late  *)
(* answers, restarts and the two flows do, and in whatever order.          *)
THEOREM ListenersAlwaysMatch == Spec => []ListenersMatchStatus
<1>1. IInv => ListenersMatchStatus
  BY SoundIsBoth DEF IInv
<1> QED BY <1>1, AlwaysIInv, PTL

(* No phone goes deaf: setLinked, resetAllStatus and the launch always     *)
(* leave it with the listener its status calls for, or with the timer that *)
(* starts it.                                                              *)
THEOREM SomebodyAlwaysListens == Spec => []SomebodyListens
<1>1. IInv => SomebodyListens
  BY SoundIsBoth DEF IInv
<1> QED BY <1>1, AlwaysIInv, PTL
===============================================================================
