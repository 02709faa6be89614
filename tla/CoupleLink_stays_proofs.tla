------------------------ MODULE CoupleLink_stays_proofs ------------------------
(***************************************************************************)
(* A link lasts until somebody ends it.  With patient users of whom one    *)
(* starts the links, calls that succeed and answers that take no longer    *)
(* than the ones to the global listener, no phone falls out of a link that *)
(* nobody has begun to end: for any number of links and of ends, and       *)
(* whoever ends them.                                                      *)
(***************************************************************************)
EXTENDS CoupleLink_proofs

(* The conditions: a's user starts the links.                              *)
Calm(a) ==
    /\ a \in Phone /\ Linkers \subseteq {a}
    /\ Patient = TRUE /\ Delayed \subseteq {"global"} /\ MaxFaults = 0

(* Somebody has started a link and nobody has begun to end it.             *)
Current == links # 0 /\ links \notin ended

(* The numbers of all links are known, and all but the last are ended.     *)
NumbersFit ==
    /\ \A p \in Phone : /\ linkedCouples[p] <= links /\ link[p] <= links
                        /\ confirming[p].link <= links
    /\ \A n \in 1 .. links : n = links \/ n \in ended
    /\ \A n \in ended : n <= links

(* Only a starts links, so that a is never invited; as long as nobody      *)
(* begins to end the last one, a is in it or about to be.                  *)
StarterFits(a) ==
    /\ linkedCouples[a] = NoLink /\ confirming[a].link = NoLink
    /\ \A q \in Phone \ {a} : linking[q].phase = "no"
    /\ isUserLinked[a] => link[a] = links
    /\ linking[a].phase # "no" => ~ isUserLinked[a] /\ linking[a].link = links
    /\ Current => isUserLinked[a] \/ linking[a].phase # "no"

(* The end of a link is over before the next link starts, but for the last *)
(* mark of the phone that ended it.                                        *)
EndsFit ==
    /\ Current => \A p \in Phone : unlinking[p] = "no"
    /\ \A r \in requests : r.op = "delete couple" =>
           r.group = "unlink" /\ unlinking[r.by] = "waiting"
    /\ \A p \in Phone : wasExisting[p] => isUserLinked[p] /\ (Current => couples)

(* Only answers to the global listener take time.                          *)
Prompt ==
    \A p \in Phone :
        /\ \A k \in Kind \ {"global"} : listener[p][k].answer = {}
        /\ \A l \in late[p] : l[1] = "global"

(* After the grace period no mark is on its way to the partner's document, *)
(* and if that says the partner is not linked, the phone has seen it.      *)
PartnerFits(p) ==
    Current /\ isUserLinked[p] /\ ~ graceRunning[p] =>
        /\ \A r \in requests :
               r.op # "mark unlinked" /\ (r.op \in {"profile", "couple"} => r.by # p)
        /\ listener[p]["partner"].on =>
               users[Other(p)].linked \/ users[Other(p)] \in listener[p]["partner"].seen

StayInv(a) ==
    NumbersFit /\ StarterFits(a) /\ EndsFit /\ Prompt /\ \A p \in Phone : PartnerFits(p)

-----------------------------------------------------------------------------
(* Nothing fails, and the numbers are numbers.                             *)
LEMMA NothingFails ==
  ASSUME NEW a, Calm(a), IInv
  PROVE  /\ ~ faults < MaxFaults
         /\ links \in Nat /\ NoLink = 0 /\ NoLink <= links
         /\ \A p \in Phone : link[p] \in Nat /\ linkedCouples[p] \in Nat /\ confirming[p].link \in Nat
<1>1. LinkOrNone \subseteq Nat /\ NoLink = 0
  BY DEF LinkOrNone, Link, NoLink
<1>2. faults \in 0 .. MaxFaults /\ links \in 0 .. MaxLinks
  BY DEF IInv, Typed, CountsTyped
<1>3. links \in Nat /\ NoLink <= links /\ ~ faults < MaxFaults
  BY <1>1, <1>2, PhoneAssumption DEF Calm
<1>4. \A p \in Phone : link[p] \in LinkOrNone /\ linkedCouples[p] \in LinkOrNone
                      /\ confirming[p].link \in LinkOrNone
  BY DEF IInv, Typed, StatusTyped, ServerTyped, FlowTyped, ConfirmType
<1> QED BY <1>1, <1>3, <1>4

(* The other phone is another one.                                         *)
LEMMA OtherDiffers == \A p \in Phone : Other(p) # p /\ Other(p) \in Phone
<1>1. \A p \in Phone : \E q \in Phone : q # p
  BY PhoneAssumption
<1> QED BY <1>1 DEF Other

(* A phone in a link that is not ended is in the last one.                 *)
LEMMA NotEndedIsCurrent ==
  ASSUME NEW a, Calm(a), IInv, NumbersFit, NEW p \in Phone, isUserLinked[p], link[p] \notin ended
  PROVE  Current
<1>1. link[p] \in Nat /\ link[p] # NoLink /\ link[p] <= links /\ links \in Nat /\ NoLink = 0
  BY NothingFails DEF IInv, Typed, StatusTyped, NumbersFit
<1>2. link[p] \in 1 .. links
  BY <1>1
<1>3. link[p] = links
  BY <1>2 DEF NumbersFit
<1> QED BY <1>1, <1>3 DEF Current

-----------------------------------------------------------------------------
(* What leaves each part alone.                                            *)
LEMMA NumbersKept ==
  ASSUME NumbersFit, UNCHANGED <<linkedCouples, link, confirming, links, ended>>
  PROVE  NumbersFit'
  BY DEF NumbersFit

LEMMA StarterKept ==
  ASSUME NEW a, StarterFits(a),
         UNCHANGED <<linkedCouples, confirming, linking, isUserLinked, link, links, ended>>
  PROVE  StarterFits(a)'
  BY DEF StarterFits, Current

LEMMA EndsKept ==
  ASSUME EndsFit, UNCHANGED <<unlinking, wasExisting, isUserLinked, couples, links, ended>>,
         \A r \in requests' : r.op = "delete couple" => r \in requests
  PROVE  EndsFit'
  BY DEF EndsFit, Current

LEMMA PartnerKept ==
  ASSUME NEW q \in Phone, PartnerFits(q), UNCHANGED <<users, links, ended>>,
         isUserLinked'[q] /\ ~ graceRunning'[q] => isUserLinked[q] /\ ~ graceRunning[q],
         \A r \in requests' : \/ r \in requests
                              \/ /\ r.op # "mark unlinked"
                                 /\ r.op \in {"profile", "couple"} => r.by # q,
         \/ listener'[q]["partner"] = listener[q]["partner"]
         \/ users[Other(q)] \in listener'[q]["partner"].seen
  PROVE  PartnerFits(q)'
  BY DEF PartnerFits, Current

(* Registering and removing leaves no answers of other kinds behind.       *)
PromptIn(lis, lt) ==
    /\ \A q \in Phone, k \in Kind \ {"global"} : lis[q][k].answer = {}
    /\ \A l \in lt : l[1] = "global"

LEMMA RelistenPrompt ==
  ASSUME PollsTyped, Prompt, NEW p \in Phone, NEW lis \in ListenerType, NEW lt \in SUBSET Answers,
         PromptIn(lis, lt), NEW on \in SUBSET Kind, NEW off \in SUBSET Kind,
         Relisten(p, lis, lt, on, off)
  PROVE  Prompt'
<1>1. listener' = Switched(p, lis, on, off)
  BY DEF Relisten, Switched
<1>2. late' = [late EXCEPT ![p] = Outliving(p, lis, lt, on, off)]
  BY DEF Relisten, Outliving
<1>3. \A q \in Phone : q # p => listener'[q] = lis[q]
  BY <1>1, SwitchedElsewhere
<1>4. \A k \in Kind : listener'[p][k] = IF k \in on THEN Fresh ELSE IF k \in off THEN Off ELSE lis[p][k]
  BY <1>1, SwitchedHere
<1>5. Fresh.answer = {} /\ Off.answer = {}
  BY DEF Fresh, Off
<1>6. \A q \in Phone, k \in Kind \ {"global"} : listener'[q][k].answer = {}
  BY <1>3, <1>4, <1>5 DEF PromptIn
<1>7. \A l \in Outliving(p, lis, lt, on, off) : l[1] = "global"
  BY DEF Outliving, PromptIn
<1>8. late'[p] = Outliving(p, lis, lt, on, off) /\ \A q \in Phone : q # p => late'[q] = late[q]
  BY <1>2 DEF PollsTyped
<1> QED BY <1>6, <1>7, <1>8 DEF Prompt

(* Nor does it touch listeners it does not name.                           *)
LEMMA RelistenPartner ==
  ASSUME NEW p \in Phone, NEW lis \in ListenerType, NEW lt,
         NEW on \in SUBSET Kind, NEW off \in SUBSET Kind, "partner" \notin on \cup off,
         Relisten(p, lis, lt, on, off)
  PROVE  \A q \in Phone : listener'[q]["partner"] = lis[q]["partner"]
<1>1. listener' = Switched(p, lis, on, off)
  BY DEF Relisten, Switched
<1>2. "partner" \in Kind
  BY DEF Kind
<1> QED BY <1>1, <1>2, SwitchedElsewhere, SwitchedHere

LEMMA PromptNow ==
  ASSUME IInv, Prompt, NEW p \in Phone
  PROVE  PollsTyped /\ listener \in ListenerType /\ late[p] \in SUBSET Answers /\ PromptIn(listener, late[p])
  BY DEF IInv, Typed, PollsTyped, Prompt, PromptIn

-----------------------------------------------------------------------------
(* No step takes a phone out of a link as long as nobody ends the last one. *)
NoneLost == \A q \in Phone : Current /\ isUserLinked[q] => isUserLinked'[q]

(* The link page and the writes of the starting phone.                     *)
LEMMA PageStays ==
  ASSUME NEW a, Calm(a), IInv, StayInv(a), NEW p \in Phone, OpenPage(p) \/ ClosePage(p)
  PROVE  StayInv(a)' /\ NoneLost
<1>1. UNCHANGED <<serverVars, statusVars, wasExisting, flowVars, requests, countVars>>
  BY DEF OpenPage, ClosePage
<1>2. Prompt' /\ \A q \in Phone : listener'[q]["partner"] = listener[q]["partner"]
  <2>1. CASE OpenPage(p)
    <3>1. Relisten(p, listener, late[p], {"page"}, {})
      BY <2>1 DEF OpenPage
    <3>2. {"page"} \in SUBSET Kind /\ {} \in SUBSET Kind /\ "partner" \notin {"page"} \cup {}
      BY DEF Kind
    <3> QED BY <3>1, <3>2, PromptNow, RelistenPrompt, RelistenPartner DEF StayInv
  <2>2. CASE ClosePage(p)
    <3>1. listener' = [listener EXCEPT ![p]["page"] = Off]
          /\ late' = [late EXCEPT ![p] = {l \in @ : l[1] # "page"}]
      BY <2>2 DEF ClosePage
    <3>2. /\ listener \in [Phone -> [Kind -> Listeners]] /\ late \in [Phone -> SUBSET Answers]
          /\ Off.answer = {} /\ "partner" \in Kind
      BY PromptNow DEF StayInv, PollsTyped, ListenerType, Off, Kind
    <3>3. \A q \in Phone, k \in Kind :
             listener'[q][k] = IF q = p /\ k = "page" THEN Off ELSE listener[q][k]
      BY <3>1, <3>2
    <3>4. \A q \in Phone : late'[q] \subseteq late[q]
      BY <3>1, <3>2
    <3> QED BY <3>2, <3>3, <3>4 DEF StayInv, Prompt
  <2> QED BY <2>1, <2>2
<1>3. NumbersFit' /\ StarterFits(a)' /\ EndsFit'
  BY <1>1, NumbersKept, StarterKept, EndsKept
  DEF StayInv, serverVars, statusVars, flowVars, countVars
<1>4. \A q \in Phone : PartnerFits(q)'
  BY <1>1, <1>2, PartnerKept DEF StayInv, serverVars, statusVars, countVars
<1> QED BY <1>1, <1>2, <1>3, <1>4 DEF StayInv, NoneLost, statusVars

LEMMA StartLinkStays ==
  ASSUME NEW a, Calm(a), IInv, StayInv(a), NEW p \in Phone, StartLink(p)
  PROVE  StayInv(a)' /\ NoneLost
<1>1. /\ p = a /\ links' = links + 1 /\ ended' = ended /\ links \in Nat
      /\ \A q \in Phone : unlinking[q] = "no" /\ ~ isUserLinked[q]
      /\ linking[a] = Idle
      /\ linking' = [linking EXCEPT ![a] = [phase |-> "sent", link |-> links + 1]]
      /\ UNCHANGED <<serverVars, statusVars, wasExisting, confirming, unlinking, requests>>
  BY NothingFails DEF StartLink, Calm, Busy
<1>2. Idle.phase = "no" /\ ~ Current
  BY <1>1 DEF Idle, StayInv, StarterFits, Calm
<1>3. NumbersFit'
  <2>1. \A n \in 1 .. links' : n = links' \/ n \in 1 .. links
    BY <1>1
  <2>2. \A n \in 1 .. links : n \in ended
    BY <1>1, <1>2 DEF StayInv, NumbersFit, Current
  <2>3. \A n \in ended : n <= links /\ n \in Nat
    BY PhoneAssumption DEF StayInv, NumbersFit, IInv, Typed, CountsTyped, Link
  <2>4. \A q \in Phone : linkedCouples[q] \in Nat /\ link[q] \in Nat /\ confirming[q].link \in Nat
    BY NothingFails
  <2>5. \A q \in Phone : linkedCouples[q] <= links' /\ link[q] <= links' /\ confirming[q].link <= links'
    BY <1>1, <2>4 DEF StayInv, NumbersFit
  <2>6. \A n \in ended' : n <= links'
    BY <1>1, <2>3
  <2>7. \A n \in 1 .. links' : n = links' \/ n \in ended'
    BY <1>1, <2>1, <2>2
  <2> QED BY <1>1, <2>5, <2>6, <2>7 DEF NumbersFit, serverVars, statusVars
<1>4. StarterFits(a)'
  <2>1. linking'[a].phase # "no" /\ linking'[a].link = links'
    BY <1>1 DEF IInv, Typed, FlowTyped
  <2>2. \A q \in Phone \ {a} : linking'[q] = linking[q]
    BY <1>1 DEF IInv, Typed, FlowTyped
  <2> QED BY <1>1, <2>1, <2>2 DEF StayInv, StarterFits, Calm, serverVars, statusVars
<1>5. EndsFit' /\ NoneLost /\ \A q \in Phone : PartnerFits(q)'
  BY <1>1, <1>2 DEF StayInv, EndsFit, PartnerFits, NoneLost, serverVars, statusVars
<1>6. Prompt'
  <2>1. Relisten(p, listener, late[p], {}, {"page"})
    BY DEF StartLink
  <2>2. {"page"} \in SUBSET Kind /\ {} \in SUBSET Kind
    BY DEF Kind
  <2> QED BY <2>1, <2>2, PromptNow, RelistenPrompt DEF StayInv
<1> QED BY <1>3, <1>4, <1>5, <1>6 DEF StayInv

LEMMA LinkWrittenStays ==
  ASSUME NEW a, Calm(a), IInv, StayInv(a), NEW p \in Phone, LinkWritten(p)
  PROVE  StayInv(a)' /\ NoneLost
<1>1. /\ p = a /\ linking[a].phase # "no" /\ linking[a].link = links
      /\ ~ isUserLinked[a] /\ links <= links
  BY NothingFails DEF LinkWritten, StayInv, StarterFits
<1>2. /\ UNCHANGED <<couples, users, statusVars, pollVars, confirming, unlinking, requests, countVars>>
      /\ linkedCouples' = [linkedCouples EXCEPT ![Other(a)] = links]
      /\ linking' = [linking EXCEPT ![a].phase = "written"]
  BY <1>1 DEF LinkWritten
<1>3. Other(a) # a /\ Other(a) \in Phone /\ a \in Phone
  BY OtherDiffers DEF Calm
<1>4. /\ linkedCouples'[a] = linkedCouples[a]
      /\ \A q \in Phone : linkedCouples'[q] = links \/ linkedCouples'[q] = linkedCouples[q]
  BY <1>2, <1>3 DEF IInv, Typed, ServerTyped
<1>5. /\ linking'[a].phase # "no" /\ linking'[a].link = linking[a].link
      /\ \A q \in Phone \ {a} : linking'[q] = linking[q]
  BY <1>2, <1>3 DEF IInv, Typed, FlowTyped, LinkingType
<1>6. NumbersFit'
  BY <1>1, <1>2, <1>4 DEF StayInv, NumbersFit, statusVars, countVars
<1>7. StarterFits(a)'
  BY <1>1, <1>2, <1>4, <1>5 DEF StayInv, StarterFits, Current, statusVars, countVars
<1>8. EndsFit' /\ Prompt' /\ NoneLost
  BY <1>2, EndsKept DEF StayInv, Prompt, NoneLost, statusVars, pollVars, countVars
<1>9. \A q \in Phone : PartnerFits(q)'
  BY <1>2, PartnerKept DEF StayInv, statusVars, pollVars, countVars
<1> QED BY <1>6, <1>7, <1>8, <1>9 DEF StayInv

(* setLinked starts a grace period.                                        *)
LEMMA SetLinkedStays ==
  ASSUME NEW a, Calm(a), IInv, StayInv(a), NEW p \in Phone, NEW n \in Link, n <= links,
         NEW lis \in ListenerType, NEW lt \in SUBSET Answers, PromptIn(lis, lt),
         \A q \in Phone : lis[q]["partner"] = listener[q]["partner"],
         SetLinked(p, n, lis, lt),
         UNCHANGED <<serverVars, unlinking, countVars>>,
         \A r \in requests' : \/ r \in requests
                              \/ r.by = p /\ r.op \in {"mark linked", "profile"}
  PROVE  /\ \A q \in Phone : link'[q] <= links
         /\ EndsFit' /\ Prompt' /\ NoneLost /\ \A q \in Phone : PartnerFits(q)'
<1>1. /\ isUserLinked' = [isUserLinked EXCEPT ![p] = TRUE]
      /\ link' = [link EXCEPT ![p] = n]
      /\ graceRunning' = [graceRunning EXCEPT ![p] = TRUE]
      /\ wasExisting' = [wasExisting EXCEPT ![p] = FALSE]
      /\ Relisten(p, lis, lt, {"couple"}, {"global"})
  BY DEF SetLinked
<1>2. {"couple"} \in SUBSET Kind /\ {"global"} \in SUBSET Kind
      /\ "partner" \notin {"couple"} \cup {"global"}
  BY DEF Kind
<1>3. Prompt'
  BY <1>1, <1>2, PromptNow, RelistenPrompt DEF StayInv
<1>4. \A q \in Phone : listener'[q]["partner"] = listener[q]["partner"]
  BY <1>1, <1>2, RelistenPartner
<1>5. \A q \in Phone : /\ isUserLinked'[q] = (isUserLinked[q] \/ q = p)
                       /\ graceRunning'[q] = (graceRunning[q] \/ q = p)
                       /\ wasExisting'[q] => wasExisting[q]
                       /\ link'[q] = n \/ link'[q] = link[q]
  BY <1>1 DEF IInv, Typed, StatusTyped, PollsTyped
<1>6. NoneLost /\ \A q \in Phone : link'[q] <= links
  BY <1>5 DEF NoneLost, StayInv, NumbersFit
<1>7. EndsFit'
  BY <1>5 DEF StayInv, EndsFit, Current, serverVars, countVars
<1>8. ASSUME NEW q \in Phone PROVE PartnerFits(q)'
  <2>1. CASE q = p
    BY <1>5, <2>1 DEF PartnerFits
  <2>2. CASE q # p
    BY <1>4, <1>5, <2>2, PartnerKept DEF StayInv, serverVars, countVars
  <2> QED BY <2>1, <2>2
<1> QED BY <1>3, <1>6, <1>7, <1>8

LEMMA LinkConfirmedStays ==
  ASSUME NEW a, Calm(a), IInv, StayInv(a), NEW p \in Phone, LinkConfirmed(p)
  PROVE  StayInv(a)' /\ NoneLost
<1>1. p = a /\ linking[a].link = links /\ linking[a].phase # "no" /\ ~ isUserLinked[a]
  BY DEF LinkConfirmed, StayInv, StarterFits
<1>2. links \in Link /\ links <= links
  <2>1. linking[a] \in LinkingType
    BY DEF IInv, Typed, FlowTyped, Calm
  <2>2. linking[a].link \in LinkOrNone /\ linking[a].link # NoLink
    BY <1>1, <2>1 DEF LinkingType
  <2> QED BY <1>1, <2>2, NothingFails DEF LinkOrNone
<1>3. /\ SetLinked(a, links, listener, late[a])
      /\ UNCHANGED <<serverVars, unlinking, confirming, countVars>>
      /\ linking' = [linking EXCEPT ![a] = Idle]
  BY <1>1 DEF LinkConfirmed
<1>4. \A r \in requests' : \/ r \in requests
                           \/ r.by = a /\ r.op \in {"mark linked", "profile"}
  <2>1. PICK mark, profile : /\ mark = Request(a, "mark linked", a, "rest", linking[a].link)
                             /\ profile = Request(a, "profile", a, "rest", linking[a].link)
    OBVIOUS
  <2>2. requests' = requests \cup {mark, profile}
    BY <1>1, <2>1 DEF LinkConfirmed, SyncCoupleUserInfo
  <2>3. mark.by = a /\ mark.op = "mark linked" /\ profile.by = a /\ profile.op = "profile"
    BY <2>1 DEF Request
  <2> QED BY <2>2, <2>3
<1>5. /\ \A q \in Phone : link'[q] <= links
      /\ EndsFit' /\ Prompt' /\ NoneLost /\ \A q \in Phone : PartnerFits(q)'
  BY <1>1, <1>2, <1>3, <1>4, PromptNow, SetLinkedStays DEF StayInv
<1>6. NumbersFit'
  BY <1>3, <1>5 DEF StayInv, NumbersFit, serverVars, countVars
<1>7. /\ isUserLinked'[a] /\ link'[a] = links
      /\ linking'[a].phase = "no" /\ \A q \in Phone \ {a} : linking'[q] = linking[q]
  BY <1>1, <1>3 DEF SetLinked, IInv, Typed, StatusTyped, FlowTyped, Idle, Calm
<1>8. StarterFits(a)'
  BY <1>3, <1>7 DEF StayInv, StarterFits, serverVars, countVars
<1> QED BY <1>5, <1>6, <1>8 DEF StayInv

-----------------------------------------------------------------------------
(* The callbacks.  A phone is told by a poll of now, but for the global    *)
(* listener.                                                               *)
Told(p, k, d, lis) ==
    /\ k # "global" => listener[p][k].on /\ d = Watched(p, k) /\ d \notin listener[p][k].seen
    /\ \A q \in Phone : \/ lis[q]["partner"] = listener[q]["partner"]
                        \/ /\ q = p /\ k = "partner"
                           /\ users[Other(q)] \in lis[q]["partner"].seen

(* As long as nobody ends the last link, neither the flag in the partner's *)
(* document nor the couple's document says that it is over.                *)
LEMMA NoFalseEnd ==
  ASSUME NEW a, StayInv(a), NEW p \in Phone, NEW k, NEW d, NEW lis, Told(p, k, d, lis),
         Vanished(p, k, d) \/ Disowned(p, k, d)
  PROVE  ~ Current
<1>1. CASE Vanished(p, k, d)
  <2>1. d = [exists |-> couples] /\ ~ d.exists /\ wasExisting[p]
    BY <1>1 DEF Vanished, Told, Watched
  <2> QED BY <2>1 DEF StayInv, EndsFit
<1>2. CASE Disowned(p, k, d)
  <2>1. /\ d = users[Other(p)] /\ ~ d.linked /\ isUserLinked[p] /\ ~ graceRunning[p]
        /\ listener[p]["partner"].on /\ d \notin listener[p]["partner"].seen
    BY <1>2 DEF Disowned, Told, Watched
  <2> QED BY <2>1 DEF StayInv, PartnerFits
<1> QED BY <1>1, <1>2

(* resetAllStatus, if somebody has begun to end the last link.             *)
LEMMA ResetStays ==
  ASSUME NEW a, Calm(a), IInv, StayInv(a), NEW p \in Phone, ~ Current,
         NEW lis \in ListenerType, NEW lt \in SUBSET Answers, PromptIn(lis, lt),
         ResetAllStatus(p, lis, lt), UNCHANGED <<serverVars, confirming, linking, countVars>>,
         \A r \in requests' : r.op = "delete couple" =>
             r.group = "unlink" /\ unlinking'[r.by] = "waiting"
  PROVE  StayInv(a)' /\ NoneLost
<1>1. /\ isUserLinked' = [isUserLinked EXCEPT ![p] = FALSE]
      /\ link' = [link EXCEPT ![p] = NoLink]
      /\ wasExisting' = [wasExisting EXCEPT ![p] = FALSE]
      /\ Relisten(p, lis, lt, {}, {"couple", "partner"})
  BY DEF ResetAllStatus
<1>2. ~ Current'
  BY DEF Current, countVars
<1>3. \A q \in Phone : IF q = p THEN ~ isUserLinked'[q] /\ link'[q] = NoLink /\ ~ wasExisting'[q]
                      ELSE /\ isUserLinked'[q] = isUserLinked[q] /\ link'[q] = link[q]
                           /\ wasExisting'[q] = wasExisting[q]
  BY <1>1 DEF IInv, Typed, StatusTyped, PollsTyped
<1>4. NumbersFit'
  BY <1>3, NothingFails DEF StayInv, NumbersFit, serverVars, countVars
<1>5. StarterFits(a)'
  BY <1>2, <1>3 DEF StayInv, StarterFits, Calm, serverVars, countVars
<1>6. EndsFit'
  BY <1>2, <1>3 DEF StayInv, EndsFit
<1>7. Prompt'
  <2>1. {} \in SUBSET Kind /\ {"couple", "partner"} \in SUBSET Kind
    BY DEF Kind
  <2> QED BY <1>1, <2>1, PromptNow, RelistenPrompt DEF StayInv
<1> QED BY <1>2, <1>4, <1>5, <1>6, <1>7 DEF StayInv, PartnerFits, NoneLost

LEMMA CallbackStays ==
  ASSUME NEW a, Calm(a), IInv, StayInv(a), NEW p \in Phone, NEW k \in Kind, NEW d \in DocsOf(k),
         NEW lis \in ListenerType, NEW lt \in SUBSET Answers, PromptIn(lis, lt), Told(p, k, d, lis),
         Callback(p, k, d, lis, lt)
  PROVE  StayInv(a)' /\ NoneLost
<1>1. UNCHANGED <<serverVars, linking, unlinking, countVars>>
  BY DEF Callback
<1>2. ASSUME SameListeners(p, lis, lt), requests' = requests,
             UNCHANGED <<isUserLinked, graceRunning>>
      PROVE  Prompt' /\ \A q \in Phone : PartnerFits(q)'
  <2>1. Relisten(p, lis, lt, {}, {})
    BY <1>2 DEF SameListeners
  <2>2. \A q \in Phone : listener'[q]["partner"] = lis[q]["partner"]
    <3>1. {} \in SUBSET Kind /\ "partner" \notin {} \cup {}
      OBVIOUS
    <3> QED BY <2>1, <3>1, RelistenPartner
  <2>3. Prompt'
    BY <2>1, PromptNow, RelistenPrompt DEF StayInv
  <2>4. \A q \in Phone : PartnerFits(q)'
    BY <1>1, <1>2, <2>2, PartnerKept DEF StayInv, Told, serverVars, countVars
  <2> QED BY <2>3, <2>4
<1>3. CASE /\ Invited(p, k, d)
           /\ confirming' = [confirming EXCEPT ![p].phase = "sent"]
           /\ SameListeners(p, lis, lt)
           /\ UNCHANGED <<statusVars, wasExisting, timers, requests>>
  <2>1. \A q \in Phone : confirming'[q].link = confirming[q].link
    BY <1>3 DEF IInv, Typed, FlowTyped, ConfirmType
  <2>2. NumbersFit' /\ StarterFits(a)'
    BY <1>1, <1>3, <2>1 DEF StayInv, NumbersFit, StarterFits, Current, Calm,
       serverVars, statusVars, countVars
  <2>3. EndsFit' /\ NoneLost
    BY <1>1, <1>3, EndsKept DEF StayInv, NoneLost, serverVars, statusVars, countVars
  <2> QED BY <1>2, <1>3, <2>2, <2>3 DEF StayInv, statusVars
<1>4. CASE /\ Followed(p, k, d)
           /\ SetLinked(p, d.link, lis, lt)
           /\ requests' = requests \cup {SyncCoupleUserInfo(p, d.link)}
           /\ UNCHANGED <<confirming, timers>>
  <2>1. k = "page" /\ d.link = linkedCouples[p] /\ d.link # NoLink
    BY <1>4 DEF Followed, Told, Watched
  <2>2. p # a /\ d.link \in Link /\ d.link <= links
    BY <2>1 DEF StayInv, StarterFits, NumbersFit, IInv, Typed, ServerTyped, LinkOrNone
  <2>3. \A q \in Phone : lis[q]["partner"] = listener[q]["partner"]
    BY <2>1 DEF Told
  <2>4. \A r \in requests' : \/ r \in requests
                             \/ r.by = p /\ r.op \in {"mark linked", "profile"}
    <3>1. PICK new : new = SyncCoupleUserInfo(p, d.link)
      OBVIOUS
    <3>2. new.by = p /\ new.op = "profile"
      BY <3>1 DEF SyncCoupleUserInfo, Request
    <3> QED BY <1>4, <3>1, <3>2
  <2>5. /\ \A q \in Phone : link'[q] <= links
        /\ EndsFit' /\ Prompt' /\ NoneLost /\ \A q \in Phone : PartnerFits(q)'
    BY <1>1, <1>4, <2>2, <2>3, <2>4, SetLinkedStays
  <2>6. NumbersFit'
    BY <1>1, <1>4, <2>5 DEF StayInv, NumbersFit, serverVars, countVars
  <2>7. isUserLinked'[a] = isUserLinked[a] /\ link'[a] = link[a]
    BY <1>4, <2>2 DEF SetLinked, IInv, Typed, StatusTyped, Calm
  <2>8. StarterFits(a)'
    BY <1>1, <1>4, <2>7 DEF StayInv, StarterFits, Current, serverVars, countVars
  <2> QED BY <2>5, <2>6, <2>8 DEF StayInv
<1>5. CASE /\ Appeared(p, k, d)
           /\ wasExisting' = [wasExisting EXCEPT ![p] = TRUE]
           /\ SameListeners(p, lis, lt)
           /\ UNCHANGED <<statusVars, confirming, timers, requests>>
  <2>1. NumbersFit' /\ StarterFits(a)' /\ NoneLost
    BY <1>1, <1>5, NumbersKept, StarterKept DEF StayInv, NoneLost, serverVars, statusVars, countVars
  <2>2. isUserLinked[p] /\ couples
    <3>1. k = "couple" /\ d.exists /\ d = [exists |-> couples] /\ listener[p]["couple"].on
      BY <1>5 DEF Appeared, Told, Watched
    <3> QED BY <3>1 DEF IInv, Sound, Fits
  <2>3. \A q \in Phone : wasExisting'[q] => wasExisting[q] \/ q = p
    BY <1>5 DEF IInv, Typed, PollsTyped
  <2>4. EndsFit'
    BY <1>1, <1>5, <2>2, <2>3 DEF StayInv, EndsFit, Current, serverVars, statusVars, countVars
  <2> QED BY <1>2, <1>5, <2>1, <2>4 DEF StayInv, statusVars
<1>6. CASE /\ Vanished(p, k, d) \/ Disowned(p, k, d)
           /\ ResetAllStatus(p, lis, lt)
           /\ timers' = [timers EXCEPT ![p] = @ \cup {"unlinked"}]
           /\ shared' = [shared EXCEPT ![p] = @ /\ k = "couple"]
           /\ UNCHANGED <<confirming, requests>>
  <2>1. ~ Current
    BY <1>6, NoFalseEnd
  <2>2. \A r \in requests' : r.op = "delete couple" =>
            r.group = "unlink" /\ unlinking'[r.by] = "waiting"
    BY <1>1, <1>6 DEF StayInv, EndsFit
  <2> QED BY <1>1, <1>6, <2>1, <2>2, ResetStays
<1>7. CASE /\ ~ Noted(p, k, d)
           /\ SameListeners(p, lis, lt)
           /\ UNCHANGED <<statusVars, wasExisting, confirming, timers, requests>>
  <2>1. NumbersFit' /\ StarterFits(a)' /\ EndsFit' /\ NoneLost
    BY <1>1, <1>7, NumbersKept, StarterKept, EndsKept
    DEF StayInv, NoneLost, serverVars, statusVars, countVars
  <2> QED BY <1>2, <1>7, <2>1 DEF StayInv, statusVars
<1> QED BY <1>3, <1>4, <1>5, <1>6, <1>7 DEF Callback

-----------------------------------------------------------------------------
(* Polls and answers.                                                      *)
LEMMA NotingShape ==
  ASSUME IInv, NEW p \in Phone, NEW k \in Kind, NEW d, NEW lis, lis = Noting(p, k, d)
  PROVE  \A q \in Phone, j \in Kind :
            /\ ~ (q = p /\ j = k) => lis[q][j] = listener[q][j]
            /\ q = p /\ j = k => lis[q][j].seen = {d} /\ lis[q][j].answer = {}
<1>1. listener \in [Phone -> [Kind -> Listeners]]
  BY DEF IInv, Typed, PollsTyped, ListenerType
<1> QED BY <1>1 DEF Noting

LEMMA NotingPrompt ==
  ASSUME IInv, Prompt, NEW p \in Phone, NEW k \in Kind, NEW d
  PROVE  PromptIn(Noting(p, k, d), late[p])
<1>1. PICK lis : lis = Noting(p, k, d)
  OBVIOUS
<1>2. \A q \in Phone, j \in Kind : lis[q][j].answer = {} \/ lis[q][j] = listener[q][j]
  BY <1>1, NotingShape
<1>3. PromptIn(lis, late[p])
  BY <1>2 DEF Prompt, PromptIn
<1> QED BY <1>1, <1>3

LEMMA AnswerStays ==
  ASSUME NEW a, Calm(a), IInv, StayInv(a), NEW p \in Phone, NEW k \in Kind, Answer(p, k)
  PROVE  StayInv(a)' /\ NoneLost
<1>1. PICK d \in listener[p][k].answer : Callback(p, k, d, Noting(p, k, d), late[p])
  BY DEF Answer
<1>2. k = "global"
  BY <1>1 DEF StayInv, Prompt
<1>3. PollsTyped /\ Prompt /\ late[p] \in SUBSET Answers
  BY PromptNow DEF StayInv
<1>4. d \in DocsOf(k) /\ d \in Docs
  BY <1>1, <1>3 DEF PollsTyped, ListenerType, Listeners
<1>5. Noting(p, k, d) \in ListenerType /\ PromptIn(Noting(p, k, d), late[p])
  BY <1>3, <1>4, NotingIsTyped, NotingPrompt
<1>6. "partner" \in Kind /\ "partner" # k
  BY <1>2 DEF Kind
<1>7. Told(p, k, d, Noting(p, k, d))
  <2>1. PICK lis : lis = Noting(p, k, d)
    OBVIOUS
  <2>2. \A q \in Phone : lis[q]["partner"] = listener[q]["partner"]
    BY <1>6, <2>1, NotingShape
  <2>3. Told(p, k, d, lis)
    BY <1>2, <2>2 DEF Told
  <2> QED BY <2>1, <2>3
<1> QED BY <1>1, <1>3, <1>4, <1>5, <1>7, CallbackStays

LEMMA PollAnsweredStays ==
  ASSUME NEW a, Calm(a), IInv, StayInv(a), NEW p \in Phone, NEW k \in Kind, PollAnswered(p, k)
  PROVE  StayInv(a)' /\ NoneLost
<1>1. PICK d : d = Watched(p, k)
  OBVIOUS
<1>2. /\ Callback(p, k, d, Noting(p, k, d), late[p])
      /\ listener[p][k].on /\ d \notin listener[p][k].seen
  BY <1>1 DEF PollAnswered
<1>3. PollsTyped /\ Prompt /\ late[p] \in SUBSET Answers /\ ServerTyped
  BY PromptNow DEF StayInv, IInv, Typed
<1>4. d \in DocsOf(k) /\ d \in Docs
  BY <1>1, <1>3, WatchedIsDoc
<1>5. Noting(p, k, d) \in ListenerType /\ PromptIn(Noting(p, k, d), late[p])
  BY <1>3, <1>4, NotingIsTyped, NotingPrompt
<1>6. Told(p, k, d, Noting(p, k, d))
  <2>1. PICK lis : lis = Noting(p, k, d) /\ "partner" \in Kind
    BY DEF Kind
  <2>2. \A q \in Phone : \/ q = p /\ k = "partner" /\ lis[q]["partner"].seen = {d}
                         \/ lis[q]["partner"] = listener[q]["partner"]
    BY <2>1, NotingShape
  <2>3. k = "partner" => d = users[Other(p)]
    BY <1>1 DEF Watched
  <2>4. Told(p, k, d, lis)
    BY <1>1, <1>2, <2>2, <2>3 DEF Told
  <2> QED BY <2>1, <2>4
<1> QED BY <1>2, <1>3, <1>4, <1>5, <1>6, CallbackStays

LEMMA LateAnswerStays ==
  ASSUME NEW a, Calm(a), IInv, StayInv(a), NEW p \in Phone, NEW l \in late[p],
         LateAnswer(p, l[1], l[2])
  PROVE  StayInv(a)' /\ NoneLost
<1>1. PICK k, d : k = l[1] /\ d = l[2]
  OBVIOUS
<1>2. listener \in ListenerType /\ late[p] \in SUBSET Answers /\ l \in Answers
  BY PromptNow DEF StayInv
<1>3. k = "global" /\ k \in Kind /\ d \in DocsOf(k)
  BY <1>1, <1>2 DEF StayInv, Prompt, Answers
<1>4. Callback(p, k, d, listener, late[p] \ {<<k, d>>})
  BY <1>1 DEF LateAnswer
<1>5. PromptIn(listener, late[p] \ {<<k, d>>}) /\ late[p] \ {<<k, d>>} \in SUBSET Answers
  BY <1>2, PromptNow DEF StayInv, PromptIn
<1>6. Told(p, k, d, listener)
  BY <1>3 DEF Told
<1> QED BY <1>2, <1>3, <1>4, <1>5, <1>6, CallbackStays

LEMMA PollStays ==
  ASSUME NEW a, Calm(a), IInv, StayInv(a), NEW p \in Phone, NEW k \in Kind, Poll(p, k)
  PROVE  StayInv(a)' /\ NoneLost
<1>1. /\ k = "global" /\ listener' = [listener EXCEPT ![p][k].answer = {Watched(p, k)}]
      /\ UNCHANGED <<serverVars, statusVars, late, wasExisting, flowVars, requests, countVars>>
  BY DEF Poll, Calm
<1>2. \A q \in Phone, j \in Kind \ {"global"} : listener'[q][j] = listener[q][j]
  BY <1>1 DEF IInv, Typed, PollsTyped, ListenerType
<1>3. Prompt' /\ \A q \in Phone : listener'[q]["partner"] = listener[q]["partner"]
  BY <1>1, <1>2 DEF StayInv, Prompt, Kind
<1>4. NumbersFit' /\ StarterFits(a)' /\ EndsFit' /\ NoneLost
  BY <1>1, NumbersKept, StarterKept, EndsKept
  DEF StayInv, NoneLost, serverVars, statusVars, flowVars, countVars
<1>5. \A q \in Phone : PartnerFits(q)'
  BY <1>1, <1>3, PartnerKept DEF StayInv, serverVars, statusVars, countVars
<1> QED BY <1>3, <1>4, <1>5 DEF StayInv

-----------------------------------------------------------------------------
(* The confirming read.                                                    *)
LEMMA ConfirmReadStays ==
  ASSUME NEW a, Calm(a), IInv, StayInv(a), NEW p \in Phone, ConfirmRead(p)
  PROVE  StayInv(a)' /\ NoneLost
<1>1. /\ UNCHANGED <<serverVars, statusVars, pollVars, linking, unlinking, timers, requests, countVars>>
      /\ confirming' = [confirming EXCEPT ![p] = [phase |-> "read", link |-> linkedCouples[p]]]
  BY DEF ConfirmRead
<1>2. \A q \in Phone : \/ confirming'[q] = confirming[q]
                       \/ confirming'[q].link = linkedCouples[q]
  BY <1>1 DEF IInv, Typed, FlowTyped
<1>3. NumbersFit' /\ StarterFits(a)'
  BY <1>1, <1>2 DEF StayInv, NumbersFit, StarterFits, Current, Calm, serverVars, statusVars, countVars
<1>4. EndsFit' /\ NoneLost /\ Prompt'
  BY <1>1, EndsKept DEF StayInv, NoneLost, Prompt, serverVars, statusVars, pollVars, countVars
<1>5. \A q \in Phone : PartnerFits(q)'
  BY <1>1, PartnerKept DEF StayInv, serverVars, statusVars, pollVars, countVars
<1> QED BY <1>3, <1>4, <1>5 DEF StayInv

LEMMA ConfirmedStays ==
  ASSUME NEW a, Calm(a), IInv, StayInv(a), NEW p \in Phone, Confirmed(p)
  PROVE  StayInv(a)' /\ NoneLost
<1>1. /\ confirming' = [confirming EXCEPT ![p] = Idle]
      /\ UNCHANGED <<serverVars, linking, unlinking, timers, countVars>>
  BY DEF Confirmed
<1>2. \A q \in Phone : confirming'[q].link = NoLink \/ confirming'[q] = confirming[q]
  BY <1>1 DEF IInv, Typed, FlowTyped, Idle
<1>3. confirming'[a].link = NoLink /\ \A q \in Phone : confirming'[q].link <= links
  BY <1>2, NothingFails DEF StayInv, StarterFits, NumbersFit, Calm
<1>4. CASE /\ confirming[p].link # NoLink
           /\ SetLinked(p, confirming[p].link, listener, late[p])
           /\ requests' = requests \cup {SyncCoupleUserInfo(p, confirming[p].link)}
  <2>1. p # a
    BY <1>4 DEF StayInv, StarterFits
  <2>2. PICK n : n = confirming[p].link
    OBVIOUS
  <2>3. n \in Link /\ n <= links
    BY <1>4, <2>2 DEF StayInv, NumbersFit, IInv, Typed, FlowTyped, ConfirmType, LinkOrNone
  <2>4. \A r \in requests' : \/ r \in requests
                             \/ r.by = p /\ r.op \in {"mark linked", "profile"}
    <3>1. PICK new : new = SyncCoupleUserInfo(p, n)
      OBVIOUS
    <3>2. new.by = p /\ new.op = "profile"
      BY <3>1 DEF SyncCoupleUserInfo, Request
    <3> QED BY <1>4, <2>2, <3>1, <3>2
  <2>5. SetLinked(p, n, listener, late[p])
    BY <1>4, <2>2
  <2>6. /\ \A q \in Phone : link'[q] <= links
        /\ EndsFit' /\ Prompt' /\ NoneLost /\ \A q \in Phone : PartnerFits(q)'
    BY <1>1, <2>3, <2>4, <2>5, PromptNow, SetLinkedStays DEF StayInv
  <2>7. NumbersFit'
    BY <1>1, <1>3, <2>6 DEF StayInv, NumbersFit, serverVars, countVars
  <2>8. isUserLinked'[a] = isUserLinked[a] /\ link'[a] = link[a]
    BY <2>1, <2>5 DEF SetLinked, IInv, Typed, StatusTyped, Calm
  <2>9. StarterFits(a)'
    BY <1>1, <1>3, <2>8 DEF StayInv, StarterFits, Current, serverVars, countVars
  <2> QED BY <2>6, <2>7, <2>9 DEF StayInv
<1>5. CASE UNCHANGED <<statusVars, pollVars, requests>>
  <2>1. NumbersFit' /\ StarterFits(a)'
    BY <1>1, <1>3, <1>5 DEF StayInv, NumbersFit, StarterFits, Current, serverVars, statusVars, countVars
  <2>2. EndsFit' /\ NoneLost /\ Prompt'
    BY <1>1, <1>5, EndsKept DEF StayInv, NoneLost, Prompt, serverVars, statusVars, pollVars, countVars
  <2>3. \A q \in Phone : PartnerFits(q)'
    BY <1>1, <1>5, PartnerKept DEF StayInv, serverVars, statusVars, pollVars, countVars
  <2> QED BY <2>1, <2>2, <2>3 DEF StayInv
<1> QED BY <1>4, <1>5 DEF Confirmed

-----------------------------------------------------------------------------
(* The timers.                                                             *)
LEMMA TimerStays ==
  ASSUME NEW a, Calm(a), IInv, StayInv(a), NEW p \in Phone,
         NEW on \in SUBSET {"global", "couple"}, NEW off \in SUBSET {"global", "couple"},
         Relisten(p, listener, late[p], on, off),
         wasExisting' = wasExisting \/ wasExisting' = [wasExisting EXCEPT ![p] = FALSE],
         UNCHANGED <<serverVars, statusVars, confirming, linking, unlinking, requests, countVars>>
  PROVE  StayInv(a)' /\ NoneLost
<1>1. on \in SUBSET Kind /\ off \in SUBSET Kind /\ "partner" \notin on \cup off
  BY DEF Kind
<1>2. Prompt' /\ \A q \in Phone : listener'[q]["partner"] = listener[q]["partner"]
  BY <1>1, PromptNow, RelistenPrompt, RelistenPartner DEF StayInv
<1>3. NumbersFit' /\ StarterFits(a)' /\ NoneLost
  BY NumbersKept, StarterKept DEF StayInv, NoneLost, serverVars, statusVars, countVars
<1>4. \A q \in Phone : wasExisting'[q] => wasExisting[q]
  BY DEF IInv, Typed, PollsTyped
<1>5. EndsFit'
  BY <1>4 DEF StayInv, EndsFit, Current, serverVars, statusVars, countVars
<1>6. \A q \in Phone : PartnerFits(q)'
  BY <1>2, PartnerKept DEF StayInv, serverVars, statusVars, countVars
<1> QED BY <1>2, <1>3, <1>5, <1>6 DEF StayInv

LEMMA StartListenersStays ==
  ASSUME NEW a, Calm(a), IInv, StayInv(a), NEW p \in Phone,
         StartCoupleListener(p) \/ \E t \in timers[p] : StartGlobalLinkListener(p, t)
  PROVE  StayInv(a)' /\ NoneLost
<1>1. CASE StartCoupleListener(p)
  <2>1. \E on \in SUBSET {"global", "couple"} : Relisten(p, listener, late[p], on, {})
    BY <1>1 DEF StartCoupleListener, SameListeners
  <2>2. {} \in SUBSET {"global", "couple"}
    OBVIOUS
  <2> QED BY <1>1, <2>1, <2>2, TimerStays DEF StartCoupleListener
<1>2. CASE \E t \in timers[p] : StartGlobalLinkListener(p, t)
  <2>1. \E on, off \in SUBSET {"global", "couple"} : Relisten(p, listener, late[p], on, off)
    BY <1>2 DEF StartGlobalLinkListener, SameListeners
  <2> QED BY <1>2, <2>1, TimerStays DEF StartGlobalLinkListener
<1> QED BY <1>1, <1>2

(* The grace period ends when the partner's document has been seen and     *)
(* nothing is on its way to it.                                            *)
LEMMA GraceOverStays ==
  ASSUME NEW a, Calm(a), IInv, StayInv(a), NEW p \in Phone, GraceOver(p)
  PROVE  StayInv(a)' /\ NoneLost
<1>1. /\ requests = {}
      /\ listener[p]["partner"].on => users[Other(p)] \in listener[p]["partner"].seen
      /\ graceRunning' = [graceRunning EXCEPT ![p] = FALSE]
      /\ UNCHANGED <<serverVars, isUserLinked, link, pollVars, flowVars, requests, countVars>>
  BY DEF GraceOver, Settled, Watched, Calm
<1>2. NumbersFit' /\ StarterFits(a)' /\ EndsFit' /\ Prompt' /\ NoneLost
  BY <1>1, NumbersKept, StarterKept, EndsKept
  DEF StayInv, Prompt, NoneLost, serverVars, pollVars, flowVars, countVars
<1>3. ASSUME NEW q \in Phone PROVE PartnerFits(q)'
  <2>1. CASE q = p
    BY <1>1, <2>1 DEF PartnerFits, serverVars, pollVars
  <2>2. CASE q # p
    <3>1. graceRunning'[q] = graceRunning[q]
      BY <1>1, <2>2 DEF IInv, Typed, StatusTyped
    <3> QED BY <1>1, <3>1, PartnerKept DEF StayInv, serverVars, pollVars, countVars
  <2> QED BY <2>1, <2>2
<1> QED BY <1>2, <1>3 DEF StayInv

-----------------------------------------------------------------------------
(* Writes at the server.                                                   *)
LEMMA ServedStays ==
  ASSUME NEW a, Calm(a), IInv, StayInv(a), NEW r \in requests, Served(r)
  PROVE  StayInv(a)' /\ NoneLost
<1>1. /\ Effect(r) /\ Answered(r, TRUE)
      /\ UNCHANGED <<statusVars, wasExisting, flowVars, links, unlinks, ended>>
  BY DEF Served, Answered
<1>2. r \in RequestType /\ r.by \in Phone /\ r.of \in Phone
  BY DEF IInv, Typed, RequestType
<1>3. PICK next \in Follows(r, TRUE) :
         /\ requests' = (requests \ {r}) \cup next
         /\ IF r.op \in {"profile", "couple"} /\ next = {} /\ r.group = "rest"
            THEN Relisten(r.by, listener, late[r.by], {"partner"}, {})
            ELSE UNCHANGED <<listener, late>>
  BY <1>1 DEF Answered
<1>4. \A s \in next : \/ s.op = "couple" /\ s.by = r.by /\ r.op = "profile"
                      \/ s.op = "delete link"
  <2>1. CASE r.op = "profile"
    <3>1. next = {[r EXCEPT !.op = "couple"]}
      BY <1>3, <2>1 DEF Follows
    <3> QED BY <1>2, <2>1, <3>1 DEF RequestType
  <2>2. CASE r.op = "list"
    <3>1. next = {[r EXCEPT !.op = "delete link", !.of = q] :
                     q \in {c \in Phone : c # r.by /\ linkedCouples[c] # NoLink}}
      BY <1>3, <2>2 DEF Follows
    <3> QED BY <1>2, <3>1 DEF RequestType
  <2>3. CASE r.op # "profile" /\ r.op # "list"
    <3>1. next = {}
      BY <1>3, <2>3 DEF Follows
    <3> QED BY <3>1
  <2> QED BY <2>1, <2>2, <2>3
<1>5. \A s \in requests' : s \in requests \/ s \in next
  BY <1>3
<1>6. \A q \in Phone : linkedCouples'[q] = linkedCouples[q] \/ linkedCouples'[q] = NoLink
  BY <1>1 DEF Effect, IInv, Typed, ServerTyped, serverVars
<1>7. NumbersFit' /\ StarterFits(a)' /\ NoneLost
  BY <1>1, <1>6, NothingFails DEF StayInv, NumbersFit, StarterFits, Current, NoneLost, Calm,
     statusVars, flowVars
<1>8. EndsFit'
  <2>1. Current => ~ r.op = "delete couple"
    BY <1>2 DEF StayInv, EndsFit
  <2>2. Current => (couples => couples')
    BY <1>1, <2>1 DEF Effect, serverVars
  <2> QED BY <1>1, <1>4, <1>5, <2>2 DEF StayInv, EndsFit, Current, statusVars, flowVars
<1>9. Prompt'
  <2>1. CASE Relisten(r.by, listener, late[r.by], {"partner"}, {})
    <3>1. {"partner"} \in SUBSET Kind /\ {} \in SUBSET Kind
      BY DEF Kind
    <3> QED BY <1>2, <2>1, <3>1, PromptNow, RelistenPrompt DEF StayInv
  <2>2. CASE UNCHANGED <<listener, late>>
    BY <2>2 DEF StayInv, Prompt
  <2> QED BY <1>3, <2>1, <2>2
<1>10. ASSUME NEW q \in Phone PROVE PartnerFits(q)'
  <2> SUFFICES ASSUME Current, isUserLinked[q], ~ graceRunning[q]
               PROVE  /\ \A s \in requests' :
                             s.op # "mark unlinked" /\ (s.op \in {"profile", "couple"} => s.by # q)
                      /\ listener'[q]["partner"].on =>
                             users'[Other(q)].linked \/ users'[Other(q)] \in listener'[q]["partner"].seen
    BY <1>1 DEF PartnerFits, Current, statusVars
  <2>1. /\ \A s \in requests :
               s.op # "mark unlinked" /\ (s.op \in {"profile", "couple"} => s.by # q)
        /\ listener[q]["partner"].on =>
               users[Other(q)].linked \/ users[Other(q)] \in listener[q]["partner"].seen
    BY DEF StayInv, PartnerFits
  <2>2. \A s \in requests' :
            s.op # "mark unlinked" /\ (s.op \in {"profile", "couple"} => s.by # q)
    BY <1>4, <1>5, <2>1
  <2>3. listener'[q] = listener[q]
    <3>1. CASE r.op \in {"profile", "couple"}
      <4>1. r.by # q
        BY <2>1, <3>1
      <4>2. {"partner"} \in SUBSET Kind /\ {} \in SUBSET Kind /\ PollsTyped
        BY DEF Kind, IInv, Typed
      <4> QED BY <1>2, <1>3, <4>1, <4>2, RelistenElsewhere
    <3>2. CASE r.op \notin {"profile", "couple"}
      BY <1>3, <3>2
    <3> QED BY <3>1, <3>2
  <2>4. users'[Other(q)] = users[Other(q)] \/ users'[Other(q)].linked
    <3>1. \/ Mark(r.of, TRUE) \/ Mark(r.by, TRUE) \/ users' = users
      BY <1>1, <2>1 DEF Effect, serverVars
    <3>2. Other(q) \in Phone /\ users \in [Phone -> [linked : BOOLEAN, version : Nat]]
      BY OtherIsPhone DEF IInv, Typed, ServerTyped
    <3> QED BY <3>1, <3>2 DEF Mark
  <2> QED BY <2>1, <2>2, <2>3, <2>4
<1> QED BY <1>7, <1>8, <1>9, <1>10 DEF StayInv

-----------------------------------------------------------------------------
(* The end of a link.                                                      *)
LEMMA PerformUnlinkStays ==
  ASSUME NEW a, Calm(a), IInv, StayInv(a), NEW p \in Phone, PerformUnlink(p)
  PROVE  StayInv(a)' /\ NoneLost
<1>1. /\ requests = {} /\ \A q \in Phone : isUserLinked[q]
      /\ ended' = ended \cup ({link[q] : q \in Phone} \ {NoLink})
      /\ unlinking' = [unlinking EXCEPT ![p] = "waiting"]
      /\ UNCHANGED <<serverVars, statusVars, pollVars, confirming, linking, links>>
  BY DEF PerformUnlink, Calm
<1>2. link[a] = links /\ link[a] # NoLink
  BY <1>1 DEF StayInv, StarterFits, Calm, IInv, Typed, StatusTyped
<1>3. ~ Current'
  BY <1>1, <1>2 DEF Current, Calm
<1>4. NumbersFit'
  <2>1. \A n \in ended' : n \in ended \/ \E q \in Phone : n = link[q]
    BY <1>1
  <2>2. ended \subseteq ended'
    BY <1>1
  <2> QED BY <1>1, <2>1, <2>2 DEF StayInv, NumbersFit, serverVars, statusVars
<1>5. StarterFits(a)'
  BY <1>1, <1>3 DEF StayInv, StarterFits, serverVars, statusVars
<1>6. EndsFit'
  <2>1. ASSUME NEW r \in requests', r.op = "delete couple"
        PROVE  r.group = "unlink" /\ unlinking'[r.by] = "waiting"
    <3>1. unlinking'[p] = "waiting"
      BY <1>1 DEF IInv, Typed, FlowTyped
    <3>2. PICK marks, couple, own, others :
             /\ marks = {Request(p, "mark unlinked", q, "unlink", link[p]) : q \in Phone}
             /\ couple = Request(p, "delete couple", p, "unlink", link[p])
             /\ own = Request(p, "delete link", p, "inner", link[p])
             /\ others = IF p = CoupleCode
                         THEN Request(p, "list", p, "inner", link[p])
                         ELSE Request(p, "delete link", CoupleCode, "inner", link[p])
      OBVIOUS
    <3>3. requests' = requests \cup marks \cup {couple, own, others}
      BY <3>2 DEF PerformUnlink
    <3>4. ASSUME NEW mark \in marks PROVE mark.op # "delete couple"
      <4>1. PICK q \in Phone : mark = Request(p, "mark unlinked", q, "unlink", link[p])
        BY <3>2, <3>4
      <4> QED BY <4>1 DEF Request
    <3>5. couple.by = p /\ couple.group = "unlink" /\ own.op # "delete couple"
      BY <3>2 DEF Request
    <3>6. others.op # "delete couple"
      <4>1. CASE p = CoupleCode
        BY <3>2, <4>1 DEF Request
      <4>2. CASE p # CoupleCode
        BY <3>2, <4>2 DEF Request
      <4> QED BY <4>1, <4>2
    <3>7. r = couple
      BY <1>1, <2>1, <3>3, <3>4, <3>5, <3>6
    <3> QED BY <3>1, <3>5, <3>7
  <2> QED BY <1>1, <1>3, <2>1 DEF StayInv, EndsFit, statusVars, pollVars
<1>7. Prompt' /\ NoneLost
  BY <1>1 DEF StayInv, Prompt, NoneLost, statusVars, pollVars
<1>8. \A q \in Phone : PartnerFits(q)'
  BY <1>3 DEF PartnerFits
<1> QED BY <1>4, <1>5, <1>6, <1>7, <1>8 DEF StayInv

LEMMA UnlinkDoneStays ==
  ASSUME NEW a, Calm(a), IInv, StayInv(a), NEW p \in Phone, UnlinkDone(p)
  PROVE  StayInv(a)' /\ NoneLost
<1>1. /\ unlinking[p] # "no" /\ Unlinking(p) = {}
      /\ unlinking' = [unlinking EXCEPT ![p] = "done"]
      /\ ResetAllStatus(p, listener, late[p])
      /\ UNCHANGED <<serverVars, confirming, linking, countVars>>
  BY DEF UnlinkDone, AllAnswered
<1>2. ~ Current
  BY <1>1 DEF StayInv, EndsFit
<1>3. ASSUME NEW r \in requests', r.op = "delete couple"
      PROVE  r.group = "unlink" /\ unlinking'[r.by] = "waiting"
  <2>1. PICK mark : mark = Request(p, "mark unlinked", p, "rest", link[p])
    OBVIOUS
  <2>2. mark.op = "mark unlinked" /\ requests' = requests \cup {mark}
    BY <2>1 DEF Request, UnlinkDone
  <2>3. r \in requests
    BY <1>3, <2>2
  <2>4. r.group = "unlink" /\ unlinking[r.by] = "waiting"
    BY <1>3, <2>3 DEF StayInv, EndsFit
  <2>5. r.by # p /\ r.by \in Phone
    BY <1>1, <2>3, <2>4 DEF Unlinking, IInv, Typed, RequestType
  <2>6. unlinking'[r.by] = unlinking[r.by]
    BY <1>1, <2>5 DEF IInv, Typed, FlowTyped
  <2> QED BY <2>4, <2>6
<1> QED BY <1>1, <1>2, <1>3, PromptNow, ResetStays DEF StayInv

LEMMA UnlinkForgottenStays ==
  ASSUME NEW a, Calm(a), IInv, StayInv(a), NEW p \in Phone, UnlinkForgotten(p)
  PROVE  StayInv(a)' /\ NoneLost
<1>1. /\ unlinking[p] = "done" /\ unlinking' = [unlinking EXCEPT ![p] = "no"]
      /\ UNCHANGED <<serverVars, statusVars, pollVars, confirming, linking, timers, requests, countVars>>
  BY DEF UnlinkForgotten
<1>2. \A q \in Phone : unlinking'[q] = "no" \/ unlinking'[q] = unlinking[q]
  BY <1>1 DEF IInv, Typed, FlowTyped
<1>3. \A q \in Phone : unlinking[q] = "waiting" => unlinking'[q] = "waiting"
  BY <1>1 DEF IInv, Typed, FlowTyped
<1>4. \A r \in requests : r.by \in Phone
  BY DEF IInv, Typed, RequestType
<1>5. EndsFit'
  BY <1>1, <1>2, <1>3, <1>4 DEF StayInv, EndsFit, Current, serverVars, statusVars, pollVars, countVars
<1>6. NumbersFit' /\ StarterFits(a)' /\ Prompt' /\ NoneLost
  BY <1>1, NumbersKept, StarterKept
  DEF StayInv, Prompt, NoneLost, serverVars, statusVars, pollVars, countVars
<1>7. \A q \in Phone : PartnerFits(q)'
  BY <1>1, PartnerKept DEF StayInv, serverVars, statusVars, pollVars, countVars
<1> QED BY <1>5, <1>6, <1>7 DEF StayInv

-----------------------------------------------------------------------------
LEMMA StayStep ==
  ASSUME NEW a, Calm(a), IInv, StayInv(a), [Next]_vars
  PROVE  StayInv(a)' /\ NoneLost
<1>1. ASSUME NEW r \in requests, Served(r) PROVE StayInv(a)' /\ NoneLost
  BY <1>1, ServedStays
<1>2. ASSUME NEW r \in requests, Failed(r) \/ SyncTimedOut(r) PROVE FALSE
  BY <1>2, NothingFails DEF Failed, SyncTimedOut
<1>3. ASSUME NEW p \in Phone, FaultNext(p) PROVE FALSE
  BY <1>3, NothingFails DEF FaultNext, LinkFailed, ConfirmFailed, UnlinkTimedOut, Restart
<1>4. ASSUME NEW p \in Phone, UserNext(p) PROVE StayInv(a)' /\ NoneLost
  BY <1>4, PageStays, StartLinkStays, PerformUnlinkStays DEF UserNext
<1>5. ASSUME NEW p \in Phone, CallNext(p) PROVE StayInv(a)' /\ NoneLost
  BY <1>5, LinkWrittenStays, LinkConfirmedStays, ConfirmReadStays, ConfirmedStays,
     UnlinkDoneStays DEF CallNext
<1>6. ASSUME NEW p \in Phone, TimerNext(p) PROVE StayInv(a)' /\ NoneLost
  BY <1>6, StartListenersStays, GraceOverStays, UnlinkForgottenStays DEF TimerNext
<1>7. ASSUME NEW p \in Phone, PollNext(p) PROVE StayInv(a)' /\ NoneLost
  BY <1>7, PollStays, AnswerStays, PollAnsweredStays, LateAnswerStays DEF PollNext
<1>8. CASE UNCHANGED vars
  <2>1. UNCHANGED <<serverVars, statusVars, pollVars, flowVars, requests, countVars>>
    BY <1>8 DEF vars
  <2>2. NumbersFit' /\ StarterFits(a)' /\ EndsFit' /\ Prompt' /\ NoneLost
    BY <2>1, NumbersKept, StarterKept, EndsKept
    DEF StayInv, Prompt, NoneLost, serverVars, statusVars, pollVars, flowVars, countVars
  <2>3. \A q \in Phone : PartnerFits(q)'
    BY <2>1, PartnerKept DEF StayInv, serverVars, statusVars, pollVars, countVars
  <2> QED BY <2>2, <2>3 DEF StayInv
<1> QED BY <1>1, <1>2, <1>3, <1>4, <1>5, <1>6, <1>7, <1>8 DEF Next, Due

LEMMA StayInitially == ASSUME NEW a, Calm(a), Init PROVE StayInv(a)
<1>1. links = 0 /\ ended = {} /\ ~ Current /\ NoLink = 0
  BY DEF Init, Current, NoLink
<1>2. NumbersFit
  BY <1>1 DEF Init, NumbersFit, Idle
<1>3. StarterFits(a) /\ EndsFit /\ Prompt /\ \A p \in Phone : PartnerFits(p)
  BY <1>1 DEF Init, StarterFits, EndsFit, Prompt, PartnerFits, Calm, Idle, Off
<1> QED BY <1>2, <1>3 DEF StayInv

(* A link lasts until somebody begins to end it, for any number of links   *)
(* and of ends by either phone: what is left of the link before, the last  *)
(* mark of the phone that ended it, a late invitation or a profile that is *)
(* written again, takes the next one from nobody.                          *)
THEOREM LinkAlwaysStays ==
  ASSUME NEW a \in Phone, Linkers \subseteq {a}, Delayed \subseteq {"global"}, MaxFaults = 0
  PROVE  Spec => LinkStays
<1>1. CASE Patient
  <2>1. Calm(a)
    BY <1>1 DEF Calm
  <2>2. Init => StayInv(a)
    BY <2>1, StayInitially
  <2>3. IInv /\ StayInv(a) /\ [Next]_vars => StayInv(a)'
    BY <2>1, StayStep
  <2>4. IInv /\ StayInv(a) /\ [Next]_vars
          => [Patient => \A p \in Phone :
                 isUserLinked[p] /\ link[p] \notin ended => isUserLinked'[p]]_vars
    <3> SUFFICES ASSUME IInv, StayInv(a), [Next]_vars, NEW p \in Phone,
                        isUserLinked[p], link[p] \notin ended
                 PROVE  isUserLinked'[p]
      OBVIOUS
    <3>1. Current /\ NoneLost
      BY <2>1, NotEndedIsCurrent, StayStep DEF StayInv
    <3> QED BY <3>1 DEF NoneLost
  <2> QED BY <2>2, <2>3, <2>4, AlwaysIInv, PTL DEF Spec, LinkStays
<1>2. CASE ~ Patient
  <2>1. [Next]_vars => [Patient => \A p \in Phone :
                 isUserLinked[p] /\ link[p] \notin ended => isUserLinked'[p]]_vars
    BY <1>2
  <2> QED BY <2>1, PTL DEF Spec, LinkStays
<1> QED BY <1>1, <1>2
================================================================================
