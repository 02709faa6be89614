------------------------------ MODULE CoupleLink ------------------------------
(***************************************************************************)
(* Linking two phones and ending the link: CoupleStatusManager, the link   *)
(* pages (BootPageView, LinkLoadingView and their Cheek twins),            *)
(* UserManger as far as it follows the partner, and UnlinkViewController.  *)
(*                                                                         *)
(* A phone links itself by writing linked_couples/{code of the partner};   *)
(* the partner polls the document of its own code and follows.  Nothing    *)
(* else says which phones are linked: each keeps its own isUserLinked, and *)
(* hears of the end of a link in two ways, by the flag isInLinkedState in  *)
(* users/{partner} and by the disappearance of couples/{coupleId}.  The    *)
(* phone that ends a link sends all its writes and deletes at once and     *)
(* waits until each has been answered, with success or not.                *)
(*                                                                         *)
(* A phone is known by its invitation code.  Links are numbered in the     *)
(* order in which users start them; the number stands for the linkTime and *)
(* the partnerId of the document.  Third phones, names, avatars and what   *)
(* the other managers do with the link are left out.                       *)
(***************************************************************************)
EXTENDS Integers

CONSTANTS
    Phone,        \* the two phones: their 8-digit codes
    Linkers,      \* phones whose users start links
    Unlinkers,    \* phones whose users end them
    Visitors,     \* phones whose users open the link page
    Restarters,   \* phones whose process may die
    Patient,      \* users do nothing while an unlink is under way, calls take
                  \* less time than the grace period after a link, and answers
                  \* arrive in the order of the polls
    Delayed,      \* kinds of listeners whose answers take time
    MaxLinks,     \* how often users start a link,
    MaxUnlinks,   \* how often they end one,
    MaxFaults     \* and how many calls fail or outlast a time limit, or
                  \* processes die

ASSUME PhoneAssumption ==
    /\ Phone \subseteq Nat /\ \E c, d \in Phone : c # d /\ Phone = {c, d}
    /\ Linkers \cup Unlinkers \cup Visitors \cup Restarters \subseteq Phone
    /\ Patient \in BOOLEAN /\ Delayed \subseteq {"global", "page", "couple", "partner"}
    /\ {MaxLinks, MaxUnlinks, MaxFaults} \subseteq Nat

NoLink == 0
Link   == 1 .. MaxLinks
Kind   == {"global", "page", "couple", "partner"}

Other(p) == CHOOSE q \in Phone : q # p

(* coupleId: the smaller code.                                             *)
CoupleCode == CHOOSE c \in Phone : \A q \in Phone : c <= q

VARIABLES
    linkedCouples,    \* linked_couples/{code}: a link, or NoLink
    couples,          \* whether couples/{coupleId} exists
    users,            \* users/{phone}: isInLinkedState, and how often written
    isUserLinked,     \* CoupleStatusManager.isUserLinked
    link,             \* the link it stands for
    graceRunning,     \* less than 20 s since linkedSince
    shared,           \* whether lists of the couple are on the phone
    listener,         \* the pollers of each phone, by kind
    late,             \* answers to polls of removed listeners
    wasExisting,      \* wasCoupleDocumentExisting
    confirming,       \* the confirming getDocument, if isConfirmingIncomingLink
    linking,          \* the link page's write, if under way
    unlinking,        \* performUnlink, if under way
    timers,           \* timers of CoupleStatusManager that will fire
    requests,         \* writes under way
    links,            \* number of links started
    unlinks, faults,
    ended,            \* links some user has begun to end
    left              \* links a phone has got out of

serverVars == <<linkedCouples, couples, users>>
statusVars == <<isUserLinked, link, graceRunning, shared, left>>
pollVars   == <<listener, late, wasExisting>>
flowVars   == <<confirming, linking, unlinking, timers>>
countVars  == <<links, unlinks, faults, ended>>
vars       == <<serverVars, statusVars, pollVars, flowVars, requests, countVars>>

Off   == [on |-> FALSE, seen |-> {}, answer |-> {}]
Fresh == [Off EXCEPT !.on = TRUE]
Idle  == [phase |-> "no", link |-> NoLink]

Request(p, op, of, group, n) ==
    [by |-> p, op |-> op, of |-> of, group |-> group, link |-> n]

-----------------------------------------------------------------------------
(* What a listener of p watches.                                           *)
Watched(p, k) ==
    CASE k \in {"global", "page"} -> [link |-> linkedCouples[p]]
      [] k = "couple"  -> [exists |-> couples]
      [] k = "partner" -> users[Other(p)]

Docs ==
    {[link |-> n] : n \in {NoLink} \cup Link} \cup {[exists |-> b] : b \in BOOLEAN}
    \cup [linked : BOOLEAN, version : Nat]

TypeOK ==
    /\ linkedCouples \in [Phone -> {NoLink} \cup Link]
    /\ couples \in BOOLEAN
    /\ users \in [Phone -> [linked : BOOLEAN, version : Nat]]
    /\ isUserLinked \in [Phone -> BOOLEAN]
    /\ link \in [Phone -> {NoLink} \cup Link]
    /\ graceRunning \in [Phone -> BOOLEAN]
    /\ shared \in [Phone -> BOOLEAN]
    /\ listener \in [Phone -> [Kind -> [on : BOOLEAN, seen : SUBSET Docs, answer : SUBSET Docs]]]
    /\ late \in [Phone -> SUBSET (Kind \X Docs)]
    /\ wasExisting \in [Phone -> BOOLEAN]
    /\ confirming \in [Phone -> [phase : {"no", "sent", "read"}, link : {NoLink} \cup Link]]
    /\ linking \in [Phone -> [phase : {"no", "sent", "written"}, link : {NoLink} \cup Link]]
    /\ unlinking \in [Phone -> {"no", "waiting", "timed out", "done"}]
    /\ timers \in [Phone -> SUBSET {"unlinked", "launched", "couple"}]
    /\ requests \subseteq
         [by : Phone, of : Phone, group : {"rest", "overdue", "unlink", "inner"}, link : {NoLink} \cup Link,
          op : {"mark linked", "mark unlinked", "delete couple", "delete link", "list",
                "profile", "couple"}]
    /\ links \in 0 .. MaxLinks /\ unlinks \in 0 .. MaxUnlinks
    /\ faults \in 0 .. MaxFaults
    /\ ended \subseteq Link /\ left \in [Phone -> SUBSET Link]

(* Two phones that have never been linked and have just been started.      *)
Init ==
    /\ linkedCouples = [p \in Phone |-> NoLink]
    /\ couples = FALSE
    /\ users = [p \in Phone |-> [linked |-> FALSE, version |-> 0]]
    /\ isUserLinked = [p \in Phone |-> FALSE]
    /\ link = [p \in Phone |-> NoLink]
    /\ graceRunning = [p \in Phone |-> FALSE]
    /\ shared = [p \in Phone |-> FALSE]
    /\ listener = [p \in Phone |-> [k \in Kind |-> Off]]
    /\ late = [p \in Phone |-> {}]
    /\ wasExisting = [p \in Phone |-> FALSE]
    /\ confirming = [p \in Phone |-> Idle]
    /\ linking = [p \in Phone |-> Idle]
    /\ unlinking = [p \in Phone |-> "no"]
    /\ timers = [p \in Phone |-> {"launched", "couple"}]
    /\ requests = {}
    /\ links = 0 /\ unlinks = 0 /\ faults = 0
    /\ ended = {} /\ left = [p \in Phone |-> {}]

-----------------------------------------------------------------------------
(* Listeners are registered and removed; a poll of a removed one that is   *)
(* under way still calls back.  lis and lt are the listeners and the late  *)
(* answers before.                                                         *)
Relisten(p, lis, lt, on, off) ==
    /\ listener' = [lis EXCEPT ![p] = [k \in Kind |->
           IF k \in on THEN Fresh ELSE IF k \in off THEN Off ELSE @[k]]]
    /\ late' = [late EXCEPT ![p] =
           lt \cup UNION {{k} \X lis[p][k].answer : k \in on \cup off}]

SameListeners(p, lis, lt) == Relisten(p, lis, lt, {}, {})

(* Variant: the listener for invitations goes on.                          *)
SetLinkedStillInvited(p, n, lis, lt) ==
    /\ isUserLinked' = [isUserLinked EXCEPT ![p] = TRUE]
    /\ link' = [link EXCEPT ![p] = n]
    /\ graceRunning' = [graceRunning EXCEPT ![p] = TRUE]
    /\ shared' = [shared EXCEPT ![p] = TRUE]
    /\ UNCHANGED left
    /\ Relisten(p, lis, lt, {"couple"}, {})
    /\ wasExisting' = [wasExisting EXCEPT ![p] = FALSE]

SetLinked(p, n, lis, lt) ==
    /\ isUserLinked' = [isUserLinked EXCEPT ![p] = TRUE]
    /\ link' = [link EXCEPT ![p] = n]
    /\ graceRunning' = [graceRunning EXCEPT ![p] = TRUE]
    /\ shared' = [shared EXCEPT ![p] = TRUE]
    /\ UNCHANGED left
    /\ Relisten(p, lis, lt, {"couple"}, {"global"})
    /\ wasExisting' = [wasExisting EXCEPT ![p] = FALSE]

(* The notification it posts starts the timer of the global listener and   *)
(* makes UserManger stop its listeners.                                    *)
ResetAllStatus(p, lis, lt) ==
    /\ isUserLinked' = [isUserLinked EXCEPT ![p] = FALSE]
    /\ link' = [link EXCEPT ![p] = NoLink]
    /\ left' = [left EXCEPT ![p] = @ \cup ({link[p]} \ {NoLink})]
    /\ graceRunning' = [graceRunning EXCEPT ![p] = FALSE]
    /\ Relisten(p, lis, lt, {}, {"couple", "partner"})
    /\ wasExisting' = [wasExisting EXCEPT ![p] = FALSE]

(* syncCoupleUserInfoAfterLink begins.                                     *)
SyncCoupleUserInfo(p, n) == Request(p, "profile", p, "rest", n)

-----------------------------------------------------------------------------
(* The active side of a link (startLink).  The page stops listening while  *)
(* the link is being written.                                              *)
Busy == \E q \in Phone : unlinking[q] # "no"

OpenPage(p) ==
    /\ p \in Visitors
    /\ Patient => ~ Busy
    /\ ~ isUserLinked[p] /\ linking[p] = Idle /\ ~ listener[p]["page"].on
    /\ Relisten(p, listener, late[p], {"page"}, {})
    /\ UNCHANGED <<serverVars, statusVars, wasExisting, flowVars, requests, countVars>>

ClosePage(p) ==
    /\ listener[p]["page"].on
    /\ listener' = [listener EXCEPT ![p]["page"] = Off]
    /\ late' = [late EXCEPT ![p] = {l \in @ : l[1] # "page"}]
    /\ UNCHANGED <<serverVars, statusVars, wasExisting, flowVars, requests, countVars>>

StartLink(p) ==
    /\ p \in Linkers
    /\ Patient => ~ Busy /\ \A q \in Phone : timers[q] = {} /\ ~ isUserLinked[q]
    /\ ~ isUserLinked[p] /\ linking[p] = Idle
    /\ links < MaxLinks
    /\ links' = links + 1
    /\ linking' = [linking EXCEPT ![p] = [phase |-> "sent", link |-> links + 1]]
    /\ Relisten(p, listener, late[p], {}, {"page"})
    /\ UNCHANGED <<serverVars, statusVars, wasExisting, confirming, unlinking,
                   timers, requests, unlinks, faults, ended>>

LinkWritten(p) ==
    /\ linking[p].phase = "sent"
    /\ linkedCouples' = [linkedCouples EXCEPT ![Other(p)] = linking[p].link]
    /\ linking' = [linking EXCEPT ![p].phase = "written"]
    /\ UNCHANGED <<couples, users, statusVars, pollVars, confirming, unlinking,
                   timers, requests, countVars>>

(* The callback: whether the phone is linked by now is not asked again.    *)
LinkConfirmed(p) ==
    /\ linking[p].phase = "written"
    /\ SetLinked(p, linking[p].link, listener, late[p])
    /\ requests' = requests \cup
           {Request(p, "mark linked", p, "rest", linking[p].link),
            SyncCoupleUserInfo(p, linking[p].link)}
    /\ linking' = [linking EXCEPT ![p] = Idle]
    /\ UNCHANGED <<serverVars, confirming, unlinking, timers, countVars>>

(* The partner's invitation is not found, or the write fails, perhaps      *)
(* after it was done: the page shows the error.                            *)
LinkFailed(p) ==
    /\ linking[p] # Idle
    /\ faults < MaxFaults
    /\ faults' = faults + 1
    /\ linking' = [linking EXCEPT ![p] = Idle]
    /\ UNCHANGED <<serverVars, statusVars, pollVars, confirming, unlinking,
                   timers, requests, links, unlinks, ended>>

-----------------------------------------------------------------------------
(* Polls.  One that finds what the listener knows already, or that fails,  *)
(* changes nothing and is left out.                                        *)
Poll(p, k) ==
    /\ k \in Delayed
    /\ listener[p][k].on /\ listener[p][k].answer = {}
    /\ Watched(p, k) \notin listener[p][k].seen
    /\ Patient => \A l \in late[p] : l[1] # k
    /\ listener' = [listener EXCEPT ![p][k].answer = {Watched(p, k)}]
    /\ UNCHANGED <<serverVars, statusVars, late, wasExisting, flowVars, requests, countVars>>

(* Variant: an invitation counts only as a change since the poll before.   *)
InvitedByChange(p, k, d) ==
    /\ k = "global" /\ d.link # NoLink /\ listener[p][k].seen # {}
    /\ ~ isUserLinked[p] /\ confirming[p] = Idle

(* Variant: no grace period.                                               *)
DisownedAtOnce(p, k, d) ==
    k = "partner" /\ ~ d.linked /\ isUserLinked[p] /\ unlinking[p] = "no"

(* Variant: a phone is taken out of a link only by the couple's document.  *)
DisownedNever(p, k, d) == FALSE

(* The conditions of the four callbacks.                                   *)
Invited(p, k, d)  == /\ k = "global" /\ d.link # NoLink
                     /\ ~ isUserLinked[p] /\ confirming[p] = Idle
Followed(p, k, d) == k = "page" /\ d.link # NoLink /\ ~ isUserLinked[p]
Appeared(p, k, d) == k = "couple" /\ d.exists /\ ~ wasExisting[p]
Vanished(p, k, d) == k = "couple" /\ ~ d.exists /\ wasExisting[p] /\ isUserLinked[p]
Disowned(p, k, d) == /\ k = "partner" /\ ~ d.linked
                     /\ isUserLinked[p] /\ ~ graceRunning[p] /\ unlinking[p] = "no"

Noted(p, k, d) == Invited(p, k, d) \/ Followed(p, k, d) \/ Appeared(p, k, d)
                  \/ Vanished(p, k, d) \/ Disowned(p, k, d)

Callback(p, k, d, lis, lt) ==
    /\ \/ /\ Invited(p, k, d)
          /\ confirming' = [confirming EXCEPT ![p].phase = "sent"]
          /\ SameListeners(p, lis, lt)
          /\ UNCHANGED <<statusVars, wasExisting, timers, requests>>
       \/ /\ Followed(p, k, d)
          /\ SetLinked(p, d.link, lis, lt)
          /\ requests' = requests \cup {SyncCoupleUserInfo(p, d.link)}
          /\ UNCHANGED <<confirming, timers>>
       \/ /\ Appeared(p, k, d)
          /\ wasExisting' = [wasExisting EXCEPT ![p] = TRUE]
          /\ SameListeners(p, lis, lt)
          /\ UNCHANGED <<statusVars, confirming, timers, requests>>
       \/ /\ Vanished(p, k, d) \/ Disowned(p, k, d)
          /\ ResetAllStatus(p, lis, lt)
          /\ timers' = [timers EXCEPT ![p] = @ \cup {"unlinked"}]
          /\ shared' = [shared EXCEPT ![p] = @ /\ k = "couple"]
          /\ UNCHANGED <<confirming, requests>>
       \/ /\ ~ Noted(p, k, d)
          /\ SameListeners(p, lis, lt)
          /\ UNCHANGED <<statusVars, wasExisting, confirming, timers, requests>>
    /\ UNCHANGED <<serverVars, linking, unlinking, countVars>>

Noting(p, k, d) ==
    [listener EXCEPT ![p][k] = [on |-> @.on, seen |-> {d}, answer |-> {}]]

Answer(p, k) ==
    \E d \in listener[p][k].answer :
        Callback(p, k, d, Noting(p, k, d), late[p])

PollAnswered(p, k) ==
    /\ k \notin Delayed
    /\ listener[p][k].on
    /\ Watched(p, k) \notin listener[p][k].seen
    /\ Callback(p, k, Watched(p, k), Noting(p, k, Watched(p, k)), late[p])

(* A poll outlives its listener.  It calls back unless the owner is gone.  *)
LateAnswer(p, k, d) ==
    /\ <<k, d>> \in late[p]
    /\ Callback(p, k, d, listener, late[p] \ {<<k, d>>})

-----------------------------------------------------------------------------
(* The global listener asks again before it follows.                       *)
ConfirmRead(p) ==
    /\ confirming[p].phase = "sent"
    /\ confirming' = [confirming EXCEPT ![p] = [phase |-> "read", link |-> linkedCouples[p]]]
    /\ UNCHANGED <<serverVars, statusVars, pollVars, linking, unlinking, timers,
                   requests, countVars>>

Confirmed(p) ==
    /\ confirming[p].phase = "read"
    /\ confirming' = [confirming EXCEPT ![p] = Idle]
    /\ \/ /\ confirming[p].link # NoLink /\ ~ isUserLinked[p]
          /\ SetLinked(p, confirming[p].link, listener, late[p])
          /\ requests' = requests \cup {SyncCoupleUserInfo(p, confirming[p].link)}
       \/ /\ confirming[p].link = NoLink \/ isUserLinked[p]
          /\ UNCHANGED <<statusVars, pollVars, requests>>
    /\ UNCHANGED <<serverVars, linking, unlinking, timers, countVars>>

(* This invitation is skipped.                                             *)
ConfirmFailed(p) ==
    /\ confirming[p] # Idle
    /\ faults < MaxFaults
    /\ faults' = faults + 1
    /\ confirming' = [confirming EXCEPT ![p] = Idle]
    /\ UNCHANGED <<serverVars, statusVars, pollVars, linking, unlinking, timers,
                   requests, links, unlinks, ended>>

-----------------------------------------------------------------------------
(* Timers of CoupleStatusManager and of the launch.                        *)
TimerOff(p, t) == timers' = [timers EXCEPT ![p] = @ \ {t}]

(* 0.4 s after the notification of an unlink, or 2.5 s after the launch.   *)
StartGlobalLinkListener(p, t) ==
    /\ t \in timers[p] \cap {"unlinked", "launched"}
    /\ TimerOff(p, t)
    /\ \/ /\ ~ isUserLinked[p] /\ ~ listener[p]["global"].on
          /\ Relisten(p, listener, late[p], {"global"}, {})
       \/ /\ isUserLinked[p] /\ t = "unlinked"
          /\ Relisten(p, listener, late[p], {}, {"global"})
       \/ /\ IF isUserLinked[p] THEN t = "launched" ELSE listener[p]["global"].on
          /\ SameListeners(p, listener, late[p])
    /\ UNCHANGED <<serverVars, statusVars, wasExisting, confirming, linking,
                   unlinking, requests, countVars>>

(* One second after the manager was created.                               *)
StartCoupleListener(p) ==
    /\ "couple" \in timers[p]
    /\ TimerOff(p, "couple")
    /\ IF isUserLinked[p]
       THEN /\ Relisten(p, listener, late[p], {"couple"}, {})
            /\ wasExisting' = [wasExisting EXCEPT ![p] = FALSE]
       ELSE SameListeners(p, listener, late[p]) /\ UNCHANGED wasExisting
    /\ UNCHANGED <<serverVars, statusVars, confirming, linking, unlinking,
                   requests, countVars>>

(* Twenty seconds after setLinked.                                         *)
Settled(p) ==
    /\ requests = {}
    /\ listener[p]["partner"].on => Watched(p, "partner") \in listener[p]["partner"].seen
    /\ listener[p]["partner"].answer = {} /\ late[p] = {}

GraceOver(p) ==
    /\ graceRunning[p]
    /\ Patient => Settled(p)
    /\ graceRunning' = [graceRunning EXCEPT ![p] = FALSE]
    /\ UNCHANGED <<serverVars, isUserLinked, link, shared, left, pollVars, flowVars,
                   requests, countVars>>

-----------------------------------------------------------------------------
(* Variant: a write that does not merge drops the other fields.            *)
MarkUnmerged(q, b) == users' = [users EXCEPT ![q] = [linked |-> b]]

(* Writes at the server.  An error is logged and the caller goes on as if  *)
(* the write had been done.                                                *)
Mark(q, b) == users' = [users EXCEPT ![q] = [linked |-> b, version |-> @.version + 1]]

Effect(r) ==
    \/ /\ r.op = "mark linked" /\ Mark(r.of, TRUE)
       /\ UNCHANGED <<linkedCouples, couples>>
    \/ /\ r.op = "mark unlinked" /\ Mark(r.of, FALSE)
       /\ UNCHANGED <<linkedCouples, couples>>
    \/ /\ r.op = "profile" /\ Mark(r.by, TRUE)
       /\ UNCHANGED <<linkedCouples, couples>>
    \/ /\ r.op \in {"couple", "delete couple"} /\ couples' = (r.op = "couple")
       /\ UNCHANGED <<linkedCouples, users>>
    \/ /\ r.op = "delete link"
       /\ linkedCouples' = [linkedCouples EXCEPT ![r.of] = NoLink]
       /\ UNCHANGED <<couples, users>>
    \/ /\ r.op = "list"
       /\ UNCHANGED serverVars

(* What the answer sets off: syncCoupleUserInfoAfterLink looks up the      *)
(* partner's invitation and stops if that fails, writes the phone's own    *)
(* profile, then the document of the couple, and listens to the partner at *)
(* last; performUnlink deletes the links it finds in the list.             *)
Follows(r, done) ==
    CASE r.op = "profile" -> {{[r EXCEPT !.op = "couple"]}} \cup (IF done THEN {} ELSE {{}})
      [] r.op = "list" /\ done ->
            {{[r EXCEPT !.op = "delete link", !.of = q] :
                 q \in {c \in Phone : c # r.by /\ linkedCouples[c] # NoLink}}}
      [] OTHER -> {{}}

Answered(r, done) ==
    /\ \E next \in Follows(r, done) :
          /\ requests' = (requests \ {r}) \cup next
          /\ IF r.op \in {"profile", "couple"} /\ next = {} /\ r.group = "rest"
             THEN Relisten(r.by, listener, late[r.by], {"partner"}, {})
             ELSE UNCHANGED <<listener, late>>
    /\ UNCHANGED <<statusVars, wasExisting, flowVars, links, unlinks, ended>>

Served(r) ==
    /\ Effect(r)
    /\ Answered(r, TRUE)
    /\ UNCHANGED faults

Failed(r) ==
    /\ faults < MaxFaults
    /\ faults' = faults + 1
    /\ Answered(r, FALSE)
    /\ UNCHANGED serverVars

(* After 15 s the partner is listened to although the chain goes on.       *)
SyncTimedOut(r) ==
    /\ r.op \in {"profile", "couple"} /\ r.group = "rest"
    /\ faults < MaxFaults
    /\ faults' = faults + 1
    /\ requests' = (requests \ {r}) \cup {[r EXCEPT !.group = "overdue"]}
    /\ Relisten(r.by, listener, late[r.by], {"partner"}, {})
    /\ UNCHANGED <<serverVars, statusVars, wasExisting, flowVars, links, unlinks, ended>>

-----------------------------------------------------------------------------
(* Ending the link (performUnlink): everything is sent at once.  The phone *)
(* whose code names the couple does not know the partner's code and lists  *)
(* the links instead.  None of it names a link: what it ends is the link   *)
(* each phone is in, also when they have noted different ones.             *)
Unlinking(p) == {r \in requests : r.by = p /\ r.group = "unlink"}
LinkDeletes(p) == {r \in requests : r.by = p /\ r.group = "inner"}

PerformUnlink(p) ==
    /\ p \in Unlinkers
    /\ Patient => /\ ~ Busy /\ requests = {}
                  /\ \A q \in Phone : isUserLinked[q] /\ ~ graceRunning[q]
    /\ isUserLinked[p] /\ unlinking[p] = "no"
    /\ unlinks < MaxUnlinks
    /\ unlinks' = unlinks + 1
    /\ ended' = ended \cup ({link[q] : q \in Phone} \ {NoLink})
    /\ unlinking' = [unlinking EXCEPT ![p] = "waiting"]
    /\ requests' = requests \cup
           {Request(p, "mark unlinked", q, "unlink", link[p]) : q \in Phone}
           \cup {Request(p, "delete couple", p, "unlink", link[p]),
                 Request(p, "delete link", p, "inner", link[p]),
                 IF p = CoupleCode
                 THEN Request(p, "list", p, "inner", link[p])
                 ELSE Request(p, "delete link", CoupleCode, "inner", link[p])}
    /\ UNCHANGED <<serverVars, statusVars, pollVars, confirming, linking, timers,
                   links, faults>>

(* The deletion of the links is waited for at most 15 s.                   *)
UnlinkTimedOut(p) ==
    /\ unlinking[p] = "waiting"
    /\ LinkDeletes(p) # {}
    /\ faults < MaxFaults
    /\ faults' = faults + 1
    /\ unlinking' = [unlinking EXCEPT ![p] = "timed out"]
    /\ UNCHANGED <<serverVars, statusVars, pollVars, confirming, linking, timers,
                   requests, links, unlinks, ended>>

(* Variant: the group is not left when the time is up.                     *)
AllAnsweredInTime(p) ==
    Unlinking(p) = {} /\ unlinking[p] = "waiting" /\ LinkDeletes(p) = {}

AllAnswered(p) ==
    /\ Unlinking(p) = {}
    /\ \/ unlinking[p] = "waiting" /\ LinkDeletes(p) = {}
       \/ unlinking[p] = "timed out"

(* Variant: no notification on the phone that ends the link.               *)
UnlinkDoneQuietly(p) ==
    /\ AllAnswered(p)
    /\ unlinking' = [unlinking EXCEPT ![p] = "done"]
    /\ ResetAllStatus(p, listener, late[p])
    /\ shared' = [shared EXCEPT ![p] = FALSE]
    /\ requests' = requests \cup {Request(p, "mark unlinked", p, "rest", link[p])}
    /\ UNCHANGED <<serverVars, confirming, linking, timers, countVars>>

UnlinkDone(p) ==
    /\ AllAnswered(p)
    /\ unlinking' = [unlinking EXCEPT ![p] = "done"]
    /\ ResetAllStatus(p, listener, late[p])
    /\ shared' = [shared EXCEPT ![p] = FALSE]
    /\ timers' = [timers EXCEPT ![p] = @ \cup {"unlinked"}]
    /\ requests' = requests \cup {Request(p, "mark unlinked", p, "rest", link[p])}
    /\ UNCHANGED <<serverVars, confirming, linking, countVars>>

(* 0.3 s later unlinkInitiatedByCurrentUser is cleared.                    *)
UnlinkForgotten(p) ==
    /\ unlinking[p] = "done"
    /\ unlinking' = [unlinking EXCEPT ![p] = "no"]
    /\ UNCHANGED <<serverVars, statusVars, pollVars, confirming, linking, timers,
                   requests, countVars>>

-----------------------------------------------------------------------------
(* The process is killed and started again.  isUserLinked, the coupleId    *)
(* and Core Data survive, linkedSince does not.                            *)
Restart(p) ==
    /\ p \in Restarters
    /\ faults < MaxFaults
    /\ faults' = faults + 1
    /\ graceRunning' = [graceRunning EXCEPT ![p] = FALSE]
    /\ listener' = [listener EXCEPT ![p] = [k \in Kind |->
           IF k = "partner" /\ isUserLinked[p] THEN Fresh ELSE Off]]
    /\ late' = [late EXCEPT ![p] = {}]
    /\ wasExisting' = [wasExisting EXCEPT ![p] = FALSE]
    /\ confirming' = [confirming EXCEPT ![p] = Idle]
    /\ linking' = [linking EXCEPT ![p] = Idle]
    /\ unlinking' = [unlinking EXCEPT ![p] = "no"]
    /\ timers' = [timers EXCEPT ![p] = {"launched", "couple"}]
    /\ requests' = {r \in requests : r.by # p}
    /\ UNCHANGED <<serverVars, isUserLinked, link, shared, left, links, unlinks, ended>>

-----------------------------------------------------------------------------
UserNext(p) ==
    OpenPage(p) \/ ClosePage(p) \/ StartLink(p) \/ PerformUnlink(p)

FaultNext(p) ==
    \/ LinkFailed(p) \/ ConfirmFailed(p) \/ UnlinkTimedOut(p) \/ Restart(p)

CallNext(p) ==
    \/ LinkWritten(p) \/ LinkConfirmed(p)
    \/ ConfirmRead(p) \/ Confirmed(p)
    \/ UnlinkDone(p)

TimerNext(p) ==
    \/ \E t \in timers[p] : StartGlobalLinkListener(p, t)
    \/ StartCoupleListener(p) \/ GraceOver(p) \/ UnlinkForgotten(p)

PollNext(p) ==
    \/ \E k \in Kind : Poll(p, k) \/ Answer(p, k) \/ PollAnswered(p, k)
    \/ \E l \in late[p] : LateAnswer(p, l[1], l[2])

(* What happens without a user and without a failure.                      *)
Due ==
    \/ \E r \in requests : Served(r)
    \/ \E p \in Phone : CallNext(p) \/ TimerNext(p) \/ PollNext(p)

Next ==
    \/ Due
    \/ \E r \in requests : Failed(r) \/ SyncTimedOut(r)
    \/ \E p \in Phone : UserNext(p) \/ FaultNext(p)

Spec == Init /\ [][Next]_vars

(* Calls are answered, polls are made and timers fire, in whatever order:  *)
(* there is no cycle of such steps, so it is enough that they do not stop. *)
Fairness == WF_vars(Due)

FairSpec == Spec /\ Fairness

-----------------------------------------------------------------------------
(* The listener for incoming links and the listener for the end of a link  *)
(* exclude each other: whatever timers, late answers and both flows do, no *)
(* linked phone follows a further invitation of its own accord.            *)
ListenersMatchStatus ==
    \A p \in Phone :
        /\ listener[p]["global"].on => ~ isUserLinked[p]
        /\ listener[p]["couple"].on => isUserLinked[p]

(* And one of the two is always there or about to be started: no phone     *)
(* goes deaf to its partner.                                               *)
SomebodyListens ==
    \A p \in Phone :
        IF isUserLinked[p]
        THEN listener[p]["couple"].on \/ "couple" \in timers[p]
        ELSE listener[p]["global"].on \/ timers[p] \cap {"unlinked", "launched"} # {}

(* With patient users, a link that nobody has begun to end is not lost:    *)
(* neither flag or document left by the link before, nor an answer that    *)
(* was late, takes it from a phone.                                        *)
LinkStays ==
    [][Patient =>
         \A p \in Phone : isUserLinked[p] /\ link[p] \notin ended => isUserLinked'[p]]_vars

(* An invitation reaches the phone it names, as long as nobody ends a link *)
(* and no call fails.                                                      *)
LinkArrives ==
    \A p \in Linkers :
        linkedCouples[Other(p)] # NoLink
            ~> isUserLinked[Other(p)] \/ ended # {} \/ faults > 0

(* When a user ends a link and no call fails, the partner hears of it in   *)
(* one of the two ways and gets out of the link.  One thing hides the end  *)
(* from the partner: a phone that was out of the link slips back into it.  *)
SlippedBack(n) == \E q \in Phone : link[q] = n /\ n \in left[q]

UnlinkNoticed ==
    \A p \in Phone, n \in Link :
        <>[](n \in ended /\ link[p] = n)
            => <>(SlippedBack(n) \/ faults > 0)

(* The page does not wait for ever: the group of performUnlink is left     *)
(* once for each call, whatever becomes of the call.                       *)
UnlinkFinishes == \A p \in Unlinkers : unlinking[p] # "no" ~> unlinking[p] = "no"

(* performUnlink waits for the deletion of the phone's own link before it  *)
(* resets the status, since "otherwise the document still exists when the  *)
(* global listener starts, and is taken for an invitation: it links again  *)
(* by itself": the phone that ends a link does not return to it.           *)
StaysUnlinked ==
    [][\A p \in Unlinkers :
         ~ isUserLinked[p] /\ isUserLinked'[p] => link'[p] \notin ended]_vars
===============================================================================
