------------------------------- MODULE Follower -------------------------------
(***************************************************************************)
(* What a listener of the compatibility layer promises a phone that only   *)
(* follows: its list is copied, item by item, from the last answer; every  *)
(* answer is the collection of one moment, a later moment than the one     *)
(* before; and no answer is passed over: the next one is taken up only     *)
(* when the list holds all of the last.                                    *)
(*                                                                         *)
(* TaskSync is shown to implement this for each phone on which nobody      *)
(* edits: marks, flags, timers and the two steps of a background save      *)
(* disappear.                                                              *)
(***************************************************************************)
CONSTANTS
    Item,         \* ids
    Blank         \* content of an id that is not in the collection

VARIABLES
    cloud,        \* [Item -> content]: the collection
    answer,       \* the collection as the poll under way, if any, found it
    seen,         \* the last answer
    copy          \* the list of the phone

vars == <<cloud, answer, seen, copy>>

Nothing == [i \in Item |-> Blank]

Init == cloud = Nothing /\ answer = {} /\ seen = Nothing /\ copy = Nothing

(* Somebody writes.                                                        *)
Change(i) ==
    /\ cloud' = [cloud EXCEPT ![i] = cloud'[i]]
    /\ UNCHANGED <<answer, seen, copy>>

Ask ==
    /\ answer = {}
    /\ answer' = {cloud}
    /\ UNCHANGED <<cloud, seen, copy>>

Fail ==
    /\ answer' = {}
    /\ UNCHANGED <<cloud, seen, copy>>

Learn ==
    /\ copy = seen
    /\ seen' \in answer
    /\ answer' = {}
    /\ UNCHANGED <<cloud, copy>>

Copy(i) ==
    /\ copy' = [copy EXCEPT ![i] = seen[i]]
    /\ UNCHANGED <<cloud, answer, seen>>

Next ==
    \/ Ask \/ Fail \/ Learn
    \/ \E i \in Item : Change(i) \/ Copy(i)

Spec == Init /\ [][Next]_vars
===============================================================================
