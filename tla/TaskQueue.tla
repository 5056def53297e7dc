----------------------------- MODULE TaskQueue ------------------------------
(***************************************************************************)
(* What a thread pool promises its owner, without mutex, condition         *)
(* variable and wakeups: accepted tasks are started in the order of their  *)
(* acceptance, each in one free slot and once; closing the queue loses     *)
(* none of them; and a task does not wait while a slot stays free.         *)
(***************************************************************************)
EXTENDS Naturals, Sequences

CONSTANTS
    Slot,      \* as many tasks run at the same time as there are slots
    MaxTasks   \* bound: tasks accepted

(***************************************************************************)
(*   accepted  number of tasks accepted; they are named 1, 2, ...          *)
(*   queue     tasks that are not yet started                              *)
(*   slot      the task that runs in each slot, 0 for none                 *)
(*   ended     tasks that have run to their end                            *)
(*   phase     "open", "closing" (takes no more tasks), "destroyed"        *)
(***************************************************************************)
VARIABLES accepted, queue, slot, ended, phase

vars == <<accepted, queue, slot, ended, phase>>

Init ==
    /\ accepted = 0
    /\ queue = << >>
    /\ slot = [s \in Slot |-> 0]
    /\ ended = {}
    /\ phase = "open"

Put ==
    /\ phase = "open"
    /\ accepted < MaxTasks
    /\ accepted' = accepted + 1
    /\ queue' = Append(queue, accepted + 1)
    /\ UNCHANGED <<slot, ended, phase>>

Start(s) ==
    /\ queue # << >>
    /\ slot[s] = 0
    /\ slot' = [slot EXCEPT ![s] = Head(queue)]
    /\ queue' = Tail(queue)
    /\ UNCHANGED <<accepted, ended, phase>>

End(s) ==
    /\ slot[s] # 0
    /\ slot' = [slot EXCEPT ![s] = 0]
    /\ ended' = ended \cup {slot[s]}
    /\ UNCHANGED <<accepted, queue, phase>>

Close ==
    /\ phase = "open"
    /\ phase' = "closing"
    /\ UNCHANGED <<accepted, queue, slot, ended>>

Destroy ==
    /\ phase = "closing"
    /\ queue = << >>
    /\ \A s \in Slot : slot[s] = 0
    /\ phase' = "destroyed"
    /\ UNCHANGED <<accepted, queue, slot, ended>>

Next ==
    \/ Put
    \/ \E s \in Slot : Start(s) \/ End(s)
    \/ Close
    \/ Destroy

Spec == Init /\ [][Next]_vars

(* Nothing is promised about when a task ends. *)
FairSpec == Spec /\ WF_vars(\E s \in Slot : Start(s))

=============================================================================
