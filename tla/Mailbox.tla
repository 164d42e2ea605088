------------------------------- MODULE Mailbox -------------------------------
(***************************************************************************)
(* What MessageQueueClient promises to whoever hands it a task through     *)
(* PostTask (src/src/utils/AmqpUtil.cpp, "PostTask" and                    *)
(* "OnAsyncNotificationTriggered"): one unbounded FIFO box shared by every *)
(* thread.  A task is put in the box once, taken out by the network thread *)
(* once, and tasks run in the order in which they were put in.  Nothing is *)
(* promised about tasks that are still in the box.                         *)
(***************************************************************************)
EXTENDS Sequences, SequencesExt

CONSTANT Tasks

VARIABLES box,   \* the tasks that were accepted and did not run yet, oldest first
          ran    \* the tasks that ran, in the order in which they did

vars == <<box, ran>>

TypeOK ==
    /\ box \in Seq(Tasks)
    /\ ran \in Seq(Tasks)

Init ==
    /\ box = <<>>
    /\ ran = <<>>

Put(t) ==
    /\ t \notin ToSet(box) \cup ToSet(ran)
    /\ box' = Append(box, t)
    /\ UNCHANGED ran

Run ==
    /\ box # <<>>
    /\ ran' = Append(ran, Head(box))
    /\ box' = Tail(box)

Next == (\E t \in Tasks : Put(t)) \/ Run

Spec == Init /\ [][Next]_vars
=============================================================================
