------------------------------ MODULE ActionFifo ------------------------------
(***************************************************************************)
(* What readme.txt promises of init's action queue: an action is "added to *)
(* the tail of a to-be-executed queue (unless it is already on the         *)
(* queue)", and each action in the queue "is dequeued in sequence".        *)
(***************************************************************************)
EXTENDS Naturals, Sequences

CONSTANTS Actions, NoAction

VARIABLES queue, current

avars == <<queue, current>>

(* q2 is q with some actions that were not on it added at the tail.        *)
Extended(q, q2) ==
    /\ Len(q2) >= Len(q)
    /\ SubSeq(q2, 1, Len(q)) = q
    /\ \A i, j \in 1 .. Len(q2) : q2[i] = q2[j] => i = j

AInit ==
    /\ Extended(<<>>, queue)
    /\ current = NoAction

(* Events queue actions while the current action goes on.                  *)
Enqueue == current' = current /\ Extended(queue, queue')

(* The action at the head becomes the current one; its first command may   *)
(* be an event itself.                                                     *)
Dequeue ==
    /\ queue # <<>>
    /\ current' = queue[1]
    /\ Extended(Tail(queue), queue')

Idle == queue = <<>> /\ current' = NoAction /\ queue' = queue

ANext == Enqueue \/ Dequeue \/ Idle

ASpec == AInit /\ [][ANext]_avars
=============================================================================
