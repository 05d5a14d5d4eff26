------------------------------- MODULE DeadLetters -------------------------------
(***************************************************************************)
(* One queue of the dead letter manager (internal/dlq/dlq.go) as a         *)
(* sequence of message ids: each operation is one critical section of the  *)
(* queue's mutex.                                                          *)
(***************************************************************************)
EXTENDS Integers, Sequences, SequencesExt

CONSTANT MaxLetters    \* maxSize of a queue, 1000 in the code

ASSUME MaxLettersAssumption == MaxLetters \in Nat \ {0}

(* A mutant of AddMessage: a full queue loses its newest message.           *)
AddOverNewest(queue, id) ==
    Append(IF Len(queue) >= MaxLetters THEN Front(queue) ELSE queue, id)

(* A full queue loses its oldest message.                                   *)
AddMessage(queue, id) ==
    Append(IF Len(queue) >= MaxLetters THEN Tail(queue) ELSE queue, id)

HasMessage(queue, id) == \E i \in DOMAIN queue : queue[i] = id

(* Only the first message with the id is taken out; none is an error.       *)
DeleteMessage(queue, id) ==
    IF HasMessage(queue, id) THEN RemoveFirst(queue, id) ELSE queue

ClearMessages(queue) == <<>>
================================================================================
