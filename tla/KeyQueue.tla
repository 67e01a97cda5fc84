------------------------------ MODULE KeyQueue ------------------------------
(***************************************************************************)
(* What the keyboard buffer promises its readers: keys come out in the     *)
(* order they were typed, each once.  A key typed while the buffer is full *)
(* empties it: that key and all the waiting ones are lost.                 *)
(***************************************************************************)
EXTENDS Naturals, Sequences

CONSTANTS Words,     \* keys
          Capacity   \* keys that can wait

VARIABLES typed,     \* the key last typed
          queue,     \* keys waiting, oldest first
          key        \* the key last handed out

Init == queue = <<>> /\ typed \in Words /\ key \in Words

Put(w) ==
    /\ typed' = w
    /\ queue' = IF Len(queue) = Capacity THEN <<>> ELSE Append(queue, w)
    /\ UNCHANGED key

Get ==
    /\ queue # <<>>
    /\ key' = Head(queue)
    /\ queue' = Tail(queue)
    /\ UNCHANGED typed

Next == Get \/ \E w \in Words : Put(w)

Spec == Init /\ [][Next]_<<typed, queue, key>>
=============================================================================
