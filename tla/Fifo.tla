-------------------------------- MODULE Fifo --------------------------------
(***************************************************************************)
(* What a umqtt_circ_buffer promises its callers: a bounded queue.  A push *)
(* call appends bytes in order until all are in or the queue is full and   *)
(* returns how many were left out; a pop call hands out the oldest bytes   *)
(* until it has as many as asked for or the queue is empty.                *)
(***************************************************************************)
EXTENDS Integers, Sequences

CONSTANTS Byte, Size, Inputs, Wants

VARIABLES
    queue,   \* the bytes held, oldest first
    call,    \* the call in progress
    todo,    \* bytes a push call has still to append
    want,    \* how many bytes a pop call was asked for
    got,     \* bytes the last pop call has handed out
    left     \* what the last push call returned

vars == <<queue, call, todo, want, got, left>>

Init ==
    /\ queue = <<>>
    /\ call = "idle"
    /\ todo = <<>> /\ want = 0 /\ got = <<>> /\ left = 0

PushCall ==
    /\ call = "idle"
    /\ call' = "push"
    /\ todo' \in Inputs
    /\ UNCHANGED <<queue, want, got, left>>

PushByte ==
    /\ call = "push" /\ todo # <<>>
    /\ Len(queue) < Size
    /\ queue' = Append(queue, Head(todo))
    /\ todo' = Tail(todo)
    /\ UNCHANGED <<call, want, got, left>>

PushReturn ==
    /\ call = "push"
    /\ todo = <<>> \/ Len(queue) = Size
    /\ call' = "idle"
    /\ left' = Len(todo)
    /\ todo' = <<>>
    /\ UNCHANGED <<queue, want, got>>

PopCall ==
    /\ call = "idle"
    /\ call' = "pop"
    /\ want' \in Wants
    /\ got' = <<>>
    /\ UNCHANGED <<queue, todo, left>>

PopByte ==
    /\ call = "pop"
    /\ Len(got) < want
    /\ queue # <<>>
    /\ got' = Append(got, Head(queue))
    /\ queue' = Tail(queue)
    /\ UNCHANGED <<call, todo, want, left>>

PopReturn ==
    /\ call = "pop"
    /\ Len(got) >= want \/ queue = <<>>
    /\ call' = "idle"
    /\ UNCHANGED <<queue, todo, want, got, left>>

Next == PushCall \/ PushByte \/ PushReturn \/ PopCall \/ PopByte \/ PopReturn

Spec == Init /\ [][Next]_vars

=============================================================================
