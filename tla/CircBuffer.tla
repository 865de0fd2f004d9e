----------------------------- MODULE CircBuffer -----------------------------
(***************************************************************************)
(* The ring buffer of src/src/umqtt/umqtt.c: one action per iteration of   *)
(* the loops of umqtt_circ_push and umqtt_circ_pop.  Addresses are offsets *)
(* from buff->start.  The firmware calls it from one thread only, so calls *)
(* do not overlap.                                                         *)
(***************************************************************************)
EXTENDS Integers, Sequences

CONSTANTS
    Byte,     \* values of a byte
    Size,     \* buff->length
    Inputs,   \* what callers push
    Wants     \* how many bytes callers ask for

ASSUME SizeAssumption == Size \in Nat \ {0}
ASSUME CallsAssumption == Inputs \subseteq Seq(Byte) /\ Wants \subseteq Nat

VARIABLES
    mem,       \* the array at buff->start
    pointer,   \* buff->pointer: offset of the oldest byte
    datalen,   \* buff->datalen
    call,      \* the call in progress
    dend,      \* local of umqtt_circ_push: where the next byte goes
    todo,      \* bytes a push call has still to append
    want,      \* len argument of a pop call
    got,       \* data argument of the last pop call, filled so far
    left       \* what the last push call returned

vars == <<mem, pointer, datalen, call, dend, todo, want, got, left>>

Offsets == 0 .. Size - 1

\* The memory is whatever it was before umqtt_circ_init.
Init ==
    /\ mem \in [Offsets -> Byte]
    /\ pointer = 0
    /\ datalen = 0
    /\ call = "idle"
    /\ dend = 0 /\ todo = <<>> /\ want = 0 /\ got = <<>> /\ left = 0

\* An offset one past the end of the array is the start of the array.
Wrap(offset) == IF offset > Size - 1 THEN 0 ELSE offset

PushCall ==
    /\ call = "idle"
    /\ call' = "push"
    /\ todo' \in Inputs
    /\ dend' = (pointer + datalen) % Size
    /\ UNCHANGED <<mem, pointer, datalen, want, got, left>>

\* Seeded bug: the end of the array is not taken into account.
BufferFullUnwrapped == datalen # 0 /\ dend = pointer

BufferFull == datalen # 0 /\ Wrap(dend) = pointer

PushByte ==
    /\ call = "push" /\ todo # <<>>
    /\ ~BufferFull
    /\ mem' = [mem EXCEPT ![Wrap(dend)] = Head(todo)]
    /\ dend' = Wrap(dend) + 1
    /\ todo' = Tail(todo)
    /\ datalen' = datalen + 1
    /\ UNCHANGED <<pointer, call, want, got, left>>

PushReturn ==
    /\ call = "push"
    /\ todo = <<>> \/ BufferFull
    /\ call' = "idle"
    /\ left' = Len(todo)
    /\ todo' = <<>>
    /\ UNCHANGED <<mem, pointer, datalen, dend, want, got>>

PopCall ==
    /\ call = "idle"
    /\ call' = "pop"
    /\ want' \in Wants
    /\ got' = <<>>
    /\ UNCHANGED <<mem, pointer, datalen, dend, todo, left>>

PopByte ==
    /\ call = "pop"
    /\ Len(got) < want
    /\ datalen > 0
    /\ got' = Append(got, mem[pointer])
    /\ pointer' = Wrap(pointer + 1)
    /\ datalen' = datalen - 1
    /\ UNCHANGED <<mem, call, dend, todo, want, left>>

PopReturn ==
    /\ call = "pop"
    /\ Len(got) >= want \/ datalen = 0
    /\ call' = "idle"
    /\ UNCHANGED <<mem, pointer, datalen, dend, todo, want, got, left>>

Next == PushCall \/ PushByte \/ PushReturn \/ PopCall \/ PopByte \/ PopReturn

Spec == Init /\ [][Next]_vars

-----------------------------------------------------------------------------
(* Properties *)

\* Offset of the i-th byte held, counting from 0 at the oldest.
Slot(i) == IF pointer + i < Size THEN pointer + i ELSE pointer + i - Size

\* The bytes held, oldest first: the queue that the buffer stands for.
Contents == [i \in 1 .. datalen |-> mem[Slot(i - 1)]]

(* pointer stays inside the array and datalen within its length; while a     *)
(* push runs, dend is the first free offset, or one past the end when that   *)
(* is the first offset of the array.                                         *)
CircInv ==
    /\ mem \in [Offsets -> Byte]
    /\ pointer \in Offsets
    /\ datalen \in 0 .. Size
    /\ call \in {"idle", "push", "pop"}
    /\ todo \in Seq(Byte)
    /\ want \in Nat
    /\ got \in Seq(Byte)
    /\ left \in Nat
    /\ dend \in 0 .. Size
    /\ call = "push" => Wrap(dend) = Slot(datalen)

(* The ring buffer implements the bounded queue: bytes come out once each,   *)
(* in the order they went in, nothing is overwritten when it is full, and    *)
(* the counts returned are right, for every wrap of the two offsets.         *)
Queue == INSTANCE Fifo WITH queue <- Contents
ImplementsFifo == Queue!Spec

=============================================================================
