------------------------------ MODULE UipSplit ------------------------------
(***************************************************************************)
(* How a TCP segment leaves: uip.c numbers and checks it, and              *)
(* uip_split_output (src/src/uip/uipsplit.c) cuts a segment of the full    *)
(* size in two, so that a receiver that delays acknowledgements of single  *)
(* segments answers at once.  The firmware compiles uipsplit.c and sends   *)
(* without it.  The n-th byte of the stream has the value n modulo Radix.  *)
(***************************************************************************)
EXTENDS UipArith

CONSTANTS
    MaxSegment, \* UIP_BUFSIZE - UIP_LLH_LEN - UIP_TCPIP_HLEN
    Lengths     \* lengths of the segments TCP sends

ASSUME SplitAssumption ==
    /\ MaxSegment \in Nat \ {0} /\ MaxSegment < WordMod
    /\ Lengths \subseteq 1 .. MaxSegment

VARIABLES
    sndNxt,     \* uip_conn->snd_nxt, four bytes
    wire,       \* the segments the last call put out
    position    \* observer: the number of the next byte, from the initial one

splitVars == <<sndNxt, wire, position>>

SplitInit ==
    /\ sndNxt \in [1 .. 4 -> Digit]
    /\ wire = <<>>
    /\ position = Value(sndNxt)

\* The sequence number and the bytes stand for all that the checksum covers.
Segmented(seqno, data) ==
    [seqno |-> seqno, data |-> data, chksum |-> ChksumField(Len(data), seqno \o data)]

\* uip_split_output, of a segment of the full size
Split(seqno, data) ==
    LET len1 == Len(data) \div 2
    IN <<Segmented(seqno, SubSeq(data, 1, len1)),
         Segmented(Add32(seqno, len1), SubSeq(data, len1 + 1, Len(data)))>>

\* A segment, and its acknowledgement, which adds its length to snd_nxt.
SplitOutput ==
    \E n \in Lengths :
        LET data == [i \in 1 .. n |-> (position + i) % Radix]
        IN /\ wire' = IF n = MaxSegment THEN Split(sndNxt, data) ELSE <<Segmented(sndNxt, data)>>
           /\ sndNxt' = Add32(sndNxt, n)
           /\ position' = (position + n) % (Radix ^ 4)

SplitSpec == SplitInit /\ [][SplitOutput]_splitVars

-----------------------------------------------------------------------------
(* Properties *)

\* The receiver's sum over each segment is the ones' complement zero.
SegmentVerifies(s) ==
    SumsToZero(WordBytes(s.chksum) \o WordBytes(Len(s.data)) \o s.seqno \o s.data)

\* What goes out in one call or two is the stream: each segment begins where
\* the one before ends, and the last ends where snd_nxt stands, through every
\* carry and wrap of the four bytes; and each passes the receiver's checksum,
\* whether its length is odd or even.
SegmentsAdjoin ==
    [][position' /= position =>
        LET starts == [k \in DOMAIN wire' |-> Value(wire'[k].seqno)]
            ends == [k \in DOMAIN wire' |-> (starts[k] + Len(wire'[k].data)) % Radix ^ 4]
        IN /\ starts[1] = position
           /\ ends[Len(wire')] = position' /\ Value(sndNxt') = position'
           /\ \A k \in 1 .. Len(wire') - 1 : starts[k + 1] = ends[k]
           /\ \A k \in DOMAIN wire' :
                /\ SegmentVerifies(wire'[k])
                /\ \A i \in DOMAIN wire'[k].data : wire'[k].data[i] = (starts[k] + i) % Radix]_splitVars

=============================================================================
