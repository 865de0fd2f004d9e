---------------------------- MODULE DeviceProofs ----------------------------
(***************************************************************************)
(* The timer on the clock, for every word size and every set of intervals, *)
(* and the Ethernet driver, for every ring, every set of frames and every  *)
(* arrival between two of its transactions.                                *)
(***************************************************************************)
EXTENDS Clock, Enc28j60, FiniteSetTheorems, SequenceTheorems, TLAPS

-----------------------------------------------------------------------------
(* The timer                                                                 *)

(* One turn is enough to bring the word back into its range.                 *)
LEMMA ModNext ==
    ASSUME NEW N \in Nat \ {0}, NEW t \in 0 .. N - 1
    PROVE  (t + 1) % N = IF t = N - 1 THEN 0 ELSE t + 1
  OBVIOUS

LEMMA ModSum ==
    ASSUME NEW N \in Nat \ {0}, NEW a \in 0 .. N - 1, NEW b \in 0 .. N - 1
    PROVE  (a + b) % N = IF a + b < N THEN a + b ELSE a + b - N
  OBVIOUS

LEMMA ModDiff ==
    ASSUME NEW N \in Nat \ {0}, NEW a \in 0 .. N - 1, NEW b \in 0 .. N - 1
    PROVE  (a - b) % N = IF a >= b THEN a - b ELSE a - b + N
  OBVIOUS

(* Half a turn and the two ticks of a call stay below a turn.                *)
LEMMA HalfTurn ==
    ASSUME NEW N \in Nat, N > 4
    PROVE  N \div 2 \in Nat /\ N \div 2 + 2 < N
  OBVIOUS

TickInv == time \in 0 .. ClockMod - 1

\* A call takes at most one tick, and the moment the timer counts from was
\* before that tick.
CallInv ==
    /\ calling = "none" => during = {}
    /\ calling /= "none" =>
         \/ during = {time}
         \/ \E p \in 0 .. ClockMod - 1 :
              during = {p, time} /\ time = (p + 1) % ClockMod /\ since > 0

\* The start that the code keeps and the time the observer counts agree.
StartInv ==
    /\ interval \in 0 .. ClockMod \div 2
    /\ since \in 0 .. ClockMod \div 2 + 2
    /\ clean => /\ start \in 0 .. ClockMod - 1
                /\ start + since \in {time, time + ClockMod}

ClockInv == TickInv /\ CallInv /\ StartInv /\ TestsRight

LEMMA InitInv == ClockInit => ClockInv
<1> USE ClockAssumption
<1> DEFINE N == ClockMod
<1>1. N \in Nat /\ N > 4 /\ N \div 2 \in Nat
  BY HalfTurn
<1> HIDE DEF N
<1>2. ASSUME ClockInit PROVE TickInv /\ CallInv /\ TestsRight
  BY <1>1, <1>2 DEF ClockInit, TickInv, CallInv, TestsRight, Right, N
<1>3. ASSUME ClockInit PROVE StartInv
  BY <1>1, <1>3 DEF ClockInit, StartInv, N
<1> QED
  BY <1>2, <1>3 DEF ClockInv

(* A tick of the interrupt, between two calls or inside one.                 *)
LEMMA TickStep ==
    ASSUME ClockInv, ClockTick
    PROVE  ClockInv'
<1> USE ClockAssumption
<1> DEFINE N == ClockMod
<1>1. N \in Nat /\ N > 4 /\ N \div 2 \in Nat
  BY HalfTurn
<1> HIDE DEF N
<1>2. time \in 0 .. N - 1 /\ time' = (time + 1) % N
  BY DEF ClockInv, TickInv, ClockTick, N
<1>3. time' = IF time = N - 1 THEN 0 ELSE time + 1
  BY <1>1, <1>2, ModNext
<1>4. TickInv'
  BY <1>1, <1>2, <1>3 DEF TickInv, N
<1>5. CallInv'
  <2>1. CASE calling = "none"
    BY <2>1 DEF ClockTick, CallInv
  <2>2. CASE calling /= "none"
    <3>1. during = {time}
      <4>1. ASSUME NEW p \in 0 .. N - 1, during = {p, time}, time = (p + 1) % N
            PROVE  FALSE
        <5>1. p /= time
          BY <1>1, <4>1, ModNext
        <5>2. Cardinality({time}) = 1 /\ IsFiniteSet({time})
          BY FS_Singleton
        <5>3. Cardinality({time} \cup {p}) = 2
          <6> DEFINE S == {time}
          <6>1. p \notin S /\ IsFiniteSet(S) /\ Cardinality(S) = 1
            BY <5>1, <5>2
          <6> HIDE DEF S
          <6>2. Cardinality(S \cup {p}) = Cardinality(S) + 1
            BY <6>1, FS_AddElement
          <6> QED
            BY <6>1, <6>2 DEF S
        <5>4. during = {time} \cup {p}
          BY <4>1
        <5>5. Cardinality(during) < 2
          BY DEF ClockTick
        <5> QED
          BY <5>3, <5>4, <5>5
      <4> QED
        BY <2>2, <4>1 DEF ClockInv, CallInv, N
    <3>2. during' = {time, time'}
      BY <2>2, <3>1 DEF ClockTick
    <3>3. since' > 0
      BY <1>1 DEF ClockInv, StartInv, ClockTick, N
    <3>4. calling' /= "none"
      BY <2>2 DEF ClockTick
    <3>5. time \in 0 .. ClockMod - 1 /\ time' = (time + 1) % ClockMod
      BY <1>2 DEF N
    <3> QED
      BY <3>2, <3>3, <3>4, <3>5 DEF CallInv
  <2> QED
    BY <2>1, <2>2
<1>6. StartInv'
  <2>1. StartInv /\ since < N \div 2 + 2 /\ since' = since + 1
          /\ UNCHANGED <<start, interval, clean>>
    BY DEF ClockInv, ClockTick, N
  <2>2. since' \in 0 .. N \div 2 + 2
    BY <1>1, <2>1 DEF StartInv, N
  <2>3. clean => start + since' \in {time', time' + N}
    <3>1. ASSUME clean
          PROVE  start \in 0 .. N - 1 /\ start + since \in {time, time + N}
      BY <2>1, <3>1 DEF StartInv, N
    <3>2. since \in 0 .. N \div 2 + 2 /\ N \div 2 + 2 < N
      BY <1>1, <2>1, HalfTurn DEF StartInv, N
    <3> QED
      BY <1>1, <1>2, <1>3, <2>1, <3>1, <3>2
  <2> QED
    BY <2>1, <2>2, <2>3 DEF StartInv, N
<1>7. TestsRight'
  BY DEF ClockInv, TestsRight, ClockTick
<1> QED
  BY <1>4, <1>5, <1>6, <1>7 DEF ClockInv

(* A whole read is at most one tick old.                                     *)
LEMMA ReadAge ==
    ASSUME ClockInv, calling /= "none", WholeRead
    PROVE  /\ seen \in 0 .. ClockMod - 1
           /\ Ago \in {0, 1} /\ Ago <= since
           /\ seen + Ago \in {time, time + ClockMod}
<1> USE ClockAssumption
<1> DEFINE N == ClockMod
<1>1. N \in Nat /\ N > 4 /\ N \div 2 \in Nat
  BY HalfTurn
<1> HIDE DEF N
<1>2. time \in 0 .. N - 1 /\ since \in 0 .. N \div 2 + 2
  BY DEF ClockInv, TickInv, StartInv, N
<1>3. Ago = (time - seen) % N
  BY DEF Ago, N
<1>4. CASE seen = time
  <2>1. Ago = 0
    BY <1>1, <1>2, <1>3, <1>4, ModDiff
  <2> QED
    BY <1>1, <1>2, <1>4, <2>1 DEF N
<1>5. CASE seen /= time
  <2>1. PICK p \in 0 .. N - 1 : during = {p, time} /\ time = (p + 1) % N /\ since > 0
    BY <1>5 DEF ClockInv, CallInv, WholeRead, N
  <2>2. seen = p
    BY <1>5, <2>1 DEF WholeRead
  <2>3. time = IF p = N - 1 THEN 0 ELSE p + 1
    <3>1. (p + 1) % N = IF p = N - 1 THEN 0 ELSE p + 1
      BY <1>1, ModNext
    <3> QED
      BY <2>1, <3>1
  <2>4. Ago = 1
    BY <1>1, <1>2, <1>3, <2>1, <2>2, <2>3, ModDiff
  <2> QED
    BY <1>1, <1>2, <2>1, <2>2, <2>3, <2>4 DEF N
<1> QED
  BY <1>4, <1>5

(* The unsigned difference is the time that has passed.                      *)
LEMMA Elapsed ==
    ASSUME ClockInv, calling /= "none", WholeRead, clean
    PROVE  (seen - start) % ClockMod = since - Ago
<1> USE ClockAssumption
<1> DEFINE N == ClockMod
<1>1. N \in Nat /\ N > 4 /\ N \div 2 \in Nat /\ N \div 2 + 2 < N
  BY HalfTurn
<1> HIDE DEF N
<1>2. /\ time \in 0 .. N - 1 /\ since \in 0 .. N \div 2 + 2
      /\ start \in 0 .. N - 1 /\ start + since \in {time, time + N}
  BY DEF ClockInv, TickInv, StartInv, N
<1>3. /\ seen \in 0 .. N - 1 /\ Ago \in {0, 1} /\ Ago <= since
      /\ seen + Ago \in {time, time + N}
  BY ReadAge DEF N
<1> DEFINE a == Ago
<1> HIDE DEF a
<1>4. a \in {0, 1} /\ a <= since /\ seen + a \in {time, time + N}
  BY <1>3 DEF a
<1>5. seen - start \in {since - a, since - a - N}
  BY <1>1, <1>2, <1>3, <1>4
<1>6. since - a >= 0 /\ since - a < N
  BY <1>1, <1>2, <1>4
<1>7. (seen - start) % N = since - a
  BY <1>1, <1>2, <1>3, <1>4, <1>5, <1>6, ModDiff
<1> QED
  BY <1>7 DEF a, N

(* timer_set and timer_restart.                                              *)
LEMMA StartedStep ==
    ASSUME ClockInv, calling /= "none", Started, UNCHANGED <<time, interval>>
    PROVE  ClockInv'
<1> USE ClockAssumption
<1> DEFINE N == ClockMod
<1>1. N \in Nat /\ N > 4 /\ N \div 2 \in Nat
  BY HalfTurn
<1> HIDE DEF N
<1>2. TickInv' /\ CallInv' /\ TestsRight'
  BY DEF ClockInv, TickInv, CallInv, TestsRight, Started
<1>3. StartInv'
  <2>1. interval' \in 0 .. N \div 2
    BY DEF ClockInv, StartInv, N
  <2>2. CASE WholeRead
    <3>1. /\ seen \in 0 .. N - 1 /\ Ago \in {0, 1}
          /\ seen + Ago \in {time, time + N}
      BY <2>2, ReadAge DEF N
    <3>2. start' = seen /\ since' = Ago /\ time' = time
      BY <2>2 DEF Started
    <3>3. since' \in 0 .. N \div 2 + 2
      BY <1>1, <3>1, <3>2
    <3> QED
      BY <2>1, <3>1, <3>2, <3>3 DEF StartInv, N
  <2>3. CASE ~WholeRead
    <3>1. ~clean' /\ since' = 0
      BY <2>3 DEF Started
    <3> QED
      BY <1>1, <2>1, <3>1 DEF StartInv, N
  <2> QED
    BY <2>2, <2>3
<1> QED
  BY <1>2, <1>3 DEF ClockInv

(* timer_expired, timer_tryrestart and timer_tryreset.                       *)
LEMMA TestedStep ==
    ASSUME ClockInv, calling /= "none", Tested, UNCHANGED <<time, interval>>
    PROVE  ClockInv'
<1> USE ClockAssumption
<1> DEFINE N == ClockMod
<1>1. N \in Nat /\ N > 4 /\ N \div 2 \in Nat
  BY HalfTurn
<1> HIDE DEF N
<1>2. TickInv'
  BY DEF ClockInv, TickInv
<1>3. CallInv'
  BY DEF ClockInv, CallInv, Tested, Begin
<1>4. TestsRight'
  <2>1. ASSUME answer'.clean PROVE ~answer'.early /\ ~answer'.late
    <3>1. clean /\ WholeRead
      BY <2>1 DEF Tested
    <3>2. TimerExpired(seen) <=> since - Ago >= interval
      BY <3>1, Elapsed DEF TimerExpired
    <3>3. /\ answer'.early <=> (TimerExpired(seen) /\ since - Ago < interval)
          /\ answer'.late <=> (~TimerExpired(seen) /\ since - Ago >= interval)
      BY DEF Tested
    <3>4. since - Ago \in Int /\ interval \in Int
      BY <1>1, <3>1, ReadAge DEF ClockInv, StartInv, N
    <3> QED
      BY <3>2, <3>3, <3>4
  <2> QED
    BY <2>1 DEF TestsRight
<1>5. StartInv'
  <2>1. CASE UNCHANGED <<start, since, clean>>
    BY <2>1 DEF ClockInv, StartInv
  <2>2. CASE TimerExpired(seen) /\ calling = "tryreset"
    <3>1. /\ start' = (start + interval) % N
          /\ clean' = (clean /\ WholeRead)
          /\ since' = IF clean' THEN since - interval ELSE 0
      BY <2>2 DEF Tested, N
    <3>2. CASE clean /\ WholeRead
      <4>1. /\ time \in 0 .. N - 1 /\ since \in 0 .. N \div 2 + 2
            /\ start \in 0 .. N - 1 /\ start + since \in {time, time + N}
            /\ interval \in 0 .. N \div 2
        BY <3>2 DEF ClockInv, TickInv, StartInv, N
      <4>2. since >= interval
        <5>1. since - Ago >= interval
          BY <2>2, <3>2, Elapsed DEF TimerExpired
        <5>2. Ago \in {0, 1}
          BY <3>2, ReadAge
        <5> QED
          BY <1>1, <4>1, <5>1, <5>2
      <4>3. N \div 2 < N
        BY <1>1, HalfTurn
      <4>4. start' = IF start + interval < N THEN start + interval
                     ELSE start + interval - N
        <5>1. start \in 0 .. N - 1 /\ interval \in 0 .. N - 1 /\ N \in Nat \ {0}
          BY <1>1, <4>1, <4>3
        <5>2. (start + interval) % N = IF start + interval < N THEN start + interval
                                       ELSE start + interval - N
          BY <5>1, ModSum
        <5> QED
          BY <3>1, <5>2
      <4>5. since' = since - interval
        BY <3>1, <3>2
      <4>6. /\ start' \in 0 .. N - 1 /\ since' \in 0 .. N \div 2 + 2
            /\ start' + since' \in {time, time + N}
        BY <1>1, <4>1, <4>2, <4>3, <4>4, <4>5
      <4> QED
        BY <4>1, <4>6 DEF StartInv, N
    <3>3. CASE ~(clean /\ WholeRead)
      <4>1. ~clean' /\ since' = 0
        BY <3>1, <3>3
      <4> QED
        BY <1>1, <4>1 DEF ClockInv, StartInv, N
    <3> QED
      BY <3>2, <3>3
  <2> QED
    BY <2>1, <2>2 DEF Tested
<1> QED
  BY <1>2, <1>3, <1>4, <1>5 DEF ClockInv

LEMMA NextInv ==
    ASSUME ClockInv, [ClockNext]_clockVars
    PROVE  ClockInv'
<1> USE ClockAssumption
<1>1. CASE ClockTick
  BY <1>1, TickStep
<1>2. CASE TimerCall
  <2>1. interval' \in 0 .. ClockMod \div 2
    BY <1>2 DEF TimerCall, ClockInv, StartInv
  <2>2. calling' /= "none" /\ during' = {time'}
    BY <1>2 DEF TimerCall, Begin
  <2> QED
    BY <1>2, <2>1, <2>2
    DEF TimerCall, ClockInv, TickInv, CallInv, StartInv, TestsRight
<1>3. CASE ReadByte
  BY <1>3 DEF ReadByte, ClockInv, TickInv, CallInv, StartInv, TestsRight
<1>4. CASE CallReturns
  BY <1>4, StartedStep, TestedStep DEF CallReturns
<1>5. CASE UNCHANGED clockVars
  BY <1>5 DEF clockVars, ClockInv, TickInv, CallInv, StartInv, TestsRight
<1> QED
  BY <1>1, <1>2, <1>3, <1>4, <1>5 DEF ClockNext

(* For every word size, number of bytes and set of intervals below half a    *)
(* turn: timer_expired and its callers tell right whether the interval is    *)
(* over, across the wrap of the clock, if their reads of the clock were whole.*)
THEOREM ClockTests == ClockSpec => []TestsRight
<1>1. ClockInv => TestsRight
  BY DEF ClockInv
<1> QED
  BY InitInv, NextInv, <1>1, PTL DEF ClockSpec

-----------------------------------------------------------------------------
(* The Ethernet driver: the inductive invariant                              *)

Byte == 0 .. Base - 1
Addresses == RxStart .. RxStop
Registers == {Reg[n] : n \in DOMAIN Reg}
Entries == [at : Addresses, frame : RxFrames]

\* What is left of a call from its k-th transaction on.
Rest(P, k) == SubSeq(P, k, Len(P))

\* How far `a' is ahead of `first' in the ring.
Ahead(first, a) == (a - first) % RingSize

\* A frame as it lies in the ring, with its header.
Image(e) ==
    LET next == Moved(e.at, Room(e.frame))
    IN <<Low(next), High(next), Low(Len(e.frame)), High(Len(e.frame)), 0, 0>> \o e.frame

Holds(m, e) == \A n \in 0 .. 5 + Len(e.frame) : m[Moved(e.at, n)] = Image(e)[n + 1]

\* The i-th frame of q ends where the next one starts, and before all that
\* follows, as seen from the start of the oldest.
Placed(first, q, end, i) ==
    /\ Moved(q[i].at, Room(q[i].frame)) = IF i = Len(q) THEN end ELSE q[i + 1].at
    /\ Ahead(first, q[i].at) + Room(q[i].frame) <= Ahead(first, end)
    /\ \A j \in DOMAIN q : i < j => Ahead(first, q[i].at) + Room(q[i].frame) <= Ahead(first, q[j].at)

\* The frames of q follow each other from first to end without meeting.
Ring(first, q, end) ==
    /\ q = <<>> => end = first
    /\ q # <<>> => q[1].at = first
    /\ \A i \in DOMAIN q : Placed(first, q, end, i)

Layout(m, first, q, end) ==
    /\ Ring(first, q, end)
    /\ \A i \in DOMAIN q : Holds(m, q[i])

RingHolds(q) == Layout(mem, rxEnd, q, writePtr)

Memories == [TxStart .. RxStop -> Nat]

\* The driver's idea of the selected bank is the chip's.
EncTypeOK ==
    /\ bank \in 0 .. 3 /\ econ1 \cap {"BSEL0", "BSEL1"} = BankBits(bank)
    /\ packetPtr \in Nat /\ rxLen \in Nat
    /\ regs \in [Registers -> Int]
    /\ mem \in Memories
    /\ unread \in Seq(Entries)
    /\ txPos \in Nat
    /\ txPos > 0 <=> "TXRTS" \in econ1

\* The chip receives, and counts the frames that it holds.
Ready ==
    /\ "RXEN" \in econ1
    /\ Configured
    /\ rxEnd \in Addresses /\ writePtr \in Addresses
    /\ regs[Reg.EPKTCNT] = Len(unread)

\* No frame is being taken from the ring.
Resting == packetPtr = rxEnd /\ RingHolds(unread)

Writes(o) == o.op = "write" \/ (o.op = "set" /\ o.reg # Reg.ECON1)

\* What the transactions before the k-th wrote is still there.
Written(k) ==
    \A j \in 1 .. k - 1 :
        Writes(NetworkInit[j]) /\ (\A i \in j + 1 .. k - 1 : NetworkInit[i].reg # NetworkInit[j].reg)
        => regs[NetworkInit[j].reg] = NetworkInit[j].val

\* enc28j60_init is at its k-th transaction, up to the start of reception.
Starting(k) ==
    /\ ops = Rest(NetworkInit, k)
    /\ "RXEN" \notin econ1 /\ txPos = 0
    /\ unread = <<>> /\ packetPtr = RxStart /\ regs[Reg.EPKTCNT] = 0
    /\ Written(k)
    /\ k = 12 => bank = 2
    /\ k > 3 => writePtr = RxStart
    /\ k > 5 => rxEnd = RxStart

\* network_init is, while frames arrive.
Finishing(k) == ops = Rest(NetworkInit, k) /\ Ready /\ Resting

Idle == ops = <<>> /\ Ready /\ Resting

\* The oldest frame, and where the next one starts.
First == Head(unread)
Following == Moved(First.at, Room(First.frame))

\* packet_receive is at its k-th transaction: what it has read by then is the
\* header of the oldest frame, and the place of the frame is given back in the
\* order of the code.
Receiving(k) ==
    /\ ops = Rest(PacketReceive, k)
    /\ Ready
    /\ k > 1 => unread # <<>>
    /\ k <= 4 => packetPtr = rxEnd
    /\ k = 3 => regs[Reg.ERDPTL] = Low(packetPtr)
    /\ k \in 4 .. 10 => Word("ERDPTL", "ERDPTH") = Moved(rxEnd, k - 4)
    /\ k = 5 => packetPtr = Low(Following)
    /\ k >= 6 => packetPtr = Following
    /\ k = 7 => rxLen = Low(Len(First.frame))
    /\ k \in 8 .. 10 => rxLen = Len(First.frame)
    /\ k >= 11 => uipBuf = Shorter(First.frame, MaxLen)
    /\ k = 12 => regs[Reg.ERXRDPTL] = Low(packetPtr)
    /\ IF k = 13 THEN rxEnd = packetPtr /\ RingHolds(Tail(unread)) ELSE RingHolds(unread)

\* The first n bytes of a frame are in place, behind the control byte.
Loaded(m, f, n) == \A i \in 1 .. n : m[TxStart + i] = f[i]
\* How much of the frame is in the chip before the k-th transaction.
PartEnd(f, k) == IF k = 9 THEN Len(Parts(f)[1]) ELSE Len(f)

\* packet_send is at its k-th transaction, and the transmitter rests from the
\* second on.
Sending(f, k) ==
    /\ ops = Rest(PacketSend(f), k)
    /\ Ready /\ Resting
    /\ uipBuf = f
    /\ k > 1 => txPos = 0
    /\ k = 4 => regs[Reg.EWRPTL] = Low(TxStart)
    /\ k \in 5 .. 7 => Word("EWRPTL", "EWRPTH") = TxStart
    /\ k = 6 => regs[Reg.ETXNDL] = Low(TxStart + Len(f))
    /\ k > 6 => Word("ETXNDL", "ETXNDH") = TxStart + Len(f)
    /\ k = 8 => Word("EWRPTL", "EWRPTH") = TxStart + 1
    /\ k > 8 => /\ Word("EWRPTL", "EWRPTH") = TxStart + 1 + PartEnd(f, k)
                /\ Loaded(mem, f, PartEnd(f, k))

\* The frame being sent lies in the chip as a whole, whatever the driver does.
TxInv ==
    txPos > 0 =>
        /\ handed \in TxFrames
        /\ txPos - TxStart \in 1 .. Len(handed)
        /\ Word("ETXNDL", "ETXNDH") = TxStart + Len(handed)
        /\ Loaded(mem, handed, Len(handed))
        /\ wire = SubSeq(handed, 1, txPos - TxStart - 1)

\* The driver is in one of its calls, or between two.
Progress ==
    \/ \E k \in 1 .. 25 : Starting(k)
    \/ \E k \in 26 .. 29 : Finishing(k)
    \/ Idle
    \/ \E k \in 1 .. 13 : Receiving(k)
    \/ \E f \in TxFrames : \E k \in DOMAIN PacketSend(f) : Sending(f, k)

EncInv == EncTypeOK /\ TxInv /\ Progress

-----------------------------------------------------------------------------
(* The ring                                                                  *)

(* The two halves of a word.                                                 *)
LEMMA WordHalves ==
    ASSUME NEW n \in Nat
    PROVE  /\ Low(n) \in Nat /\ High(n) \in Nat
           /\ Low(n) + Base * High(n) = n
<1> DEFINE b == Base
<1>1. b \in Nat \ {0}
  BY EncAssumption DEF EncAssumption
<1>2. ASSUME NEW d \in Nat \ {0}
      PROVE  n % d \in Nat /\ n \div d \in Nat /\ (n % d) + d * (n \div d) = n
  OBVIOUS
<1> QED
  BY <1>1, <1>2 DEF Low, High

(* What the assumptions say of the ring.                                     *)
LEMMA RingFacts ==
    /\ RingSize \in Nat /\ RingSize > 1
    /\ RxStart \in Nat /\ RxStop \in Nat /\ RxStop = RxStart + RingSize - 1
    /\ Addresses \subseteq Nat
  BY EncAssumption DEF EncAssumption, RingSize, Addresses

(* How far one address is ahead of another.                                  *)
LEMMA AheadFacts ==
    ASSUME NEW first \in Addresses, NEW a \in Addresses
    PROVE  /\ Ahead(first, a) \in 0 .. RingSize - 1
           /\ Ahead(first, a) = IF a >= first THEN a - first ELSE a - first + RingSize
<1> DEFINE r == RingSize
           x == a - first
<1>1. r \in Nat \ {0} /\ x \in Int /\ 0 - r < x /\ x < r
  BY RingFacts DEF Addresses
<1> HIDE DEF r, x
<1>2. x % r = IF x < 0 THEN x + r ELSE x
  BY <1>1
<1> QED
  BY <1>1, <1>2, RingFacts DEF Ahead, Addresses, r, x

(* The address some bytes further on.                                        *)
LEMMA MovedFacts ==
    ASSUME NEW a \in Addresses, NEW n \in 0 .. RingSize - 1
    PROVE  /\ Moved(a, n) \in Addresses
           /\ Moved(a, n) = IF a + n <= RxStop THEN a + n ELSE a + n - RingSize
<1> DEFINE r == RingSize
           x == a - RxStart + n
<1>1. r \in Nat \ {0} /\ x \in Int /\ 0 <= x /\ x < 2 * r
  BY RingFacts DEF Addresses
<1> HIDE DEF r, x
<1>2. x % r = IF x < r THEN x ELSE x - r
  BY <1>1
<1> QED
  BY <1>1, <1>2, RingFacts DEF Moved, Addresses, r, x

(* Bytes further on are as much further ahead.                               *)
LEMMA AheadMoved ==
    ASSUME NEW first \in Addresses, NEW a \in Addresses, NEW n \in 0 .. RingSize - 1,
           Ahead(first, a) + n < RingSize
    PROVE  Ahead(first, Moved(a, n)) = Ahead(first, a) + n
<1>1. Moved(a, n) \in Addresses
  BY MovedFacts
<1>2. /\ Moved(a, n) = IF a + n <= RxStop THEN a + n ELSE a + n - RingSize
      /\ Ahead(first, a) = IF a >= first THEN a - first ELSE a - first + RingSize
      /\ LET b == Moved(a, n)
         IN Ahead(first, b) = IF b >= first THEN b - first ELSE b - first + RingSize
  BY <1>1, MovedFacts, AheadFacts
<1> QED
  BY <1>1, <1>2, RingFacts DEF Addresses

(* The same place, seen from further on.                                     *)
LEMMA AheadRebased ==
    ASSUME NEW first \in Addresses, NEW a \in Addresses, NEW n \in 0 .. RingSize - 1,
           Ahead(first, a) >= n
    PROVE  Ahead(Moved(first, n), a) = Ahead(first, a) - n
<1>1. Moved(first, n) \in Addresses
  BY MovedFacts
<1>2. /\ Moved(first, n) = IF first + n <= RxStop THEN first + n ELSE first + n - RingSize
      /\ Ahead(first, a) = IF a >= first THEN a - first ELSE a - first + RingSize
      /\ LET b == Moved(first, n)
         IN Ahead(b, a) = IF a >= b THEN a - b ELSE a - b + RingSize
  BY <1>1, MovedFacts, AheadFacts
<1> QED
  BY <1>1, <1>2, RingFacts DEF Addresses

(* Two moves are one.                                                        *)
LEMMA MovedTwice ==
    ASSUME NEW a \in Addresses, NEW m \in 0 .. RingSize - 1, NEW n \in 0 .. RingSize - 1,
           m + n < RingSize
    PROVE  Moved(Moved(a, m), n) = Moved(a, m + n)
<1>1. Moved(a, m) \in Addresses
  BY MovedFacts
<1>2. m + n \in 0 .. RingSize - 1
  BY RingFacts
<1>3. /\ Moved(a, m) = IF a + m <= RxStop THEN a + m ELSE a + m - RingSize
      /\ Moved(a, m + n) = IF a + (m + n) <= RxStop THEN a + (m + n) ELSE a + (m + n) - RingSize
  BY <1>2, MovedFacts
<1>4. LET b == Moved(a, m)
      IN Moved(b, n) = IF b + n <= RxStop THEN b + n ELSE b + n - RingSize
  BY <1>1, MovedFacts
<1> QED
  BY <1>1, <1>3, <1>4, RingFacts DEF Addresses

(* A frame and its room in the ring.                                         *)
LEMMA RoomFacts ==
    ASSUME NEW f \in RxFrames
    PROVE  /\ f \in Seq(Byte) /\ Len(f) \in Nat /\ f \in Seq(Nat)
           /\ Room(f) \in Nat /\ Room(f) >= 6 + Len(f)
<1>1. f \in Seq(Byte) /\ Byte \subseteq Nat
  BY EncAssumption DEF EncAssumption, Byte
<1>2. Len(f) \in Nat /\ f \in Seq(Nat)
  BY <1>1, LenProperties, SeqMonotonic
<1>3. Len(f) % 2 \in {0, 1}
  BY <1>2
<1> QED
  BY <1>1, <1>2, <1>3 DEF Room

(* What is free lies between the end of the last frame and the limit.        *)
LEMMA FreeFacts ==
    ASSUME rxEnd \in Addresses, writePtr \in Addresses
    PROVE  /\ Free \in Nat
           /\ \A n \in Nat : n <= Free => Ahead(rxEnd, writePtr) + n < RingSize
<1> DEFINE r == RingSize
           x == rxEnd - writePtr - 1
<1>1. r \in Nat \ {0} /\ x \in Int /\ 0 - r <= x /\ x < r
  BY RingFacts DEF Addresses
<1> HIDE DEF r, x
<1>2. x % r = IF x < 0 THEN x + r ELSE x
  BY <1>1
<1>3. Free = IF writePtr = rxEnd THEN r - 1 ELSE x % r
  BY DEF Free, r, x
<1>4. Ahead(rxEnd, writePtr) = IF writePtr >= rxEnd THEN writePtr - rxEnd ELSE writePtr - rxEnd + RingSize
  BY AheadFacts
<1> QED
  BY <1>1, <1>2, <1>3, <1>4, RingFacts DEF Addresses, r, x

(* What lies behind `end' is far ahead of it.                                *)
LEMMA AheadBehind ==
    ASSUME NEW first \in Addresses, NEW end \in Addresses, NEW a \in Addresses,
           Ahead(first, a) < Ahead(first, end)
    PROVE  Ahead(end, a) + Ahead(first, end) = Ahead(first, a) + RingSize
<1>1. /\ Ahead(first, a) = IF a >= first THEN a - first ELSE a - first + RingSize
      /\ Ahead(first, end) = IF end >= first THEN end - first ELSE end - first + RingSize
      /\ Ahead(end, a) = IF a >= end THEN a - end ELSE a - end + RingSize
  BY AheadFacts
<1> QED
  BY <1>1, RingFacts DEF Addresses

(* The header and the frame, byte by byte.                                   *)
LEMMA ImageFacts ==
    ASSUME NEW e \in Entries
    PROVE  /\ Image(e) \in Seq(Nat) /\ Len(Image(e)) = 6 + Len(e.frame)
           /\ LET next == Moved(e.at, Room(e.frame))
              IN /\ Image(e)[1] = Low(next) /\ Image(e)[2] = High(next)
                 /\ Image(e)[3] = Low(Len(e.frame)) /\ Image(e)[4] = High(Len(e.frame))
           /\ \A i \in 1 .. Len(e.frame) : Image(e)[6 + i] = e.frame[i]
<1> DEFINE next == Moved(e.at, Room(e.frame))
           f == e.frame
           h == <<Low(next), High(next), Low(Len(f)), High(Len(f)), 0, 0>>
<1>1. f \in RxFrames /\ f \in Seq(Nat) /\ Len(f) \in Nat
  BY RoomFacts DEF Entries
<1>2. next \in Nat
  <2> DEFINE x == e.at - RxStart + Room(f)
  <2>1. x \in Int /\ RingSize \in Nat \ {0} /\ RxStart \in Nat
    BY <1>1, RoomFacts, RingFacts DEF Entries, Addresses
  <2> HIDE DEF x
  <2>2. x % RingSize \in Nat
    BY <2>1
  <2> QED
    BY <2>1, <2>2 DEF Moved, x, next
<1> HIDE DEF next, f
<1>3. Low(next) \in Nat /\ High(next) \in Nat /\ Low(Len(f)) \in Nat /\ High(Len(f)) \in Nat
  BY <1>1, <1>2, WordHalves
<1>4. h \in Seq(Nat) /\ Len(h) = 6
  BY <1>3
<1>5. h[1] = Low(next) /\ h[2] = High(next) /\ h[3] = Low(Len(f)) /\ h[4] = High(Len(f))
  OBVIOUS
<1>6. Image(e) = h \o f
  BY DEF Image, next, f
<1> HIDE DEF h
<1>7. /\ h \o f \in Seq(Nat) /\ Len(h \o f) = 6 + Len(f)
      /\ \A i \in 1 .. 6 + Len(f) : (h \o f)[i] = IF i <= 6 THEN h[i] ELSE f[i - 6]
  <2>1. /\ h \o f \in Seq(Nat) /\ Len(h \o f) = Len(h) + Len(f)
        /\ \A i \in 1 .. Len(h) + Len(f) : (h \o f)[i] = IF i <= Len(h) THEN h[i] ELSE f[i - Len(h)]
    BY <1>1, <1>4, ConcatProperties
  <2> QED
    BY <1>4, <2>1
<1>8. \A i \in 1 .. Len(f) : (h \o f)[6 + i] = f[i]
  <2> TAKE i \in 1 .. Len(f)
  <2>1. 6 + i \in 1 .. 6 + Len(f) /\ ~(6 + i <= 6) /\ (6 + i) - 6 = i
    BY <1>1
  <2> QED
    BY <1>7, <2>1
<1>9. \A i \in {1, 2, 3, 4} : (h \o f)[i] = h[i]
  BY <1>1, <1>7
<1> QED
  BY <1>5, <1>6, <1>7, <1>8, <1>9 DEF next, f

(* A frame is stored behind the others.                                      *)
LEMMA RingAppend ==
    ASSUME NEW first \in Addresses, NEW end \in Addresses, NEW q \in Seq(Entries), NEW f \in RxFrames,
           Ring(first, q, end), Ahead(first, end) + Room(f) < RingSize
    PROVE  /\ Ring(first, Append(q, [at |-> end, frame |-> f]), Moved(end, Room(f)))
           /\ Moved(end, Room(f)) \in Addresses
<1> DEFINE e == [at |-> end, frame |-> f]
           p == Append(q, e)
           n == Len(q)
           past == Moved(end, Room(f))
<1>1. e \in Entries /\ e.at = end /\ e.frame = f
  BY DEF Entries
<1>2. n \in Nat /\ DOMAIN q = 1 .. n /\ \A i \in 1 .. n : q[i] \in Entries
  BY LenProperties, ElementOfSeq
<1> HIDE DEF e
<1>3. /\ Len(p) = n + 1 /\ DOMAIN p = 1 .. n + 1
      /\ \A i \in 1 .. n : p[i] = q[i]
      /\ p[n + 1] = e
  BY <1>1, AppendProperties, <1>2
<1>4. Room(f) \in 0 .. RingSize - 1 /\ Ahead(first, end) \in Nat /\ RingSize \in Nat
  BY RoomFacts, AheadFacts, RingFacts
<1>5. past \in Addresses /\ Ahead(first, past) = Ahead(first, end) + Room(f)
  BY <1>4, MovedFacts, AheadMoved
<1> HIDE DEF p, past, n
<1>6. p # <<>>
  BY <1>2, <1>3
<1>7. p[1].at = first
  <2>1. CASE n = 0
    <3>1. q = <<>>
      BY <2>1, EmptySeq DEF n
    <3> QED
      BY <1>1, <1>3, <2>1, <3>1 DEF Ring
  <2>2. CASE n # 0
    <3>1. q # <<>> /\ 1 \in 1 .. n
      BY <1>2, <2>2, EmptySeq DEF n
    <3> QED
      BY <1>3, <3>1 DEF Ring
  <2> QED
    BY <2>1, <2>2
<1>8. ASSUME NEW i \in 1 .. n
      PROVE  /\ Moved(q[i].at, Room(q[i].frame)) = IF i = n THEN end ELSE q[i + 1].at
             /\ Ahead(first, q[i].at) + Room(q[i].frame) <= Ahead(first, end)
             /\ \A j \in 1 .. n : i < j => Ahead(first, q[i].at) + Room(q[i].frame) <= Ahead(first, q[j].at)
             /\ Ahead(first, q[i].at) + Room(q[i].frame) \in Nat
  <2>1. Placed(first, q, end, i)
    BY <1>2 DEF Ring
  <2>2. q[i].at \in Addresses /\ q[i].frame \in RxFrames
    BY <1>2 DEF Entries
  <2>3. Ahead(first, q[i].at) \in 0 .. RingSize - 1 /\ Room(q[i].frame) \in Nat
    BY <2>2, AheadFacts, RoomFacts
  <2>4. Ahead(first, q[i].at) + Room(q[i].frame) \in Nat
    BY <1>4, <2>3
  <2>5. DOMAIN q = 1 .. n /\ Len(q) = n
    BY <1>2 DEF n
  <2> QED
    BY <2>1, <2>4, <2>5 DEF Placed
<1>9. ASSUME NEW i \in 1 .. n
      PROVE  Placed(first, p, past, i)
  <2>1. i \in 1 .. n + 1 /\ i # n + 1 /\ p[i] = q[i]
    BY <1>2, <1>3
  <2>2. Moved(q[i].at, Room(q[i].frame)) = p[i + 1].at
    <3>1. CASE i = n
      BY <1>1, <1>3, <1>8, <3>1
    <3>2. CASE i # n
      <4>1. i + 1 \in 1 .. n
        BY <1>2, <3>2
      <4> QED
        BY <1>3, <1>8, <3>2, <4>1
    <3> QED
      BY <3>1, <3>2
  <2>3. Ahead(first, q[i].at) + Room(q[i].frame) <= Ahead(first, past)
    BY <1>4, <1>5, <1>8
  <2>4. ASSUME NEW j \in 1 .. n + 1, i < j
        PROVE  Ahead(first, q[i].at) + Room(q[i].frame) <= Ahead(first, p[j].at)
    <3>1. CASE j = n + 1
      BY <1>1, <1>3, <1>8, <3>1
    <3>2. CASE j # n + 1
      <4>1. j \in 1 .. n /\ p[j] = q[j]
        BY <1>2, <1>3, <3>2
      <4> QED
        BY <1>8, <2>4, <4>1
    <3> QED
      BY <3>1, <3>2
  <2> QED
    BY <1>3, <2>1, <2>2, <2>3, <2>4 DEF Placed
<1>10. Placed(first, p, past, n + 1)
  <2>1. \A j \in 1 .. n + 1 : ~(n + 1 < j)
    BY <1>2
  <2> QED
    BY <1>1, <1>3, <1>4, <1>5, <2>1 DEF Placed, past
<1>11. \A i \in DOMAIN p : Placed(first, p, past, i)
  BY <1>2, <1>3, <1>9, <1>10
<1> QED
  BY <1>5, <1>6, <1>7, <1>11 DEF Ring, p, past, e

(* The oldest frame's place is given back.                                   *)
LEMMA RingTail ==
    ASSUME NEW first \in Addresses, NEW end \in Addresses, NEW q \in Seq(Entries), q # <<>>,
           Ring(first, q, end)
    PROVE  /\ Moved(first, Room(Head(q).frame)) \in Addresses
           /\ Ring(Moved(first, Room(Head(q).frame)), Tail(q), end)
           /\ first = Head(q).at
           /\ Room(Head(q).frame) \in 0 .. RingSize - 1
<1> DEFINE n == Len(q)
           p == Tail(q)
           room == Room(Head(q).frame)
           next == Moved(first, room)
<1>1. n \in Nat \ {0} /\ DOMAIN q = 1 .. n /\ \A i \in 1 .. n : q[i] \in Entries
  BY LenProperties, ElementOfSeq, EmptySeq
<1>2. /\ Len(p) = n - 1 /\ DOMAIN p = 1 .. n - 1
      /\ \A i \in 1 .. n - 1 : p[i] = q[i + 1]
      /\ Head(q) = q[1]
  BY <1>1, HeadTailProperties
<1> HIDE DEF n, p
<1>3. ASSUME NEW i \in 1 .. n
      PROVE  /\ Placed(first, q, end, i)
             /\ q[i].at \in Addresses /\ q[i].frame \in RxFrames
             /\ Ahead(first, q[i].at) \in Nat /\ Room(q[i].frame) \in Nat
  <2>1. q[i].at \in Addresses /\ q[i].frame \in RxFrames
    BY <1>1 DEF Entries
  <2>2. Ahead(first, q[i].at) \in 0 .. RingSize - 1 /\ Room(q[i].frame) \in Nat
    BY <2>1, AheadFacts, RoomFacts
  <2> QED
    BY <1>1, <2>1, <2>2 DEF Ring
<1>4. /\ q[1].at = first /\ 1 \in 1 .. n
      /\ Ahead(first, first) = 0 /\ Ahead(first, end) \in 0 .. RingSize - 1
  BY <1>1, AheadFacts, RingFacts DEF Ring
<1>5. room \in 0 .. RingSize - 1 /\ room <= Ahead(first, end)
  <2>1. Placed(first, q, end, 1) /\ Room(q[1].frame) \in Nat /\ Ahead(first, q[1].at) = 0
    BY <1>3, <1>4
  <2>2. Ahead(first, q[1].at) + Room(q[1].frame) <= Ahead(first, end)
    BY <2>1 DEF Placed
  <2>3. Room(q[1].frame) <= Ahead(first, end)
    BY <2>1, <2>2
  <2> QED
    BY <1>2, <1>4, <2>1, <2>3, RingFacts
<1> HIDE DEF room, next
<1>6. next \in Addresses /\ Ahead(next, end) = Ahead(first, end) - room
  BY <1>5, MovedFacts, AheadRebased DEF next
<1>7. ASSUME NEW i \in 1 .. n - 1
      PROVE  Ahead(next, q[i + 1].at) = Ahead(first, q[i + 1].at) - room
  <2>1. i + 1 \in 1 .. n /\ 1 < i + 1
    BY <1>1
  <2>2. Placed(first, q, end, 1) /\ Ahead(first, q[1].at) = 0 /\ room \in Nat /\ room = Room(q[1].frame)
    BY <1>2, <1>3, <1>4, <1>5 DEF room
  <2>3. Ahead(first, q[1].at) + Room(q[1].frame) <= Ahead(first, q[i + 1].at)
    BY <1>1, <2>1, <2>2 DEF Placed
  <2>4. Ahead(first, q[i + 1].at) \in Nat /\ q[i + 1].at \in Addresses
    BY <1>3, <2>1
  <2>5. Ahead(first, q[i + 1].at) >= room
    BY <2>2, <2>3, <2>4
  <2> QED
    BY <1>5, <2>4, <2>5, AheadRebased DEF next
<1>8. next = IF 1 = n THEN end ELSE q[2].at
  <2>1. Placed(first, q, end, 1)
    BY <1>3, <1>4
  <2>2. Moved(q[1].at, Room(q[1].frame)) = IF 1 = Len(q) THEN end ELSE q[2].at
    BY <2>1 DEF Placed
  <2> QED
    BY <1>2, <1>4, <2>2 DEF next, room, n
<1>9. p = <<>> => end = next
  BY <1>1, <1>2, <1>8
<1>10. p # <<>> => p[1].at = next
  <2> SUFFICES ASSUME p # <<>> PROVE p[1].at = next
    OBVIOUS
  <2>1. p \in Seq(Entries)
    BY HeadTailProperties DEF p
  <2>2. n - 1 \in Nat \ {0}
    BY <1>2, <2>1, EmptySeq
  <2>3. 1 \in 1 .. n - 1 /\ 1 # n
    BY <1>1, <2>2
  <2> QED
    BY <1>2, <1>8, <2>3
<1>11. ASSUME NEW i \in 1 .. n - 1
       PROVE  Placed(next, p, end, i)
  <2> DEFINE k == i + 1
  <2>1. k \in 1 .. n /\ p[i] = q[k] /\ (k = n <=> i = n - 1)
    BY <1>1, <1>2
  <2>2. /\ Placed(first, q, end, k) /\ Ahead(next, q[k].at) = Ahead(first, q[k].at) - room
        /\ Ahead(first, q[k].at) \in Nat /\ Room(q[k].frame) \in Nat
    BY <1>3, <1>7, <2>1
  <2>3. Moved(q[k].at, Room(q[k].frame)) = IF i = Len(p) THEN end ELSE p[i + 1].at
    <3>1. Moved(q[k].at, Room(q[k].frame)) = IF k = n THEN end ELSE q[k + 1].at
      BY <2>2 DEF Placed, n
    <3>2. i # n - 1 => i + 1 \in 1 .. n - 1 /\ (i + 1) + 1 = k + 1
      BY <1>1
    <3> QED
      BY <1>2, <2>1, <3>1, <3>2
  <2>4. Ahead(next, q[k].at) + Room(q[k].frame) <= Ahead(next, end)
    <3>1. Ahead(first, q[k].at) + Room(q[k].frame) <= Ahead(first, end)
      BY <2>2 DEF Placed
    <3> HIDE DEF k
    <3> QED
      BY <1>4, <1>5, <1>6, <2>2, <3>1
  <2>5. ASSUME NEW j \in 1 .. n - 1, i < j
        PROVE  Ahead(next, q[k].at) + Room(q[k].frame) <= Ahead(next, p[j].at)
    <3> DEFINE l == j + 1
    <3>1. l \in 1 .. n /\ p[j] = q[l] /\ k < l
      BY <1>1, <1>2, <2>5
    <3>2. Ahead(next, q[l].at) = Ahead(first, q[l].at) - room /\ Ahead(first, q[l].at) \in Nat
      BY <1>3, <1>7, <3>1
    <3>3. Ahead(first, q[k].at) + Room(q[k].frame) <= Ahead(first, q[l].at)
      BY <1>1, <2>2, <3>1 DEF Placed
    <3> HIDE DEF k, l
    <3> QED
      BY <1>5, <2>2, <3>1, <3>2, <3>3
  <2> HIDE DEF k
  <2> QED
    BY <1>2, <2>1, <2>3, <2>4, <2>5 DEF Placed
<1>12. Ring(next, p, end)
  BY <1>2, <1>9, <1>10, <1>11 DEF Ring
<1> QED
  BY <1>2, <1>4, <1>5, <1>6, <1>12 DEF next, room, p

(* What is written behind the end of the ring's contents leaves them alone.  *)
LEMMA StoredKept ==
    ASSUME NEW first \in Addresses, NEW end \in Addresses, NEW q \in Seq(Entries),
           Ring(first, q, end), NEW i \in DOMAIN q, NEW n \in 0 .. 5 + Len(q[i].frame),
           NEW room \in Nat, Ahead(first, end) + room < RingSize
    PROVE  /\ Moved(q[i].at, n) \in Addresses
           /\ Ahead(end, Moved(q[i].at, n)) > room
<1> DEFINE a == q[i].at
           f == q[i].frame
           b == Moved(a, n)
<1>1. a \in Addresses /\ f \in RxFrames
  <2>1. i \in 1 .. Len(q)
    BY LenProperties
  <2>2. q[i] \in Entries
    BY <2>1, ElementOfSeq
  <2> QED
    BY <2>2 DEF Entries
<1>2. Ahead(first, a) + Room(f) <= Ahead(first, end)
  BY DEF Ring, Placed
<1>3. /\ Ahead(first, a) \in 0 .. RingSize - 1 /\ Ahead(first, end) \in 0 .. RingSize - 1
      /\ Room(f) \in Nat /\ Len(f) \in Nat /\ Room(f) >= 6 + Len(f) /\ RingSize \in Nat
  BY <1>1, AheadFacts, RoomFacts, RingFacts
<1>4. n \in Int /\ 0 <= n /\ n < 6 + Len(f)
  BY <1>3
<1> HIDE DEF a, f
<1>5. n \in 0 .. RingSize - 1 /\ Ahead(first, a) + n < RingSize /\ Ahead(first, a) + n < Ahead(first, end)
  BY <1>2, <1>3, <1>4
<1>6. b \in Addresses /\ Ahead(first, b) = Ahead(first, a) + n
  BY <1>1, <1>5, MovedFacts, AheadMoved
<1> HIDE DEF b
<1>7. Ahead(end, b) + Ahead(first, end) = Ahead(first, b) + RingSize
  BY <1>3, <1>5, <1>6, AheadBehind
<1>8. Ahead(end, b) \in 0 .. RingSize - 1
  BY <1>6, AheadFacts
<1>9. Ahead(end, b) > room
  BY <1>3, <1>4, <1>6, <1>7, <1>8
<1> QED
  BY <1>6, <1>9 DEF a, b

\* The memory after a frame was stored at `end'.
Storing(m, f, end) ==
    [a \in DOMAIN m |->
       IF a >= RxStart /\ Ahead(end, a) < 6 + Len(f)
       THEN Image([at |-> end, frame |-> f])[Ahead(end, a) + 1]
       ELSE m[a]]

(* A frame that fits is stored and no frame of the ring is lost.             *)
LEMMA LayoutAppend ==
    ASSUME NEW first \in Addresses, NEW end \in Addresses, NEW q \in Seq(Entries), NEW f \in RxFrames,
           NEW m \in Memories, NEW m2, m2 = Storing(m, f, end),
           Layout(m, first, q, end), Ahead(first, end) + Room(f) < RingSize
    PROVE  /\ Layout(m2, first, Append(q, [at |-> end, frame |-> f]), Moved(end, Room(f)))
           /\ Moved(end, Room(f)) \in Addresses
           /\ m2 \in Memories
           /\ \A a \in TxStart .. RxStart - 1 : m2[a] = m[a]
<1> DEFINE e == [at |-> end, frame |-> f]
           p == Append(q, e)
           past == Moved(end, Room(f))
<1>1. e \in Entries /\ e.at = end /\ e.frame = f
  BY DEF Entries
<1> HIDE DEF e
<1>2. /\ Image(e) \in Seq(Nat) /\ Len(Image(e)) = 6 + Len(f) /\ Len(f) \in Nat
      /\ Room(f) \in Nat /\ 6 + Len(f) <= Room(f)
  BY <1>1, ImageFacts, RoomFacts
<1>3. /\ TxStart \in Nat /\ RxStart \in Nat /\ RxStop \in Nat /\ TxStart < RxStart
      /\ Addresses \subseteq TxStart .. RxStop
  BY EncAssumption DEF EncAssumption, Addresses
<1>4. DOMAIN m = TxStart .. RxStop /\ \A a \in TxStart .. RxStop : m[a] \in Nat
  BY DEF Memories
<1>5. ASSUME NEW a \in TxStart .. RxStop
      PROVE  /\ m2[a] = IF a >= RxStart /\ Ahead(end, a) < 6 + Len(f)
                        THEN Image(e)[Ahead(end, a) + 1] ELSE m[a]
             /\ m2[a] \in Nat
  <2>1. m2[a] = IF a >= RxStart /\ Ahead(end, a) < 6 + Len(f)
                THEN Image(e)[Ahead(end, a) + 1] ELSE m[a]
    BY <1>4 DEF Storing, e
  <2>2. CASE a >= RxStart /\ Ahead(end, a) < 6 + Len(f)
    <3>1. a \in Addresses
      BY <1>3, <2>2 DEF Addresses
    <3>2. Ahead(end, a) \in 0 .. RingSize - 1
      BY <3>1, AheadFacts
    <3>3. Ahead(end, a) + 1 \in 1 .. Len(Image(e))
      BY <1>2, <2>2, <3>2, RingFacts
    <3>4. Image(e)[Ahead(end, a) + 1] \in Nat
      BY <1>2, <3>3, ElementOfSeq
    <3> QED
      BY <2>1, <2>2, <3>4
  <2> QED
    BY <1>4, <2>1, <2>2
<1>6. m2 \in Memories
  <2>1. m2 = [a \in TxStart .. RxStop |-> m2[a]]
    BY <1>4 DEF Storing
  <2> QED
    BY <1>5, <2>1 DEF Memories
<1>7. \A a \in TxStart .. RxStart - 1 : m2[a] = m[a]
  <2> TAKE a \in TxStart .. RxStart - 1
  <2>1. a \in TxStart .. RxStop /\ ~(a >= RxStart)
    BY <1>3, RingFacts
  <2> QED
    BY <1>5, <2>1
<1>8. ASSUME NEW i \in DOMAIN q
      PROVE  Holds(m2, q[i])
  <2>1. SUFFICES ASSUME NEW n \in 0 .. 5 + Len(q[i].frame)
                 PROVE  m2[Moved(q[i].at, n)] = m[Moved(q[i].at, n)]
    BY DEF Holds, Layout
  <2>2. Moved(q[i].at, n) \in Addresses /\ Ahead(end, Moved(q[i].at, n)) > Room(f)
    BY <1>2, StoredKept DEF Layout
  <2> DEFINE b == Moved(q[i].at, n)
  <2> HIDE DEF b
  <2>3. b \in Addresses /\ Ahead(end, b) > Room(f)
    BY <2>2 DEF b
  <2>4. b \in TxStart .. RxStop /\ Ahead(end, b) \in 0 .. RingSize - 1
    BY <1>3, <2>3, AheadFacts
  <2>5. ~(Ahead(end, b) < 6 + Len(f))
    BY <1>2, <2>3, <2>4, RingFacts
  <2> QED
    BY <1>5, <2>4, <2>5 DEF b
<1>9. Holds(m2, e)
  <2>1. SUFFICES ASSUME NEW n \in 0 .. 5 + Len(f)
                 PROVE  m2[Moved(end, n)] = Image(e)[n + 1]
    BY <1>1 DEF Holds
  <2> DEFINE b == Moved(end, n)
  <2>2. /\ n \in Int /\ 0 <= n /\ n < 6 + Len(f)
        /\ Ahead(first, end) \in 0 .. RingSize - 1 /\ Ahead(end, end) = 0
    BY <1>2, AheadFacts, RingFacts DEF Addresses
  <2>3. n \in 0 .. RingSize - 1 /\ Ahead(end, end) + n < RingSize
    BY <1>2, <2>2, RingFacts
  <2>4. b \in Addresses /\ Ahead(end, b) = n
    <3>1. end \in Addresses
      BY <1>2
    <3>2. Ahead(end, b) = Ahead(end, end) + n
      BY <2>3, <3>1, AheadMoved
    <3>3. b \in Addresses
      BY <2>3, <3>1, MovedFacts
    <3> HIDE DEF b
    <3> QED
      BY <2>2, <3>2, <3>3
  <2> HIDE DEF b
  <2>5. b \in TxStart .. RxStop /\ b >= RxStart
    BY <1>3, <2>4 DEF Addresses
  <2>6. m2[b] = Image(e)[n + 1]
    BY <1>5, <2>2, <2>4, <2>5
  <2> QED
    BY <2>6 DEF b
<1>10. Ring(first, p, past) /\ past \in Addresses
  BY RingAppend DEF Layout, e
<1>11. \A i \in DOMAIN p : Holds(m2, p[i])
  <2> TAKE i \in DOMAIN p
  <2>1. /\ DOMAIN p = 1 .. Len(q) + 1 /\ p[Len(q) + 1] = e
        /\ \A j \in 1 .. Len(q) : p[j] = q[j]
        /\ DOMAIN q = 1 .. Len(q) /\ Len(q) \in Nat
    BY <1>1, AppendProperties, LenProperties
  <2>2. i \in DOMAIN q \/ i = Len(q) + 1
    BY <2>1
  <2> HIDE DEF p
  <2> QED
    BY <1>8, <1>9, <2>1, <2>2
<1> QED
  BY <1>6, <1>7, <1>10, <1>11 DEF Layout, e

(* A memory that differs below the ring only holds the same frames.          *)
LEMMA LayoutKept ==
    ASSUME NEW first \in Addresses, NEW end \in Addresses, NEW q \in Seq(Entries),
           NEW m, NEW m2, \A a \in Addresses : m2[a] = m[a],
           Layout(m, first, q, end)
    PROVE  Layout(m2, first, q, end)
<1>1. SUFFICES ASSUME NEW i \in DOMAIN q, NEW n \in 0 .. 5 + Len(q[i].frame)
               PROVE  Moved(q[i].at, n) \in Addresses
  BY DEF Layout, Holds
<1>2. i \in 1 .. Len(q) /\ q[i] \in Entries
  BY LenProperties, ElementOfSeq
<1>3. q[i].at \in Addresses /\ q[i].frame \in RxFrames
  BY <1>2 DEF Entries
<1> DEFINE a == q[i].at
           f == q[i].frame
<1>4. Ahead(first, a) + Room(f) <= Ahead(first, end)
  BY DEF Layout, Ring, Placed
<1>5. /\ Ahead(first, a) \in 0 .. RingSize - 1 /\ Ahead(first, end) \in 0 .. RingSize - 1
      /\ Room(f) \in Nat /\ Len(f) \in Nat /\ Room(f) >= 6 + Len(f) /\ RingSize \in Nat
  BY <1>3, AheadFacts, RoomFacts, RingFacts
<1>6. n \in 0 .. 5 + Len(f)
  OBVIOUS
<1>7. a \in Addresses
  BY <1>3
<1> HIDE DEF a, f
<1>8. n \in 0 .. RingSize - 1
  BY <1>4, <1>5, <1>6
<1>9. Moved(a, n) \in Addresses
  BY <1>7, <1>8, MovedFacts
<1> QED
  BY <1>9 DEF a

(* What the driver reads of the oldest frame.                                *)
LEMMA FirstStored ==
    ASSUME NEW first \in Addresses, NEW end \in Addresses, NEW q \in Seq(Entries), q # <<>>,
           NEW m \in Memories, Layout(m, first, q, end)
    PROVE  LET e == Head(q)
               next == Moved(first, Room(e.frame))
           IN /\ m[first] = Low(next) /\ m[Moved(first, 1)] = High(next)
              /\ m[Moved(first, 2)] = Low(Len(e.frame)) /\ m[Moved(first, 3)] = High(Len(e.frame))
              /\ \A i \in 1 .. Len(e.frame) : m[Moved(first, 5 + i)] = e.frame[i]
              /\ \A i \in 0 .. 6 + Len(e.frame) : i \in 0 .. RingSize - 1
              /\ next \in Nat /\ e.frame \in RxFrames /\ e.at = first
<1> DEFINE e == Head(q)
           f == e.frame
           next == Moved(first, Room(f))
<1>1. e \in Entries /\ e = q[1] /\ 1 \in DOMAIN q
  <2>1. 1 \in 1 .. Len(q) /\ DOMAIN q = 1 .. Len(q)
    BY LenProperties, EmptySeq
  <2>2. q[1] \in Entries /\ Head(q) = q[1]
    BY <2>1, ElementOfSeq, HeadTailProperties
  <2> QED
    BY <2>1, <2>2
<1>2. first = e.at /\ next \in Addresses /\ Room(f) \in 0 .. RingSize - 1
  BY RingTail DEF Layout
<1> HIDE DEF e
<1>3. Holds(m, e) /\ f \in RxFrames
  BY <1>1 DEF Layout, Entries
<1>4. Len(f) \in Nat /\ Room(f) >= 6 + Len(f) /\ RingSize \in Nat /\ first \in Nat
      /\ next \in Nat
  BY <1>2, <1>3, RoomFacts, RingFacts
<1>5. /\ Image(e)[1] = Low(next) /\ Image(e)[2] = High(next)
      /\ Image(e)[3] = Low(Len(f)) /\ Image(e)[4] = High(Len(f))
      /\ \A i \in 1 .. Len(f) : Image(e)[6 + i] = f[i]
  BY <1>1, <1>2, ImageFacts
<1>6. \A n \in 0 .. 5 + Len(f) : m[Moved(first, n)] = Image(e)[n + 1]
  BY <1>2, <1>3 DEF Holds
<1> HIDE DEF next, f
<1>7. \A n \in 0 .. 6 + Len(f) : n \in 0 .. RingSize - 1
  BY <1>2, <1>4
<1>8. /\ m[Moved(first, 0)] = Low(next) /\ m[Moved(first, 1)] = High(next)
      /\ m[Moved(first, 2)] = Low(Len(f)) /\ m[Moved(first, 3)] = High(Len(f))
  <2>1. \A n \in 0 .. 3 : m[Moved(first, n)] = Image(e)[n + 1]
    <3>1. \A n \in 0 .. 3 : n \in 0 .. 5 + Len(f)
      BY <1>4
    <3> QED
      BY <1>6, <3>1
  <2>2. /\ m[Moved(first, 0)] = Image(e)[0 + 1] /\ m[Moved(first, 1)] = Image(e)[1 + 1]
        /\ m[Moved(first, 2)] = Image(e)[2 + 1] /\ m[Moved(first, 3)] = Image(e)[3 + 1]
    BY <2>1
  <2> QED
    BY <1>5, <2>2
<1>9. Moved(first, 0) = first
  BY <1>4, <1>7, MovedFacts, RingFacts DEF Addresses
<1>10. ASSUME NEW i \in 1 .. Len(f)
       PROVE  m[Moved(first, 5 + i)] = f[i]
  <2>1. 5 + i \in 0 .. 5 + Len(f) /\ (5 + i) + 1 = 6 + i
    BY <1>4
  <2> QED
    BY <1>5, <1>6, <2>1
<1> QED
  BY <1>2, <1>3, <1>4, <1>7, <1>8, <1>9, <1>10 DEF next, f, e

-----------------------------------------------------------------------------
(* Registers and banks                                                       *)

(* The addresses of the registers.                                           *)
LEMMA RegFacts ==
    /\ Reg["ERDPTL"] = <<0, 0>> /\ Reg["ERDPTH"] = <<0, 1>> /\ Reg["EWRPTL"] = <<0, 2>>
    /\ Reg["EWRPTH"] = <<0, 3>> /\ Reg["ETXSTL"] = <<0, 4>> /\ Reg["ETXSTH"] = <<0, 5>>
    /\ Reg["ETXNDL"] = <<0, 6>> /\ Reg["ETXNDH"] = <<0, 7>> /\ Reg["ERXSTL"] = <<0, 8>>
    /\ Reg["ERXSTH"] = <<0, 9>> /\ Reg["ERXNDL"] = <<0, 10>> /\ Reg["ERXNDH"] = <<0, 11>>
    /\ Reg["ERXRDPTL"] = <<0, 12>> /\ Reg["ERXRDPTH"] = <<0, 13>> /\ Reg["EIE"] = <<0, 27>>
    /\ Reg["ESTAT"] = <<0, 29>> /\ Reg["ECON2"] = <<0, 30>> /\ Reg["ECON1"] = <<0, 31>>
    /\ Reg["EPKTCNT"] = <<1, 25>> /\ Reg["MACON1"] = <<2, 0>> /\ Reg["MACON2"] = <<2, 1>>
    /\ Reg["MACON3"] = <<2, 2>> /\ Reg["MABBIPG"] = <<2, 4>> /\ Reg["MAIPGL"] = <<2, 6>>
    /\ Reg["MAIPGH"] = <<2, 7>> /\ Reg["MAMXFLL"] = <<2, 10>> /\ Reg["MAMXFLH"] = <<2, 11>>
    /\ Reg["MIREGADR"] = <<2, 20>> /\ Reg["MIWRL"] = <<2, 22>> /\ Reg["MIWRH"] = <<2, 23>>
    /\ Reg["MAADR"] = <<3, 0>> /\ Reg["MISTAT"] = <<3, 10>>
  BY DEF Reg

Names == {"ERDPTL", "ERDPTH", "EWRPTL", "EWRPTH", "ETXSTL", "ETXSTH", "ETXNDL", "ETXNDH",
          "ERXSTL", "ERXSTH", "ERXNDL", "ERXNDH", "ERXRDPTL", "ERXRDPTH", "EIE", "ESTAT",
          "ECON2", "ECON1", "EPKTCNT", "MACON1", "MACON2", "MACON3", "MABBIPG", "MAIPGL",
          "MAIPGH", "MAMXFLL", "MAMXFLH", "MIREGADR", "MIWRL", "MIWRH", "MAADR", "MISTAT"}

(* Names and registers.                                                      *)
LEMMA RegisterFacts ==
    /\ DOMAIN Reg = Names
    /\ \A n \in Names : Reg[n] \in Registers
    /\ Registers \subseteq (0 .. 3) \X (0 .. 31)
<1>1. DOMAIN Reg = Names
  BY DEF Reg, Names
<1>2. \A n \in Names : Reg[n] \in Registers
  BY <1>1 DEF Registers
<1>3. Registers \subseteq (0 .. 3) \X (0 .. 31)
  BY DEF Registers, Reg
<1> QED
  BY <1>1, <1>2, <1>3

(* The two bits of ECON1 tell the banks apart.                               *)
LEMMA BankBitsFacts ==
    /\ \A b \in 0 .. 3 : BankBits(b) \subseteq {"BSEL0", "BSEL1"}
    /\ \A b, c \in 0 .. 3 : BankBits(b) = BankBits(c) => b = c
<1>1. ASSUME NEW b \in 0 .. 3
      PROVE  BankBits(b) = IF b = 0 THEN {} ELSE IF b = 1 THEN {"BSEL0"}
                           ELSE IF b = 2 THEN {"BSEL1"} ELSE {"BSEL0", "BSEL1"}
  BY DEF BankBits
<1>2. \A b \in 0 .. 3 : BankBits(b) \subseteq {"BSEL0", "BSEL1"}
  BY <1>1
<1>3. ASSUME NEW b \in 0 .. 3, NEW c \in 0 .. 3, BankBits(b) = BankBits(c)
      PROVE  b = c
  BY <1>1, <1>3
<1> QED
  BY <1>2, <1>3

(* A register of the selected bank, or one that all banks share, is reached. *)
LEMMA ReachedFacts ==
    ASSUME EncTypeOK, NEW r \in Registers, r[1] = bank \/ r[2] >= 27
    PROVE  Reached(r) = r
<1>1. r \in (0 .. 3) \X (0 .. 31)
  BY RegisterFacts
<1>2. CASE r[2] >= 27
  BY <1>2 DEF Reached
<1>3. CASE ~(r[2] >= 27)
  <2> DEFINE Selects(b) == BankBits(b) = econ1 \cap {"BSEL0", "BSEL1"}
  <2>1. bank \in 0 .. 3 /\ Selects(bank) /\ \A b \in 0 .. 3 : Selects(b) => b = bank
    BY BankBitsFacts DEF EncTypeOK
  <2>2. (CHOOSE b \in 0 .. 3 : Selects(b)) = bank
    <3> HIDE DEF Selects
    <3> QED
      BY <2>1
  <2>3. Reached(r) = <<bank, r[2]>>
    BY <1>3, <2>2 DEF Reached
  <2> QED
    BY <1>1, <1>3, <2>3
<1> QED
  BY <1>2, <1>3

(* A write reaches its register and no other.                                *)
LEMMA WriteFacts ==
    ASSUME EncTypeOK, NEW r \in Registers, r[1] = bank \/ r[2] >= 27, NEW v \in Int, RegWrite(r, v)
    PROVE  /\ regs' = [regs EXCEPT ![r] = v] /\ regs' \in [Registers -> Int]
           /\ regs'[r] = v /\ \A s \in Registers : s # r => regs'[s] = regs[s]
           /\ r = Reg["ERXRDPTH"] => rxEnd' = Word("ERXRDPTL", "ERXRDPTH")'
           /\ r # Reg["ERXRDPTH"] => rxEnd' = rxEnd
           /\ r \in {Reg["ERXSTL"], Reg["ERXSTH"]} => writePtr' = Word("ERXSTL", "ERXSTH")'
           /\ r \notin {Reg["ERXSTL"], Reg["ERXSTH"]} => writePtr' = writePtr
           /\ UNCHANGED <<bank, packetPtr, rxLen, uipBuf, econ1, mem, unread, txVars>>
<1>1. Reached(r) = r
  BY ReachedFacts
<1>2. regs \in [Registers -> Int]
  BY DEF EncTypeOK
<1>3. regs' = [regs EXCEPT ![r] = v]
  BY <1>1, <1>2 DEF RegWrite
<1>4. /\ regs' \in [Registers -> Int]
      /\ regs'[r] = v /\ \A s \in Registers : s # r => regs'[s] = regs[s]
  BY <1>2, <1>3
<1>5. /\ r = Reg["ERXRDPTH"] => rxEnd' = Word("ERXRDPTL", "ERXRDPTH")'
      /\ r # Reg["ERXRDPTH"] => rxEnd' = rxEnd
  BY <1>1, <1>2 DEF RegWrite, Word
<1>6. /\ r \in {Reg["ERXSTL"], Reg["ERXSTH"]} => writePtr' = Word("ERXSTL", "ERXSTH")'
      /\ r \notin {Reg["ERXSTL"], Reg["ERXSTH"]} => writePtr' = writePtr
  BY <1>1, <1>2 DEF RegWrite, Word
<1>7. UNCHANGED <<bank, packetPtr, rxLen, uipBuf, econ1, mem, unread, txVars>>
  BY DEF RegWrite, driverVars
<1> QED
  BY <1>3, <1>4, <1>5, <1>6, <1>7

-----------------------------------------------------------------------------
(* The programs                                                              *)

(* The first transaction that is left, and the others.                       *)
LEMMA RestFacts ==
    ASSUME NEW S, NEW P \in Seq(S), NEW k \in 1 .. Len(P)
    PROVE  /\ Rest(P, k) # <<>> /\ Head(Rest(P, k)) = P[k]
           /\ Tail(Rest(P, k)) = IF k = Len(P) THEN <<>> ELSE Rest(P, k + 1)
<1>1. Len(P) \in Nat /\ k \in Nat /\ k <= Len(P)
  BY LenProperties
<1>2. Len(P) \in k .. Len(P)
  BY <1>1
<1>3. Head(Rest(P, k)) = P[k] /\ Tail(Rest(P, k)) = Rest(P, k + 1)
  BY <1>2, HeadTailOfSubSeq DEF Rest
<1>4. k = Len(P) => Rest(P, k + 1) = <<>>
  BY <1>1, SubSeqEmpty DEF Rest
<1>5. \A i \in k .. Len(P) : P[i] \in S
  BY <1>1, ElementOfSeq
<1>6. Rest(P, k) \in Seq(S) /\ Len(Rest(P, k)) = Len(P) - k + 1
  BY <1>1, <1>5, SubSeqProperties DEF Rest
<1>7. Rest(P, k) # <<>>
  BY <1>1, <1>6, EmptySeq
<1> QED
  BY <1>3, <1>4, <1>7

Steps(P) == {P[i] : i \in DOMAIN P}

(* The transactions of enc28j60_init and network_init, one by one.           *)
LEMMA InitProgram ==
    /\ NetworkInit \in Seq(Steps(NetworkInit)) /\ Len(NetworkInit) = 29
    /\ NetworkInit[1] = Read("ESTAT")
    /\ NetworkInit[2] = Write("ERXSTL", Low(RxStart)) /\ NetworkInit[3] = Write("ERXSTH", High(RxStart))
    /\ NetworkInit[4] = Write("ERXRDPTL", Low(RxStart)) /\ NetworkInit[5] = Write("ERXRDPTH", High(RxStart))
    /\ NetworkInit[6] = Write("ERXNDL", Low(RxStop)) /\ NetworkInit[7] = Write("ERXNDH", High(RxStop))
    /\ NetworkInit[8] = Write("ETXSTL", Low(TxStart)) /\ NetworkInit[9] = Write("ETXSTH", High(TxStart))
    /\ NetworkInit[10] = Write("MACON1", 1) /\ NetworkInit[11] = Write("MACON2", 0)
    /\ NetworkInit[12] = Bits("set", "MACON3", 1)
    /\ NetworkInit[13] = Write("MAIPGL", 1) /\ NetworkInit[14] = Write("MAIPGH", 1)
    /\ NetworkInit[15] = Write("MABBIPG", 1)
    /\ NetworkInit[16] = Write("MAMXFLL", 1) /\ NetworkInit[17] = Write("MAMXFLH", 1)
    /\ NetworkInit[18] = Write("MAADR", 1)
    /\ NetworkInit[19] = Write("MIREGADR", 1) /\ NetworkInit[20] = Write("MIWRL", 1)
    /\ NetworkInit[21] = Write("MIWRH", 0) /\ NetworkInit[22] = Read("MISTAT")
    /\ NetworkInit[23] = Bits("bank", "ECON1", 0)
    /\ NetworkInit[24] = Bits("set", "EIE", 1) /\ NetworkInit[25] = Bits("set", "ECON1", {"RXEN"})
    /\ NetworkInit[26] = Write("MIREGADR", 2) /\ NetworkInit[27] = Write("MIWRL", 1)
    /\ NetworkInit[28] = Write("MIWRH", 0) /\ NetworkInit[29] = Read("MISTAT")
  BY DEF NetworkInit, WriteWord, PhyWrite, Steps

(* The transactions of packet_receive.                                       *)
LEMMA ReceiveProgram ==
    /\ PacketReceive \in Seq(Steps(PacketReceive)) /\ Len(PacketReceive) = 13
    /\ PacketReceive[1] = Read("EPKTCNT")
    /\ PacketReceive[2] = Pointer("low", "ERDPTL") /\ PacketReceive[3] = Pointer("high", "ERDPTH")
    /\ PacketReceive[4] = Get("nextLow") /\ PacketReceive[5] = Get("nextHigh")
    /\ PacketReceive[6] = Get("lenLow") /\ PacketReceive[7] = Get("lenHigh")
    /\ PacketReceive[8] = Get("stat") /\ PacketReceive[9] = Get("stat")
    /\ PacketReceive[10] = Get("copy")
    /\ PacketReceive[11] = Pointer("low", "ERXRDPTL") /\ PacketReceive[12] = Pointer("high", "ERXRDPTH")
    /\ PacketReceive[13] = Bits("set", "ECON2", "PKTDEC")
  BY DEF PacketReceive, OpenFrame, FreeFrame, CountFrame, Steps

(* The transactions of packet_send.                                          *)
LEMMA SendProgram ==
    ASSUME NEW f \in TxFrames
    PROVE  LET P == PacketSend(f)
           IN /\ P \in Seq(Steps(P))
              /\ Len(P) = IF Len(f) <= HeadLen THEN 9 ELSE 10
              /\ P[1] = Bits("set", "ECON1", {"TXRST"}) /\ P[2] = Bits("clr", "ECON1", {"TXRST"})
              /\ P[3] = Write("EWRPTL", Low(TxStart)) /\ P[4] = Write("EWRPTH", High(TxStart))
              /\ P[5] = Write("ETXNDL", Low(TxStart + Len(f)))
              /\ P[6] = Write("ETXNDH", High(TxStart + Len(f)))
              /\ P[7] = Put(<<0>>)
              /\ P[8] = Put(Parts(f)[1])
              /\ Len(f) > HeadLen => P[9] = Put(Parts(f)[2])
              /\ P[Len(P)] = Bits("set", "ECON1", {"TXRTS"})
              /\ DOMAIN P = 1 .. Len(P)
<1> DEFINE puts == [i \in DOMAIN Parts(f) |-> Put(Parts(f)[i])]
           a == Put(Parts(f)[1])
           b == Put(Parts(f)[2])
<1>1. PacketSend(f) = StopTransmitter \o (WriteWord("EWRPTL", "EWRPTH", TxStart)
                        \o WriteWord("ETXNDL", "ETXNDH", TxStart + Len(f)) \o <<Put(<<0>>)>> \o puts
                        \o <<Bits("set", "ECON1", {"TXRTS"})>>)
  BY DEF PacketSend, LoadFrame
<1>2. CASE Len(f) <= HeadLen
  <2>1. puts = <<a>>
    BY <1>2 DEF Parts
  <2> HIDE DEF puts, a
  <2>2. PacketSend(f) = StopTransmitter \o (WriteWord("EWRPTL", "EWRPTH", TxStart)
                          \o WriteWord("ETXNDL", "ETXNDH", TxStart + Len(f)) \o <<Put(<<0>>)>> \o <<a>>
                          \o <<Bits("set", "ECON1", {"TXRTS"})>>)
    BY <1>1, <2>1
  <2>3. ~(Len(f) > HeadLen)
    BY <1>2, EncAssumption DEF EncAssumption
  <2> QED
    BY <1>2, <2>2, <2>3 DEF StopTransmitter, WriteWord, Steps, a
<1>3. CASE ~(Len(f) <= HeadLen)
  <2>1. puts = <<a, b>>
    <3>1. DOMAIN Parts(f) = 1 .. 2
      BY <1>3 DEF Parts
    <3>2. puts = [i \in 1 .. 2 |-> Put(Parts(f)[i])]
      BY <3>1
    <3>3. /\ DOMAIN puts = 1 .. 2 /\ puts[1] = a /\ puts[2] = b
          /\ puts = [i \in DOMAIN puts |-> puts[i]]
      BY <3>2
    <3> HIDE DEF puts, a, b
    <3> QED
      BY <3>3
  <2> HIDE DEF puts, a, b
  <2>2. PacketSend(f) = StopTransmitter \o (WriteWord("EWRPTL", "EWRPTH", TxStart)
                          \o WriteWord("ETXNDL", "ETXNDH", TxStart + Len(f)) \o <<Put(<<0>>)>> \o <<a, b>>
                          \o <<Bits("set", "ECON1", {"TXRTS"})>>)
    BY <1>1, <2>1
  <2> QED
    BY <1>3, <2>2 DEF StopTransmitter, WriteWord, Steps, a, b
<1> QED
  BY <1>2, <1>3

-----------------------------------------------------------------------------
(* What a step leaves alone.                                                 *)

ConfigNames == {"ERXSTL", "ERXSTH", "ERXNDL", "ERXNDH", "ETXSTL", "ETXSTH", "MACON1", "MACON2",
                "MACON3", "MABBIPG", "MAIPGL", "MAIPGH", "MAMXFLL", "MAMXFLH", "MAADR", "EIE",
                "MIREGADR", "MIWRL"}

(* The configuration outlives a write elsewhere.                             *)
LEMMA ConfiguredKept ==
    ASSUME Configured, "RXEN" \in econ1, \A n \in ConfigNames : regs'[Reg[n]] = regs[Reg[n]]
    PROVE  Configured'
  BY DEF Configured, ConfigNames, Word

(* What leaves the receive ring to the chip does not touch the transmitter.  *)
LEMMA TxKept ==
    ASSUME TxInv, UNCHANGED txVars,
           regs'[Reg["ETXNDL"]] = regs[Reg["ETXNDL"]], regs'[Reg["ETXNDH"]] = regs[Reg["ETXNDH"]],
           \A a \in TxStart .. RxStart - 1 : mem'[a] = mem[a]
    PROVE  TxInv'
<1> SUFFICES ASSUME txPos > 0
             PROVE  TxInv'
  BY DEF TxInv, txVars
<1>1. handed \in TxFrames /\ Loaded(mem, handed, Len(handed))
  BY DEF TxInv
<1>2. Len(handed) \in Nat /\ TxStart + Len(handed) < RxStart /\ TxStart \in Nat /\ RxStart \in Nat
  BY <1>1, EncAssumption DEF EncAssumption
<1>3. Loaded(mem', handed, Len(handed))
  <2>1. SUFFICES ASSUME NEW i \in 1 .. Len(handed)
                 PROVE  mem'[TxStart + i] = mem[TxStart + i]
    BY <1>1 DEF Loaded
  <2>2. TxStart + i \in TxStart .. RxStart - 1
    BY <1>2
  <2> QED
    BY <2>2
<1> QED
  BY <1>3 DEF TxInv, Word, txVars

\* What the phases of a call speak of, the selected bank apart.
Described == <<ops, packetPtr, rxLen, uipBuf, regs, mem, rxEnd, writePtr, unread>>

(* A call stays where it is while what its phases speak of stays.            *)
LEMMA ProgressKept ==
    ASSUME Progress, UNCHANGED Described, "RXEN" \in econ1' <=> "RXEN" \in econ1,
           txPos = 0 => txPos' = 0,
           bank' = bank \/ ops # Rest(NetworkInit, 12)
    PROVE  Progress'
<1>1. Ready => Ready'
  BY DEF Ready, Configured, Word, Described
<1>2. Resting => Resting'
  BY DEF Resting, RingHolds, Described
<1>3. \A k : Starting(k) => Starting(k)'
  BY DEF Starting, Written, Described
<1>4. \A k : Finishing(k) => Finishing(k)'
  BY <1>1, <1>2 DEF Finishing, Described
<1>5. Idle => Idle'
  BY <1>1, <1>2 DEF Idle, Described
<1>6. \A k : Receiving(k) => Receiving(k)'
  BY <1>1 DEF Receiving, RingHolds, First, Following, Word, Described
<1>7. \A f, k : Sending(f, k) => Sending(f, k)'
  BY <1>1, <1>2 DEF Sending, Word, Described
<1> QED
  BY <1>3, <1>4, <1>5, <1>6, <1>7 DEF Progress

(* The next transaction of a call.                                           *)
LEMMA SpiHead ==
    ASSUME Spi, NEW S, NEW P \in Seq(S), NEW k \in 1 .. Len(P), ops = Rest(P, k)
    PROVE  \/ WrongBank(P[k]) /\ BankSet(P[k].reg[1])
           \/ /\ ~WrongBank(P[k]) /\ Transaction(P[k])
              /\ ops' = IF P[k].reg = Reg["EPKTCNT"] /\ NoneReceived THEN <<>>
                        ELSE IF k = Len(P) THEN <<>> ELSE Rest(P, k + 1)
  BY RestFacts DEF Spi

(* Selecting a bank changes nothing else.                                    *)
LEMMA BankStep ==
    ASSUME EncInv, NEW r \in Registers, BankSet(r[1]), ops # Rest(NetworkInit, 12)
    PROVE  EncInv'
<1>1. r[1] \in 0 .. 3
  BY RegisterFacts
<1> DEFINE b == r[1]
<1> HIDE DEF b
<1>2. b \in 0 .. 3 /\ BankSet(b)
  BY <1>1 DEF b
<1>3. /\ UNCHANGED Described /\ UNCHANGED txVars
      /\ bank' = b /\ econ1' = (econ1 \ {"BSEL0", "BSEL1"}) \cup BankBits(b)
  BY <1>2 DEF BankSet, Described, rxVars, txVars
<1>4. /\ "RXEN" \in econ1' <=> "RXEN" \in econ1
      /\ "TXRTS" \in econ1' <=> "TXRTS" \in econ1
      /\ econ1' \cap {"BSEL0", "BSEL1"} = BankBits(b)
  BY <1>2, <1>3, BankBitsFacts
<1>5. EncTypeOK'
  BY <1>2, <1>3, <1>4 DEF EncInv, EncTypeOK, Described, txVars
<1>6. TxInv'
  BY <1>3, TxKept DEF EncInv, Described
<1>7. Progress'
  BY <1>3, <1>4, ProgressKept DEF EncInv, txVars
<1> QED
  BY <1>5, <1>6, <1>7 DEF EncInv

-----------------------------------------------------------------------------
(* enc28j60_init                                                             *)

(* The beginning of enc28j60_init.                                           *)
LEMMA InitEnc == EncInit => EncInv
<1> SUFFICES ASSUME EncInit PROVE EncInv
  OBVIOUS
<1>1. EncTypeOK
  <2>1. BankBits(0) = {}
    BY DEF BankBits
  <2>2. RxStart \in Nat /\ RxStop \in Nat /\ TxStart \in Nat
    BY EncAssumption DEF EncAssumption
  <2>3. unread \in Seq(Entries)
    BY EmptySeq DEF EncInit
  <2>4. regs \in [Registers -> Int] /\ mem \in Memories
    BY DEF EncInit, Registers, Memories
  <2> QED
    BY <2>1, <2>2, <2>3, <2>4 DEF EncInit, EncTypeOK
<1>2. Starting(1)
  <2>1. Rest(NetworkInit, 1) = NetworkInit
    BY InitProgram, SubSeqFull DEF Rest
  <2>2. Written(1)
    BY DEF Written
  <2>3. regs[Reg["EPKTCNT"]] = 0
    <3>1. Reg["EPKTCNT"] \in Registers
      BY RegisterFacts DEF Names
    <3> QED
      BY <3>1 DEF EncInit, Registers
  <2> QED
    BY <2>1, <2>2, <2>3 DEF EncInit, Starting
<1>3. TxInv
  BY DEF EncInit, TxInv
<1> QED
  BY <1>1, <1>2, <1>3 DEF EncInv, Progress

\* The k-th transaction of enc28j60_init, before reception is switched on.
StartOp(k, o) ==
    /\ o.reg \in Registers /\ o.reg # Reg["EPKTCNT"]
    /\ \/ o.op = "write" /\ o.val \in Int
       \/ o.op \in {"read", "bank"}
       \/ o.op = "set" /\ o.reg \in {Reg["EIE"], Reg["MACON3"]} /\ o.val \in Int
    /\ o.op = "set" => o.reg = Reg["EIE"] \/ k = 12
    /\ o.reg = Reg["ERXRDPTH"] <=> k = 5
    /\ o.reg \in {Reg["ERXSTL"], Reg["ERXSTH"]} <=> k \in {2, 3}

(* What the transactions up to the start of reception are.                   *)
LEMMA StartingOps == \A k \in 1 .. 24 : StartOp(k, NetworkInit[k])
<1>1. /\ Low(RxStart) \in Int /\ High(RxStart) \in Int /\ Low(RxStop) \in Int /\ High(RxStop) \in Int
      /\ Low(TxStart) \in Int /\ High(TxStart) \in Int
  <2>1. RxStart \in Nat /\ RxStop \in Nat /\ TxStart \in Nat
    BY EncAssumption DEF EncAssumption
  <2>2. \A n \in Nat : Low(n) \in Int /\ High(n) \in Int
    BY WordHalves
  <2> QED
    BY <2>1, <2>2
<1>2. \A n \in Names, v \in Int, k \in {10, 11, 13, 14, 15, 16, 17, 18, 19, 20, 21, 6, 7, 8, 9} :
         n \notin {"EPKTCNT", "ERXRDPTH", "ERXSTL", "ERXSTH"} => StartOp(k, Write(n, v))
  BY RegFacts, RegisterFacts DEF Write, Names, StartOp
<1>3. /\ StartOp(2, Write("ERXSTL", Low(RxStart))) /\ StartOp(3, Write("ERXSTH", High(RxStart)))
      /\ StartOp(4, Write("ERXRDPTL", Low(RxStart))) /\ StartOp(5, Write("ERXRDPTH", High(RxStart)))
  <2>1. /\ Reg["ERXSTL"] \in Registers /\ Reg["ERXSTH"] \in Registers
        /\ Reg["ERXRDPTL"] \in Registers /\ Reg["ERXRDPTH"] \in Registers
    BY RegisterFacts DEF Names
  <2>2. \A v \in Int : StartOp(2, Write("ERXSTL", v))
    BY <2>1, RegFacts DEF Write, StartOp
  <2>3. \A v \in Int : StartOp(3, Write("ERXSTH", v))
    BY <2>1, RegFacts DEF Write, StartOp
  <2>4. \A v \in Int : StartOp(4, Write("ERXRDPTL", v))
    BY <2>1, RegFacts DEF Write, StartOp
  <2>5. \A v \in Int : StartOp(5, Write("ERXRDPTH", v))
    BY <2>1, RegFacts DEF Write, StartOp
  <2> QED
    BY <1>1, <2>2, <2>3, <2>4, <2>5
<1>4. /\ StartOp(1, Read("ESTAT")) /\ StartOp(22, Read("MISTAT")) /\ StartOp(23, Bits("bank", "ECON1", 0))
      /\ StartOp(12, Bits("set", "MACON3", 1)) /\ StartOp(24, Bits("set", "EIE", 1))
  <2>1. /\ Reg["ESTAT"] \in Registers /\ Reg["MISTAT"] \in Registers /\ Reg["ECON1"] \in Registers
        /\ Reg["MACON3"] \in Registers /\ Reg["EIE"] \in Registers
    BY RegisterFacts DEF Names
  <2>2. StartOp(1, Read("ESTAT"))
    BY <2>1, RegFacts DEF Read, StartOp
  <2>3. StartOp(22, Read("MISTAT"))
    BY <2>1, RegFacts DEF Read, StartOp
  <2>4. StartOp(23, Bits("bank", "ECON1", 0))
    BY <2>1, RegFacts DEF Bits, StartOp
  <2>5. StartOp(12, Bits("set", "MACON3", 1))
    BY <2>1, RegFacts DEF Bits, StartOp
  <2>6. StartOp(24, Bits("set", "EIE", 1))
    BY <2>1, RegFacts DEF Bits, StartOp
  <2> QED
    BY <2>2, <2>3, <2>4, <2>5, <2>6
<1>5. /\ StartOp(6, Write("ERXNDL", Low(RxStop))) /\ StartOp(7, Write("ERXNDH", High(RxStop)))
      /\ StartOp(8, Write("ETXSTL", Low(TxStart))) /\ StartOp(9, Write("ETXSTH", High(TxStart)))
      /\ StartOp(10, Write("MACON1", 1)) /\ StartOp(11, Write("MACON2", 0))
      /\ StartOp(13, Write("MAIPGL", 1)) /\ StartOp(14, Write("MAIPGH", 1)) /\ StartOp(15, Write("MABBIPG", 1))
      /\ StartOp(16, Write("MAMXFLL", 1)) /\ StartOp(17, Write("MAMXFLH", 1)) /\ StartOp(18, Write("MAADR", 1))
      /\ StartOp(19, Write("MIREGADR", 1)) /\ StartOp(20, Write("MIWRL", 1)) /\ StartOp(21, Write("MIWRH", 0))
  <2> QED
    BY <1>1, <1>2 DEF Names
<1>6. ASSUME NEW k \in 1 .. 24
      PROVE  StartOp(k, NetworkInit[k])
  <2>1. \/ k = 1 \/ k = 2 \/ k = 3 \/ k = 4 \/ k = 5 \/ k = 6 \/ k = 7 \/ k = 8 \/ k = 9
        \/ k = 10 \/ k = 11 \/ k = 12 \/ k = 13 \/ k = 14 \/ k = 15 \/ k = 16 \/ k = 17
        \/ k = 18 \/ k = 19 \/ k = 20 \/ k = 21 \/ k = 22 \/ k = 23 \/ k = 24
    OBVIOUS
  <2>2. CASE k \in {1, 12, 22, 23, 24}
    BY <1>4, <2>2, InitProgram
  <2>3. CASE k = 2 \/ k = 3 \/ k = 4 \/ k = 5
    BY <1>3, <2>3, InitProgram
  <2>4. CASE k = 6 \/ k = 7 \/ k = 8
    BY <1>5, <2>4, InitProgram
  <2>5. CASE k = 9 \/ k = 10 \/ k = 11
    BY <1>5, <2>5, InitProgram
  <2>6. CASE k = 13 \/ k = 14 \/ k = 15
    BY <1>5, <2>6, InitProgram
  <2>7. CASE k = 16 \/ k = 17 \/ k = 18
    BY <1>5, <2>7, InitProgram
  <2>8. CASE k = 19 \/ k = 20 \/ k = 21
    BY <1>5, <2>8, InitProgram
  <2> QED
    BY <2>1, <2>2, <2>3, <2>4, <2>5, <2>6, <2>7, <2>8
<1> QED
  BY <1>6

(* What a transaction does, kind by kind.                                    *)
LEMMA Kinds ==
    ASSUME NEW o, Transaction(o)
    PROVE  /\ o.op = "write" => RegWrite(o.reg, o.val)
           /\ o.op = "low" => RegWrite(o.reg, Low(packetPtr))
           /\ o.op = "high" => RegWrite(o.reg, High(packetPtr))
           /\ o.op = "set" /\ o.reg = Reg["ECON1"] => Econ1Set(o.val)
           /\ o.op = "set" /\ o.reg = Reg["ECON2"] => PktDec
           /\ o.op = "set" /\ o.reg \in {Reg["EIE"], Reg["MACON3"]} => RegWrite(o.reg, o.val)
           /\ o.op = "clr" => econ1' = econ1 \ o.val /\ UNCHANGED <<driverVars, regs, mem, rxVars, txVars>>
           /\ o.op = "put" => BufferWrite(o.val)
           /\ o.op \in {"read", "bank"} => UNCHANGED <<driverVars, econ1, regs, mem, rxVars, txVars>>
           /\ o.op \in {"nextLow", "nextHigh", "lenLow", "lenHigh", "stat", "copy"} => BufferRead(o.op)
<1>1. /\ Reg["ECON2"] # Reg["ECON1"] /\ Reg["EIE"] # Reg["ECON1"] /\ Reg["MACON3"] # Reg["ECON1"]
      /\ Reg["EIE"] # Reg["ECON2"] /\ Reg["MACON3"] # Reg["ECON2"]
  BY RegFacts
<1>2. o.op = "write" => RegWrite(o.reg, o.val)
  BY DEF Transaction
<1>3. o.op = "low" => RegWrite(o.reg, Low(packetPtr))
  BY DEF Transaction
<1>4. o.op = "high" => RegWrite(o.reg, High(packetPtr))
  BY DEF Transaction
<1>5. o.op = "set" /\ o.reg = Reg["ECON1"] => Econ1Set(o.val)
  BY <1>1 DEF Transaction
<1>6. o.op = "set" /\ o.reg = Reg["ECON2"] => PktDec
  BY <1>1 DEF Transaction
<1>7. o.op = "set" /\ o.reg \in {Reg["EIE"], Reg["MACON3"]} => RegWrite(o.reg, o.val)
  BY <1>1 DEF Transaction
<1>8. o.op = "clr" => econ1' = econ1 \ o.val /\ UNCHANGED <<driverVars, regs, mem, rxVars, txVars>>
  BY DEF Transaction
<1>9. o.op = "put" => BufferWrite(o.val)
  BY DEF Transaction
<1>10. o.op \in {"read", "bank"} => UNCHANGED <<driverVars, econ1, regs, mem, rxVars, txVars>>
  BY DEF Transaction
<1>11. o.op \in {"nextLow", "nextHigh", "lenLow", "lenHigh", "stat", "copy"} => BufferRead(o.op)
  BY DEF Transaction
<1> QED
  BY <1>2, <1>3, <1>4, <1>5, <1>6, <1>7, <1>8, <1>9, <1>10, <1>11

(* A write of a register that the phases before the first frame do not use.  *)
LEMMA TypeKept ==
    ASSUME EncTypeOK, regs' \in [Registers -> Int],
           UNCHANGED <<bank, packetPtr, rxLen, econ1, mem, unread, txPos>>
    PROVE  EncTypeOK'
  BY DEF EncTypeOK

(* A transaction of enc28j60_init before reception is on.                    *)
LEMMA StartingStep ==
    ASSUME EncInv, Spi, NEW k \in 1 .. 24, Starting(k)
    PROVE  EncInv'
<1> DEFINE o == NetworkInit[k]
<1>1. ops = Rest(NetworkInit, k) /\ StartOp(k, o)
  BY StartingOps DEF Starting
<1>2. /\ NetworkInit \in Seq(Steps(NetworkInit)) /\ Len(NetworkInit) = 29
      /\ k \in 1 .. Len(NetworkInit) /\ k # Len(NetworkInit)
  <2>1. NetworkInit \in Seq(Steps(NetworkInit)) /\ Len(NetworkInit) = 29
    BY InitProgram
  <2>2. k \in 1 .. 29 /\ k # 29
    OBVIOUS
  <2> QED
    BY <2>1, <2>2
<1>3. ~WrongBank(NetworkInit[12])
  <2>1. NetworkInit[12] = Bits("set", "MACON3", 1)
    BY InitProgram
  <2> QED
    BY <2>1 DEF WrongBank, Bits
<1> HIDE DEF o
<1>4. CASE WrongBank(o) /\ BankSet(o.reg[1])
  <2>1. ops # Rest(NetworkInit, 12)
    <3>1. SUFFICES ASSUME ops = Rest(NetworkInit, 12) PROVE FALSE
      OBVIOUS
    <3>2. Head(ops) = o
      BY <1>1, <1>2, RestFacts DEF o
    <3>3. 12 \in 1 .. Len(NetworkInit)
      BY <1>2
    <3>4. Head(ops) = NetworkInit[12]
      BY <1>2, <3>1, <3>3, RestFacts
    <3> QED
      BY <1>3, <1>4, <3>2, <3>4
  <2> QED
    BY <1>1, <1>4, <2>1, BankStep DEF StartOp
<1>5. CASE ~WrongBank(o) /\ Transaction(o) /\ ops' = Rest(NetworkInit, k + 1)
  <2>1. EncTypeOK /\ TxInv /\ Starting(k) /\ regs \in [Registers -> Int]
    BY DEF EncInv, EncTypeOK
  <2>2. k \in Int /\ 1 <= k /\ k <= 24 /\ k + 1 \in 1 .. 25
    OBVIOUS
  <2>3. CASE o.op \in {"read", "bank"}
    <3>1. UNCHANGED <<driverVars, econ1, regs, mem, rxVars, txVars>>
      BY <1>5, <2>3 DEF Transaction
    <3>2. ~Writes(o) /\ k # 11 /\ k # 3 /\ k # 5
      <4>1. ~Writes(o)
        BY <2>3 DEF Writes
      <4>2. /\ NetworkInit[11] = Write("MACON2", 0) /\ NetworkInit[3] = Write("ERXSTH", High(RxStart))
            /\ NetworkInit[5] = Write("ERXRDPTH", High(RxStart))
        BY InitProgram
      <4>3. \A n, v : Writes(Write(n, v))
        BY DEF Writes, Write
      <4> QED
        BY <4>1, <4>2, <4>3 DEF o
    <3>3. Written(k + 1)'
      <4>1. SUFFICES ASSUME NEW j \in 1 .. k, Writes(NetworkInit[j]),
                            \A i \in j + 1 .. k : NetworkInit[i].reg # NetworkInit[j].reg
                     PROVE  regs[NetworkInit[j].reg] = NetworkInit[j].val
        BY <2>2, <3>1 DEF Written
      <4>2. j # k
        BY <3>2, <4>1 DEF o
      <4>3. j \in 1 .. k - 1 /\ \A i \in j + 1 .. k - 1 : NetworkInit[i].reg # NetworkInit[j].reg
        BY <2>2, <4>1, <4>2
      <4> QED
        BY <2>1, <4>1, <4>3 DEF Starting, Written
    <3>4. Starting(k + 1)'
      BY <1>5, <2>1, <2>2, <3>1, <3>2, <3>3 DEF Starting, driverVars, rxVars, txVars
    <3>5. EncTypeOK'
      BY <2>1, <3>1, TypeKept DEF driverVars, rxVars, txVars
    <3>6. TxInv'
      BY <2>1, <3>1, TxKept
    <3> QED
      BY <2>2, <3>4, <3>5, <3>6 DEF EncInv, Progress
  <2>4. CASE o.op \notin {"read", "bank"}
    <3>1. o.val \in Int /\ Writes(o) /\ o.reg \in Registers /\ o.reg # Reg["EPKTCNT"]
      <4>1. Reg["EIE"] # Reg["ECON1"] /\ Reg["MACON3"] # Reg["ECON1"]
        BY RegFacts
      <4> QED
        BY <1>1, <2>4, <4>1 DEF StartOp, Writes
    <3>2. RegWrite(o.reg, o.val)
      <4>1. /\ Reg["EIE"] # Reg["ECON1"] /\ Reg["MACON3"] # Reg["ECON1"]
            /\ Reg["EIE"] # Reg["ECON2"] /\ Reg["MACON3"] # Reg["ECON2"]
        BY RegFacts
      <4>2. CASE o.op = "write"
        BY <1>5, <4>2 DEF Transaction
      <4>3. CASE o.op = "set" /\ o.reg \in {Reg["EIE"], Reg["MACON3"]}
        BY <1>5, <4>1, <4>3 DEF Transaction
      <4> QED
        BY <1>1, <2>4, <4>2, <4>3 DEF StartOp
    <3>3. o.reg[1] = bank \/ o.reg[2] >= 27
      <4>1. CASE o.op = "write"
        BY <1>5, <4>1 DEF WrongBank
      <4>2. CASE o.op = "set" /\ o.reg = Reg["EIE"]
        BY <4>2, RegFacts
      <4>3. CASE k = 12
        <5>1. o.reg = Reg["MACON3"] /\ bank = 2
          BY <2>1, <4>3, InitProgram DEF Starting, Bits, o
        <5> QED
          BY <5>1, RegFacts
      <4> QED
        BY <1>1, <2>4, <4>1, <4>2, <4>3 DEF StartOp
    <3>4. /\ regs' \in [Registers -> Int]
          /\ regs'[o.reg] = o.val /\ \A s \in Registers : s # o.reg => regs'[s] = regs[s]
          /\ o.reg = Reg["ERXRDPTH"] => rxEnd' = Word("ERXRDPTL", "ERXRDPTH")'
          /\ o.reg # Reg["ERXRDPTH"] => rxEnd' = rxEnd
          /\ o.reg \in {Reg["ERXSTL"], Reg["ERXSTH"]} => writePtr' = Word("ERXSTL", "ERXSTH")'
          /\ o.reg \notin {Reg["ERXSTL"], Reg["ERXSTH"]} => writePtr' = writePtr
          /\ UNCHANGED <<bank, packetPtr, rxLen, uipBuf, econ1, mem, unread, txVars>>
      BY <2>1, <3>1, <3>2, <3>3, WriteFacts
    <3>5. Written(k + 1)'
      <4>1. SUFFICES ASSUME NEW j \in 1 .. k, Writes(NetworkInit[j]),
                            \A i \in j + 1 .. k : NetworkInit[i].reg # NetworkInit[j].reg
                     PROVE  regs'[NetworkInit[j].reg] = NetworkInit[j].val
        BY <2>2 DEF Written
      <4>2. CASE j = k
        BY <3>4, <4>2 DEF o
      <4>3. CASE j # k
        <5>1. j \in 1 .. 24 /\ j \in 1 .. k - 1 /\ k \in j + 1 .. k
          BY <2>2, <4>3
        <5>2. NetworkInit[j].reg \in Registers /\ NetworkInit[j].reg # o.reg
          BY <4>1, <5>1, StartingOps DEF StartOp, o
        <5>3. regs[NetworkInit[j].reg] = NetworkInit[j].val
          <6>1. \A i \in j + 1 .. k - 1 : NetworkInit[i].reg # NetworkInit[j].reg
            BY <2>2, <4>1
          <6> QED
            BY <2>1, <4>1, <5>1, <6>1 DEF Starting, Written
        <5> QED
          BY <3>4, <5>2, <5>3
      <4> QED
        BY <4>2, <4>3
    <3>6. RxStart \in Nat /\ Low(RxStart) + Base * High(RxStart) = RxStart
      BY RingFacts, WordHalves
    <3>7. k + 1 > 3 => writePtr' = RxStart
      <4>1. CASE k = 3
        <5>1. Written(4)'
          BY <3>5, <4>1
        <5>2. /\ NetworkInit[2] = Write("ERXSTL", Low(RxStart))
              /\ NetworkInit[3] = Write("ERXSTH", High(RxStart))
          BY InitProgram
        <5>3. /\ Writes(NetworkInit[2]) /\ Writes(NetworkInit[3])
              /\ NetworkInit[2].reg = Reg["ERXSTL"] /\ NetworkInit[3].reg = Reg["ERXSTH"]
              /\ NetworkInit[2].val = Low(RxStart) /\ NetworkInit[3].val = High(RxStart)
              /\ Reg["ERXSTL"] # Reg["ERXSTH"]
          BY <5>2, RegFacts DEF Writes, Write
        <5>4. 2 \in 1 .. 4 - 1 /\ 3 \in 1 .. 4 - 1 /\ (\A i \in 2 + 1 .. 4 - 1 : i = 3)
              /\ \A i \in 3 + 1 .. 4 - 1 : FALSE
          OBVIOUS
        <5>5. regs'[Reg["ERXSTL"]] = Low(RxStart) /\ regs'[Reg["ERXSTH"]] = High(RxStart)
          BY <5>1, <5>3, <5>4 DEF Written
        <5>6. o.reg = Reg["ERXSTH"]
          BY <4>1, <5>3 DEF o
        <5> QED
          BY <3>4, <3>6, <5>5, <5>6 DEF Word
      <4>2. CASE k > 3
        BY <1>1, <2>1, <2>2, <3>4, <4>2 DEF Starting, StartOp
      <4> QED
        BY <2>2, <4>1, <4>2
    <3>8. k + 1 > 5 => rxEnd' = RxStart
      <4>1. CASE k = 5
        <5>1. Written(6)'
          BY <3>5, <4>1
        <5>2. /\ NetworkInit[4] = Write("ERXRDPTL", Low(RxStart))
              /\ NetworkInit[5] = Write("ERXRDPTH", High(RxStart))
          BY InitProgram
        <5>3. /\ Writes(NetworkInit[4]) /\ Writes(NetworkInit[5])
              /\ NetworkInit[4].reg = Reg["ERXRDPTL"] /\ NetworkInit[5].reg = Reg["ERXRDPTH"]
              /\ NetworkInit[4].val = Low(RxStart) /\ NetworkInit[5].val = High(RxStart)
              /\ Reg["ERXRDPTL"] # Reg["ERXRDPTH"]
          BY <5>2, RegFacts DEF Writes, Write
        <5>4. 4 \in 1 .. 6 - 1 /\ 5 \in 1 .. 6 - 1 /\ (\A i \in 4 + 1 .. 6 - 1 : i = 5)
              /\ \A i \in 5 + 1 .. 6 - 1 : FALSE
          OBVIOUS
        <5>5. regs'[Reg["ERXRDPTL"]] = Low(RxStart) /\ regs'[Reg["ERXRDPTH"]] = High(RxStart)
          BY <5>1, <5>3, <5>4 DEF Written
        <5>6. o.reg = Reg["ERXRDPTH"]
          BY <4>1, <5>3 DEF o
        <5> QED
          BY <3>4, <3>6, <5>5, <5>6 DEF Word
      <4>2. CASE k > 5
        BY <1>1, <2>1, <2>2, <3>4, <4>2 DEF Starting, StartOp
      <4> QED
        BY <2>2, <4>1, <4>2
    <3>9. k + 1 = 12 => bank' = 2
      <4> SUFFICES ASSUME k = 11 PROVE bank' = 2
        BY <2>2
      <4>1. o = Write("MACON2", 0)
        BY InitProgram DEF o
      <4>2. o.op = "write" /\ o.reg = Reg["MACON2"]
        BY <4>1 DEF Write
      <4>3. o.reg[1] = bank
        BY <1>5, <4>2 DEF WrongBank
      <4> QED
        BY <3>4, <4>2, <4>3, RegFacts
    <3>10. regs'[Reg["EPKTCNT"]] = 0
      <4>1. Reg["EPKTCNT"] \in Registers
        BY RegisterFacts DEF Names
      <4> QED
        BY <2>1, <3>1, <3>4, <4>1 DEF Starting
    <3>11. Starting(k + 1)'
      BY <1>5, <2>1, <3>4, <3>5, <3>7, <3>8, <3>9, <3>10 DEF Starting, txVars
    <3>12. EncTypeOK'
      BY <2>1, <3>4, TypeKept DEF txVars
    <3>13. TxInv'
      BY <2>1, <3>4 DEF TxInv, Starting, txVars
    <3> QED
      BY <2>2, <3>11, <3>12, <3>13 DEF EncInv, Progress
  <2> QED
    BY <2>3, <2>4
<1> QED
  BY <1>1, <1>2, <1>4, <1>5, SpiHead DEF StartOp, o

(* Until reception is switched on no register is written twice.              *)
LEMMA StartRegs == \A i, j \in 1 .. 24 : NetworkInit[i].reg = NetworkInit[j].reg => i = j
<1> DEFINE Code(r) == (32 * r[1]) + r[2]
           c(i) == Code(NetworkInit[i].reg)
<1>1. /\ NetworkInit[1].reg = Reg["ESTAT"] /\ NetworkInit[2].reg = Reg["ERXSTL"]
      /\ NetworkInit[3].reg = Reg["ERXSTH"] /\ NetworkInit[4].reg = Reg["ERXRDPTL"]
      /\ NetworkInit[5].reg = Reg["ERXRDPTH"] /\ NetworkInit[6].reg = Reg["ERXNDL"]
      /\ NetworkInit[7].reg = Reg["ERXNDH"] /\ NetworkInit[8].reg = Reg["ETXSTL"]
      /\ NetworkInit[9].reg = Reg["ETXSTH"] /\ NetworkInit[10].reg = Reg["MACON1"]
      /\ NetworkInit[11].reg = Reg["MACON2"] /\ NetworkInit[12].reg = Reg["MACON3"]
  BY InitProgram DEF Read, Write, Bits
<1>2. /\ NetworkInit[13].reg = Reg["MAIPGL"] /\ NetworkInit[14].reg = Reg["MAIPGH"]
      /\ NetworkInit[15].reg = Reg["MABBIPG"] /\ NetworkInit[16].reg = Reg["MAMXFLL"]
      /\ NetworkInit[17].reg = Reg["MAMXFLH"] /\ NetworkInit[18].reg = Reg["MAADR"]
      /\ NetworkInit[19].reg = Reg["MIREGADR"] /\ NetworkInit[20].reg = Reg["MIWRL"]
      /\ NetworkInit[21].reg = Reg["MIWRH"] /\ NetworkInit[22].reg = Reg["MISTAT"]
      /\ NetworkInit[23].reg = Reg["ECON1"] /\ NetworkInit[24].reg = Reg["EIE"]
  BY InitProgram DEF Read, Write, Bits
<1>3. /\ c(1) = 29 /\ c(2) = 8 /\ c(3) = 9 /\ c(4) = 12 /\ c(5) = 13 /\ c(6) = 10 /\ c(7) = 11
      /\ c(8) = 4 /\ c(9) = 5 /\ c(10) = 64 /\ c(11) = 65 /\ c(12) = 66
  BY <1>1, RegFacts
<1>4. /\ c(13) = 70 /\ c(14) = 71 /\ c(15) = 68 /\ c(16) = 74 /\ c(17) = 75 /\ c(18) = 96
      /\ c(19) = 84 /\ c(20) = 86 /\ c(21) = 87 /\ c(22) = 106 /\ c(23) = 31 /\ c(24) = 27
  BY <1>2, RegFacts
<1> SUFFICES ASSUME NEW i \in 1 .. 24, NEW j \in 1 .. 24, c(i) = c(j)
             PROVE  i = j
  OBVIOUS
<1> HIDE DEF c
<1>5. ASSUME NEW k \in 1 .. 24
      PROVE  \/ (k = 1 /\ c(k) = 29) \/ (k = 2 /\ c(k) = 8) \/ (k = 3 /\ c(k) = 9)
             \/ (k = 4 /\ c(k) = 12) \/ (k = 5 /\ c(k) = 13) \/ (k = 6 /\ c(k) = 10)
             \/ (k = 7 /\ c(k) = 11) \/ (k = 8 /\ c(k) = 4) \/ (k = 9 /\ c(k) = 5)
             \/ (k = 10 /\ c(k) = 64) \/ (k = 11 /\ c(k) = 65) \/ (k = 12 /\ c(k) = 66)
             \/ (k = 13 /\ c(k) = 70) \/ (k = 14 /\ c(k) = 71) \/ (k = 15 /\ c(k) = 68)
             \/ (k = 16 /\ c(k) = 74) \/ (k = 17 /\ c(k) = 75) \/ (k = 18 /\ c(k) = 96)
             \/ (k = 19 /\ c(k) = 84) \/ (k = 20 /\ c(k) = 86) \/ (k = 21 /\ c(k) = 87)
             \/ (k = 22 /\ c(k) = 106) \/ (k = 23 /\ c(k) = 31) \/ (k = 24 /\ c(k) = 27)
  BY <1>3, <1>4
<1> QED
  BY <1>5

(* Everything that enc28j60_init configures is in place by then.             *)
LEMMA WrittenAll ==
    ASSUME Written(25), "RXEN" \notin econ1
    PROVE  /\ Word("ERXSTL", "ERXSTH") = RxStart /\ Word("ERXNDL", "ERXNDH") = RxStop
           /\ Word("ETXSTL", "ETXSTH") = TxStart
           /\ \A r \in {"MACON1", "MACON3", "MABBIPG", "MAIPGL", "MAIPGH", "MAMXFLL", "MAMXFLH", "MAADR", "EIE"} :
                regs[Reg[r]] = 1
           /\ regs[Reg["MACON2"]] = 0 /\ regs[Reg["MIREGADR"]] = 1 /\ regs[Reg["MIWRL"]] = 1
<1>1. ASSUME NEW n, NEW v, NEW j \in 1 .. 24,
             NetworkInit[j] = Write(n, v) \/ (NetworkInit[j] = Bits("set", n, v) /\ Reg[n] # Reg["ECON1"])
      PROVE  regs[Reg[n]] = v
  <2>1. Writes(NetworkInit[j]) /\ NetworkInit[j].reg = Reg[n] /\ NetworkInit[j].val = v
    BY <1>1 DEF Writes, Write, Bits
  <2>2. \A i \in j + 1 .. 25 - 1 : i \in 1 .. 24 /\ i # j
    OBVIOUS
  <2>3. \A i \in j + 1 .. 25 - 1 : NetworkInit[i].reg # NetworkInit[j].reg
    BY <2>2, StartRegs
  <2>4. j \in 1 .. 25 - 1
    OBVIOUS
  <2> QED
    BY <2>1, <2>3, <2>4 DEF Written
<1>2. \A n, v : \A j \in 1 .. 24 : NetworkInit[j] = Write(n, v) => regs[Reg[n]] = v
  BY <1>1
<1>3. /\ regs[Reg["ERXSTL"]] = Low(RxStart) /\ regs[Reg["ERXSTH"]] = High(RxStart)
      /\ regs[Reg["ERXNDL"]] = Low(RxStop) /\ regs[Reg["ERXNDH"]] = High(RxStop)
      /\ regs[Reg["ETXSTL"]] = Low(TxStart) /\ regs[Reg["ETXSTH"]] = High(TxStart)
  <2>1. 2 \in 1 .. 24 /\ 3 \in 1 .. 24 /\ 6 \in 1 .. 24 /\ 7 \in 1 .. 24 /\ 8 \in 1 .. 24 /\ 9 \in 1 .. 24
    OBVIOUS
  <2> QED
    BY <1>2, <2>1, InitProgram
<1>4. \A m \in Nat : Low(m) + Base * High(m) = m
  BY WordHalves
<1>5. Word("ERXSTL", "ERXSTH") = RxStart /\ Word("ERXNDL", "ERXNDH") = RxStop /\ Word("ETXSTL", "ETXSTH") = TxStart
  <2>1. RxStart \in Nat /\ RxStop \in Nat /\ TxStart \in Nat
    BY EncAssumption DEF EncAssumption
  <2> QED
    BY <1>3, <1>4, <2>1 DEF Word
<1>6. /\ regs[Reg["MACON1"]] = 1 /\ regs[Reg["MACON2"]] = 0 /\ regs[Reg["MAIPGL"]] = 1
      /\ regs[Reg["MAIPGH"]] = 1 /\ regs[Reg["MABBIPG"]] = 1 /\ regs[Reg["MAMXFLL"]] = 1
      /\ regs[Reg["MAMXFLH"]] = 1 /\ regs[Reg["MAADR"]] = 1 /\ regs[Reg["MIREGADR"]] = 1
      /\ regs[Reg["MIWRL"]] = 1
  <2>1. /\ 10 \in 1 .. 24 /\ 11 \in 1 .. 24 /\ 13 \in 1 .. 24 /\ 14 \in 1 .. 24 /\ 15 \in 1 .. 24
        /\ 16 \in 1 .. 24 /\ 17 \in 1 .. 24 /\ 18 \in 1 .. 24 /\ 19 \in 1 .. 24 /\ 20 \in 1 .. 24
    OBVIOUS
  <2> QED
    BY <1>2, <2>1, InitProgram
<1>7. regs[Reg["MACON3"]] = 1 /\ regs[Reg["EIE"]] = 1
  <2>1. 12 \in 1 .. 24 /\ 24 \in 1 .. 24
    OBVIOUS
  <2>2. Reg["EIE"] # Reg["ECON1"] /\ Reg["MACON3"] # Reg["ECON1"]
    BY RegFacts
  <2>3. NetworkInit[12] = Bits("set", "MACON3", 1) /\ NetworkInit[24] = Bits("set", "EIE", 1)
    BY InitProgram
  <2> QED
    BY <1>1, <2>1, <2>2, <2>3
<1> QED
  BY <1>5, <1>6, <1>7

(* Reception is switched on.                                                 *)
LEMMA EnableStep ==
    ASSUME EncInv, Spi, Starting(25)
    PROVE  EncInv'
<1> DEFINE o == NetworkInit[25]
<1>1. /\ NetworkInit \in Seq(Steps(NetworkInit)) /\ Len(NetworkInit) = 29
      /\ o = Bits("set", "ECON1", {"RXEN"})
  BY InitProgram
<1>2. /\ o.op = "set" /\ o.reg = Reg["ECON1"] /\ o.val = {"RXEN"}
      /\ o.reg # Reg["EPKTCNT"] /\ ~WrongBank(o)
  BY <1>1, RegFacts DEF Bits, WrongBank
<1> HIDE DEF o
<1>3. Transaction(o) /\ ops' = Rest(NetworkInit, 26)
  <2>1. 25 \in 1 .. Len(NetworkInit) /\ 25 # Len(NetworkInit)
    BY <1>1
  <2>2. ops = Rest(NetworkInit, 25)
    BY DEF Starting
  <2>3. /\ Transaction(o)
        /\ ops' = IF 25 = Len(NetworkInit) THEN <<>> ELSE Rest(NetworkInit, 25 + 1)
    BY <1>1, <1>2, <2>1, <2>2, SpiHead DEF o
  <2> QED
    BY <2>1, <2>3
<1>4. Econ1Set({"RXEN"})
  <2>1. Econ1Set(o.val)
    BY <1>2, <1>3, Kinds
  <2> QED
    BY <1>2, <2>1
<1>5. /\ econ1' = econ1 \cup {"RXEN"} /\ txPos' = txPos
      /\ UNCHANGED <<driverVars, regs, mem, rxVars>>
  BY <1>4 DEF Econ1Set
<1>6. EncTypeOK'
  BY <1>5 DEF EncInv, EncTypeOK, driverVars, rxVars
<1>7. TxInv'
  BY <1>5 DEF TxInv, Starting
<1>8. Configured'
  BY <1>5, WrittenAll DEF Starting, Configured, Word
<1>9. /\ rxEnd' = RxStart /\ writePtr' = RxStart /\ packetPtr' = RxStart /\ unread' = <<>>
      /\ regs'[Reg["EPKTCNT"]] = 0 /\ RxStart \in Addresses
  BY <1>5, RingFacts DEF Starting, driverVars, rxVars, Addresses
<1>10. Ready'
  BY <1>5, <1>8, <1>9 DEF Ready
<1>11. Resting'
  BY <1>9 DEF Resting, RingHolds, Layout, Ring
<1> QED
  BY <1>3, <1>6, <1>7, <1>10, <1>11 DEF EncInv, Progress, Finishing

(* What network_init does after reception is on.                             *)
LEMMA FinishingOps ==
    \A k \in 26 .. 29 :
        \/ NetworkInit[k].op = "read" /\ k = 29 /\ NetworkInit[k].reg = Reg["MISTAT"]
        \/ \E n \in {"MIREGADR", "MIWRL", "MIWRH"}, v \in 0 .. 2 :
             /\ NetworkInit[k] = Write(n, v) /\ k # 29
             /\ (n = "MIREGADR" => v = 2) /\ (n = "MIWRL" => v = 1)
<1>1. /\ NetworkInit[26] = Write("MIREGADR", 2) /\ NetworkInit[27] = Write("MIWRL", 1)
      /\ NetworkInit[28] = Write("MIWRH", 0) /\ NetworkInit[29] = Read("MISTAT")
  BY InitProgram
<1>2. Read("MISTAT").op = "read" /\ Read("MISTAT").reg = Reg["MISTAT"]
  BY DEF Read
<1>3. \A k \in 26 .. 29 : k = 26 \/ k = 27 \/ k = 28 \/ k = 29
  OBVIOUS
<1> QED
  BY <1>1, <1>2, <1>3

(* The last transactions of network_init write to the PHY while frames may   *)
(* already arrive.                                                           *)
LEMMA FinishingStep ==
    ASSUME EncInv, Spi, NEW k \in 26 .. 29, Finishing(k)
    PROVE  EncInv'
<1> DEFINE o == NetworkInit[k]
           next == IF k = 29 THEN <<>> ELSE Rest(NetworkInit, k + 1)
<1>1. /\ NetworkInit \in Seq(Steps(NetworkInit)) /\ Len(NetworkInit) = 29
  BY InitProgram
<1>2. k \in 1 .. Len(NetworkInit) /\ ops = Rest(NetworkInit, k) /\ (k # 29 => k + 1 \in 26 .. 29)
  BY <1>1 DEF Finishing
<1>3. \/ o.op = "read" /\ k = 29 /\ o.reg = Reg["MISTAT"]
      \/ \E n \in {"MIREGADR", "MIWRL", "MIWRH"}, v \in 0 .. 2 :
           /\ o = Write(n, v) /\ k # 29
           /\ (n = "MIREGADR" => v = 2) /\ (n = "MIWRL" => v = 1)
  BY FinishingOps
<1>4. ops # Rest(NetworkInit, 12)
  <2>1. SUFFICES ASSUME ops = Rest(NetworkInit, 12) PROVE FALSE
    OBVIOUS
  <2>2. Len(Rest(NetworkInit, 12)) = 18 /\ Len(Rest(NetworkInit, k)) = 30 - k
    BY <1>1, <1>2, SubSeqProperties, ElementOfSeq DEF Rest
  <2>3. 30 - k # 18 /\ ops = Rest(NetworkInit, k)
    BY <1>2
  <2> QED
    BY <2>1, <2>2, <2>3
<1>5. o.reg \in Registers /\ o.reg # Reg["EPKTCNT"] /\ o.reg[1] \in 0 .. 3
  <2>1. /\ \A n \in {"MIREGADR", "MIWRL", "MIWRH", "MISTAT"} : Reg[n] \in Registers /\ Reg[n] # Reg["EPKTCNT"]
        /\ \A r \in Registers : r[1] \in 0 .. 3
    BY RegisterFacts, RegFacts DEF Names
  <2>2. \A n, v : Write(n, v).reg = Reg[n]
    BY DEF Write
  <2> QED
    BY <1>3, <2>1, <2>2
<1> HIDE DEF o
<1>6. \/ WrongBank(o) /\ BankSet(o.reg[1])
      \/ ~WrongBank(o) /\ Transaction(o) /\ ops' = next
  BY <1>1, <1>2, <1>5, SpiHead DEF o
<1> HIDE DEF next
<1>7. CASE WrongBank(o) /\ BankSet(o.reg[1])
  BY <1>4, <1>5, <1>7, BankStep
<1>8. CASE ~WrongBank(o) /\ Transaction(o) /\ ops' = next
  <2>1. EncTypeOK /\ TxInv /\ regs \in [Registers -> Int] /\ Ready /\ Resting
    BY DEF EncInv, EncTypeOK, Finishing
  <2>2. Ready' /\ Resting' /\ EncTypeOK' /\ TxInv' => EncInv'
    BY <1>2, <1>8 DEF EncInv, Progress, Finishing, Idle, next
  <2>3. CASE o.op = "read" /\ k = 29
    <3>1. UNCHANGED <<driverVars, econ1, regs, mem, rxVars, txVars>>
      BY <1>8, <2>3, Kinds
    <3> QED
      BY <2>1, <2>2, <3>1 DEF Ready, Configured, Word, Resting, RingHolds, EncTypeOK, TxInv,
                              driverVars, rxVars, txVars
  <2>4. ASSUME NEW n \in {"MIREGADR", "MIWRL", "MIWRH"}, NEW v \in 0 .. 2, o = Write(n, v),
               n = "MIREGADR" => v = 2, n = "MIWRL" => v = 1
        PROVE  EncInv'
    <3>1. o.op = "write" /\ o.reg = Reg[n] /\ o.val = v
      BY <2>4 DEF Write
    <3>2. RegWrite(Reg[n], v) /\ Reg[n][1] = bank /\ Reg[n] \in Registers
      BY <1>5, <1>8, <3>1, Kinds DEF WrongBank
    <3>3. /\ regs' \in [Registers -> Int]
          /\ regs'[Reg[n]] = v /\ \A s \in Registers : s # Reg[n] => regs'[s] = regs[s]
          /\ Reg[n] # Reg["ERXRDPTH"] => rxEnd' = rxEnd
          /\ Reg[n] \notin {Reg["ERXSTL"], Reg["ERXSTH"]} => writePtr' = writePtr
          /\ UNCHANGED <<bank, packetPtr, rxLen, uipBuf, econ1, mem, unread, txVars>>
      BY <2>1, <3>2, WriteFacts
    <3>4. /\ Reg[n] # Reg["ERXRDPTH"] /\ Reg[n] # Reg["ERXSTL"] /\ Reg[n] # Reg["ERXSTH"]
          /\ Reg[n] # Reg["EPKTCNT"] /\ Reg[n] # Reg["ETXNDL"] /\ Reg[n] # Reg["ETXNDH"]
      BY RegFacts
    <3>5. ASSUME NEW m \in Names, m # n
          PROVE  regs'[Reg[m]] = regs[Reg[m]]
      BY <3>3, <3>5, RegisterFacts, RegFacts DEF Names
    <3>6. Configured'
      <4>1. \A m \in ConfigNames : m # n => regs'[Reg[m]] = regs[Reg[m]]
        BY <3>5 DEF ConfigNames, Names
      <4>2. Configured /\ "RXEN" \in econ1
        BY <2>1 DEF Ready
      <4> QED
        BY <2>4, <3>3, <4>1, <4>2 DEF Configured, Word, ConfigNames
    <3>7. regs'[Reg["EPKTCNT"]] = regs[Reg["EPKTCNT"]] /\ regs'[Reg["ETXNDL"]] = regs[Reg["ETXNDL"]]
          /\ regs'[Reg["ETXNDH"]] = regs[Reg["ETXNDH"]]
      BY <3>5 DEF Names
    <3>8. Ready' /\ Resting'
      BY <2>1, <3>3, <3>4, <3>6, <3>7 DEF Ready, Resting, RingHolds
    <3>9. EncTypeOK'
      BY <2>1, <3>3, TypeKept DEF txVars
    <3>10. TxInv'
      BY <2>1, <3>3, <3>7, TxKept
    <3> QED
      BY <2>2, <3>8, <3>9, <3>10
  <2> QED
    BY <1>3, <2>3, <2>4
<1> QED
  BY <1>6, <1>7, <1>8

-----------------------------------------------------------------------------
(* The chip on its own, and the start of a call                              *)

\* What a frame adds to the ring.
Arrived(f) == [at |-> writePtr, frame |-> f]

(* Storing a frame leaves those in the ring as they are.                     *)
LEMMA ArriveFacts ==
    ASSUME EncTypeOK, Ready, NEW f \in RxFrames, Room(f) <= Free,
           mem' = [a \in DOMAIN mem |->
                     LET n == (a - writePtr) % RingSize
                     IN IF a >= RxStart /\ n < 6 + Len(f) THEN Stored(f)[n + 1] ELSE mem[a]],
           writePtr' = Moved(writePtr, Room(f)), rxEnd' = rxEnd
    PROVE  /\ writePtr' \in Addresses /\ mem' \in Memories /\ Arrived(f) \in Entries
           /\ \A a \in TxStart .. RxStart - 1 : mem'[a] = mem[a]
           /\ \A q \in Seq(Entries) : RingHolds(q) => Layout(mem', rxEnd', Append(q, Arrived(f)), writePtr')
<1>1. mem \in Memories /\ rxEnd \in Addresses /\ writePtr \in Addresses
  BY DEF EncTypeOK, Ready
<1>2. Room(f) \in Nat /\ Ahead(rxEnd, writePtr) + Room(f) < RingSize
  BY <1>1, RoomFacts, FreeFacts
<1>3. mem' = Storing(mem, f, writePtr)
  <2>1. Stored(f) = Image([at |-> writePtr, frame |-> f])
    BY DEF Stored, Image
  <2> QED
    BY <2>1 DEF Storing, Ahead
<1>4. /\ writePtr' \in Addresses /\ mem' \in Memories
      /\ \A a \in TxStart .. RxStart - 1 : mem'[a] = mem[a]
      /\ \A q \in Seq(Entries) :
            Layout(mem, rxEnd, q, writePtr)
            => Layout(mem', rxEnd, Append(q, [at |-> writePtr, frame |-> f]), writePtr')
  <2> DEFINE m2 == mem'
             past == Moved(writePtr, Room(f))
             e == [at |-> writePtr, frame |-> f]
  <2>1. m2 = Storing(mem, f, writePtr) /\ writePtr' = past
    BY <1>3
  <2> HIDE DEF m2
  <2>2. ASSUME NEW q \in Seq(Entries), Layout(mem, rxEnd, q, writePtr)
        PROVE  /\ Layout(m2, rxEnd, Append(q, e), past)
               /\ past \in Addresses /\ m2 \in Memories
               /\ \A a \in TxStart .. RxStart - 1 : m2[a] = mem[a]
    BY <1>1, <1>2, <2>1, <2>2, LayoutAppend
  <2>3. Layout(mem, writePtr, <<>>, writePtr) /\ <<>> \in Seq(Entries) /\ Ahead(writePtr, writePtr) = 0
    BY <1>1, AheadFacts, EmptySeq, RingFacts DEF Layout, Ring, Addresses
  <2>4. past \in Addresses /\ m2 \in Memories /\ \A a \in TxStart .. RxStart - 1 : m2[a] = mem[a]
    <3>1. Ahead(rxEnd, writePtr) \in 0 .. RingSize - 1
      BY <1>1, AheadFacts
    <3>2. Ahead(writePtr, writePtr) + Room(f) < RingSize
      BY <1>2, <2>3, <3>1, RingFacts
    <3> DEFINE none == <<>>
    <3>3. none \in Seq(Entries) /\ Layout(mem, writePtr, none, writePtr)
      BY <2>3
    <3> HIDE DEF none
    <3>4. /\ Layout(m2, writePtr, Append(none, e), past)
          /\ past \in Addresses /\ m2 \in Memories
          /\ \A a \in TxStart .. RxStart - 1 : m2[a] = mem[a]
      BY <1>1, <2>1, <3>2, <3>3, LayoutAppend
    <3> QED
      BY <3>4
  <2> HIDE DEF past, e
  <2>5. \A q \in Seq(Entries) : Layout(mem, rxEnd, q, writePtr) => Layout(m2, rxEnd, Append(q, e), past)
    BY <2>2
  <2> QED
    BY <2>1, <2>4, <2>5 DEF m2, e
<1> QED
  BY <1>1, <1>4 DEF Arrived, RingHolds, Entries

(* The parts in which a frame is written to the chip.                        *)
LEMMA PartFacts ==
    ASSUME NEW f \in TxFrames
    PROVE  /\ f \in Seq(Nat) /\ Len(f) \in Nat \ {0} /\ TxStart + Len(f) < RxStart
           /\ TxStart \in Nat /\ RxStart \in Nat
           /\ Len(f) <= HeadLen => Parts(f)[1] = f
           /\ Len(f) > HeadLen =>
                /\ Parts(f)[1] \in Seq(Nat) /\ Len(Parts(f)[1]) = HeadLen
                /\ Parts(f)[2] \in Seq(Nat) /\ Len(Parts(f)[2]) = Len(f) - HeadLen
                /\ \A i \in 1 .. HeadLen : Parts(f)[1][i] = f[i]
                /\ \A i \in 1 .. Len(f) - HeadLen : Parts(f)[2][i] = f[HeadLen + i]
           /\ Len(Parts(f)[1]) \in Nat /\ Len(Parts(f)[1]) <= Len(f)
<1>1. /\ f \in Seq(Byte) /\ Byte \subseteq Nat /\ f # <<>> /\ TxStart + Len(f) < RxStart
      /\ TxStart \in Nat /\ RxStart \in Nat /\ HeadLen \in Nat \ {0}
  BY EncAssumption DEF EncAssumption, Byte
<1>2. f \in Seq(Nat) /\ Len(f) \in Nat \ {0}
  BY <1>1, SeqMonotonic, EmptySeq
<1>3. Len(f) <= HeadLen => Parts(f)[1] = f
  BY DEF Parts
<1>4. ASSUME Len(f) > HeadLen
      PROVE  /\ Parts(f)[1] \in Seq(Nat) /\ Len(Parts(f)[1]) = HeadLen
             /\ Parts(f)[2] \in Seq(Nat) /\ Len(Parts(f)[2]) = Len(f) - HeadLen
             /\ \A i \in 1 .. HeadLen : Parts(f)[1][i] = f[i]
             /\ \A i \in 1 .. Len(f) - HeadLen : Parts(f)[2][i] = f[HeadLen + i]
  <2> DEFINE n == Len(f)
             h == HeadLen
             a == SubSeq(f, 1, h)
             b == SubSeq(f, h + 1, n)
  <2>1. n \in Nat /\ h \in Nat \ {0} /\ n > h /\ ~(n <= h)
    BY <1>1, <1>2, <1>4
  <2>2. Parts(f)[1] = a /\ Parts(f)[2] = b
    BY <2>1 DEF Parts, Shorter
  <2>3. \A i \in 1 .. n : f[i] \in Nat
    BY <1>2, ElementOfSeq
  <2> HIDE DEF n, h
  <2>4. /\ a \in Seq(Nat) /\ Len(a) = h
        /\ \A i \in 1 .. h : a[i] = f[i]
    <3>1. \A i \in 1 .. h : f[i] \in Nat
      BY <2>1, <2>3
    <3>2. /\ a \in Seq(Nat) /\ Len(a) = IF 1 <= h THEN h - 1 + 1 ELSE 0
          /\ \A i \in 1 .. h - 1 + 1 : a[i] = f[1 + i - 1]
      BY <2>1, <3>1, SubSeqProperties
    <3> QED
      BY <2>1, <3>2
  <2>5. /\ b \in Seq(Nat) /\ Len(b) = n - h
        /\ \A i \in 1 .. n - h : b[i] = f[h + i]
    <3>1. \A i \in h + 1 .. n : f[i] \in Nat
      BY <2>1, <2>3
    <3>2. /\ b \in Seq(Nat) /\ Len(b) = IF h + 1 <= n THEN n - (h + 1) + 1 ELSE 0
          /\ \A i \in 1 .. n - (h + 1) + 1 : b[i] = f[(h + 1) + i - 1]
      BY <2>1, <3>1, SubSeqProperties
    <3>3. n - (h + 1) + 1 = n - h /\ h + 1 <= n /\ \A i \in 1 .. n - h : (h + 1) + i - 1 = h + i
      BY <2>1
    <3>4. b \in Seq(Nat) /\ Len(b) = n - h /\ \A i \in 1 .. n - h : b[i] = f[(h + 1) + i - 1]
      BY <3>2, <3>3
    <3> QED
      BY <3>3, <3>4
  <2> QED
    BY <2>2, <2>4, <2>5 DEF n, h
<1>5. Len(Parts(f)[1]) \in Nat /\ Len(Parts(f)[1]) <= Len(f)
  BY <1>1, <1>2, <1>3, <1>4
<1> QED
  BY <1>1, <1>2, <1>3, <1>4, <1>5

(* A frame arrives between any two transactions.                             *)
LEMMA ArriveStep ==
    ASSUME EncInv, Arrive
    PROVE  EncInv'
<1>1. PICK f \in RxFrames :
         /\ Room(f) <= Free
         /\ mem' = [a \in DOMAIN mem |->
                      LET n == (a - writePtr) % RingSize
                      IN IF a >= RxStart /\ n < 6 + Len(f) THEN Stored(f)[n + 1] ELSE mem[a]]
         /\ writePtr' = Moved(writePtr, Room(f))
         /\ unread' = Append(unread, [at |-> writePtr, frame |-> f])
         /\ regs' = [regs EXCEPT ![Reg.EPKTCNT] = @ + 1]
  BY DEF Arrive
<1>2. /\ UNCHANGED <<ops, driverVars, econ1, rxEnd, txVars>> /\ "RXEN" \in econ1
      /\ unread' = Append(unread, Arrived(f))
  BY <1>1 DEF Arrive, Arrived
<1>3. EncTypeOK /\ TxInv /\ Progress /\ unread \in Seq(Entries) /\ regs \in [Registers -> Int]
  BY DEF EncInv, EncTypeOK
<1>4. Ready
  BY <1>2, <1>3 DEF Progress, Starting, Finishing, Idle, Receiving, Sending
<1>5. /\ writePtr' \in Addresses /\ mem' \in Memories /\ Arrived(f) \in Entries
      /\ \A a \in TxStart .. RxStart - 1 : mem'[a] = mem[a]
      /\ \A q \in Seq(Entries) : RingHolds(q) => Layout(mem', rxEnd', Append(q, Arrived(f)), writePtr')
  BY <1>1, <1>2, <1>3, <1>4, ArriveFacts
<1> DEFINE e == Arrived(f)
<1> HIDE DEF e
<1>6. /\ unread' \in Seq(Entries) /\ unread' # <<>> /\ Len(unread') = Len(unread) + 1
      /\ unread # <<>> => Head(unread') = Head(unread) /\ Tail(unread') = Append(Tail(unread), e)
  <2>1. e \in Entries /\ unread' = Append(unread, e)
    BY <1>2, <1>5 DEF e
  <2>2. unread' \in Seq(Entries) /\ Len(unread') = Len(unread) + 1
    BY <1>3, <2>1, AppendProperties
  <2>3. unread' # <<>>
    BY <1>3, <2>2, EmptySeq, LenProperties
  <2>4. unread # <<>> => Head(unread') = Head(unread) /\ Tail(unread') = Append(Tail(unread), e)
    BY <1>3, <2>1
  <2> QED
    BY <2>2, <2>3, <2>4
<1>7. /\ regs' \in [Registers -> Int] /\ regs'[Reg["EPKTCNT"]] = regs[Reg["EPKTCNT"]] + 1
      /\ \A n \in Names : n # "EPKTCNT" => regs'[Reg[n]] = regs[Reg[n]]
  <2>1. Reg["EPKTCNT"] \in Registers
    BY RegisterFacts DEF Names
  <2>2. \A n \in Names : n # "EPKTCNT" => Reg[n] # Reg["EPKTCNT"]
    BY RegFacts DEF Names
  <2>3. \A n \in Names : Reg[n] \in Registers
    BY RegisterFacts
  <2> QED
    BY <1>1, <1>3, <2>1, <2>2, <2>3
<1>8. Ready'
  <2>1. \A n \in ConfigNames : regs'[Reg[n]] = regs[Reg[n]]
    BY <1>7 DEF ConfigNames, Names
  <2>2. Configured'
    BY <1>4, <2>1, ConfiguredKept DEF Ready
  <2>3. regs[Reg["EPKTCNT"]] = Len(unread) /\ rxEnd \in Addresses
    BY <1>4 DEF Ready
  <2> QED
    BY <1>2, <1>5, <1>6, <1>7, <2>2, <2>3 DEF Ready
<1>9. RingHolds(unread) => RingHolds(unread)'
  BY <1>2, <1>3, <1>5 DEF RingHolds
<1>10. unread # <<>> /\ RingHolds(Tail(unread)) => RingHolds(Tail(unread))'
  <2> SUFFICES ASSUME unread # <<>>, RingHolds(Tail(unread))
               PROVE  RingHolds(Tail(unread))'
    OBVIOUS
  <2>1. Tail(unread) \in Seq(Entries)
    BY <1>3, HeadTailProperties
  <2>2. Layout(mem', rxEnd', Append(Tail(unread), e), writePtr')
    BY <1>5, <2>1 DEF e
  <2>3. Layout(mem', rxEnd', Tail(unread'), writePtr')
    BY <1>6, <2>2
  <2> QED
    BY <2>3 DEF RingHolds
<1>11. EncTypeOK'
  BY <1>2, <1>3, <1>5, <1>6, <1>7 DEF EncTypeOK, driverVars, txVars
<1>12. TxInv'
  <2>1. regs'[Reg["ETXNDL"]] = regs[Reg["ETXNDL"]] /\ regs'[Reg["ETXNDH"]] = regs[Reg["ETXNDH"]]
    BY <1>7 DEF Names
  <2> QED
    BY <1>2, <1>3, <1>5, <2>1, TxKept
<1>13. Resting => Resting'
  BY <1>2, <1>9 DEF Resting, driverVars
<1>14. \A l, h \in Names \ {"EPKTCNT"} : Word(l, h)' = Word(l, h)
  BY <1>7 DEF Word
<1>15. ASSUME NEW k \in 26 .. 29, Finishing(k)
       PROVE  Progress'
  BY <1>2, <1>8, <1>13, <1>15 DEF Progress, Finishing
<1>16. ASSUME Idle
       PROVE  Progress'
  BY <1>2, <1>8, <1>13, <1>16 DEF Progress, Idle
<1>17. ASSUME NEW k \in 1 .. 13, Receiving(k)
       PROVE  Progress'
  <2>1. \A n \in {"ERDPTL", "ERXRDPTL"} : regs'[Reg[n]] = regs[Reg[n]]
    BY <1>7 DEF Names
  <2>2. Word("ERDPTL", "ERDPTH")' = Word("ERDPTL", "ERDPTH")
    BY <1>14 DEF Names
  <2>3. unread # <<>> => First' = First /\ Following' = Following
    BY <1>6 DEF First, Following
  <2>4. /\ ops' = Rest(PacketReceive, k)
        /\ packetPtr' = packetPtr /\ rxLen' = rxLen /\ uipBuf' = uipBuf /\ rxEnd' = rxEnd
    BY <1>2, <1>17 DEF Receiving, driverVars
  <2>5. /\ k <= 4 => packetPtr' = rxEnd'
        /\ k = 3 => regs'[Reg.ERDPTL] = Low(packetPtr')
        /\ k = 12 => regs'[Reg.ERXRDPTL] = Low(packetPtr')
    BY <1>17, <2>1, <2>4 DEF Receiving
  <2>6. k \in 4 .. 10 => Word("ERDPTL", "ERDPTH")' = Moved(rxEnd', k - 4)
    BY <1>17, <2>2, <2>4 DEF Receiving
  <2>7. k > 1 => unread # <<>>
    BY <1>17 DEF Receiving
  <2>8. /\ k = 5 => packetPtr' = Low(Following')
        /\ k >= 6 => packetPtr' = Following'
    BY <1>17, <2>3, <2>4, <2>7 DEF Receiving
  <2>9. /\ k = 7 => rxLen' = Low(Len(First'.frame))
        /\ k \in 8 .. 10 => rxLen' = Len(First'.frame)
        /\ k >= 11 => uipBuf' = Shorter(First'.frame, MaxLen)
    BY <1>17, <2>3, <2>4, <2>7 DEF Receiving
  <2>10. IF k = 13 THEN rxEnd' = packetPtr' /\ RingHolds(Tail(unread))' ELSE RingHolds(unread)'
    BY <1>9, <1>10, <1>17, <2>4, <2>7 DEF Receiving
  <2>11. Receiving(k)'
    BY <1>6, <1>8, <2>4, <2>5, <2>6, <2>8, <2>9, <2>10 DEF Receiving
  <2> QED
    BY <2>11 DEF Progress
<1>18. ASSUME NEW g \in TxFrames, NEW k \in DOMAIN PacketSend(g), Sending(g, k)
       PROVE  Progress'
  <2>1. \A n \in {"EWRPTL", "ETXNDL"} : regs'[Reg[n]] = regs[Reg[n]]
    BY <1>7 DEF Names
  <2>2. /\ Word("EWRPTL", "EWRPTH")' = Word("EWRPTL", "EWRPTH")
        /\ Word("ETXNDL", "ETXNDH")' = Word("ETXNDL", "ETXNDH")
    BY <1>14 DEF Names
  <2>3. k > 8 => Loaded(mem', g, PartEnd(g, k))
    <3> SUFFICES ASSUME k > 8 PROVE Loaded(mem', g, PartEnd(g, k))
      OBVIOUS
    <3>1. Loaded(mem, g, PartEnd(g, k))
      BY <1>18 DEF Sending
    <3>2. PartEnd(g, k) \in Nat /\ PartEnd(g, k) <= Len(g)
      BY PartFacts DEF PartEnd
    <3>3. \A i \in 1 .. PartEnd(g, k) : TxStart + i \in TxStart .. RxStart - 1
      BY <3>2, PartFacts
    <3> QED
      BY <1>5, <3>1, <3>3 DEF Loaded
  <2>4. Sending(g, k)'
    BY <1>2, <1>8, <1>13, <1>18, <2>1, <2>2, <2>3 DEF Sending, driverVars, txVars
  <2> QED
    BY <1>18, <2>4 DEF Progress
<1> QED
  BY <1>2, <1>3, <1>11, <1>12, <1>15, <1>16, <1>17, <1>18 DEF EncInv, Progress, Starting

(* A prefix grows by the element behind it.                                  *)
LEMMA SubSeqGrows ==
    ASSUME NEW s \in Seq(Nat), NEW p \in 1 .. Len(s)
    PROVE  Append(SubSeq(s, 1, p - 1), s[p]) = SubSeq(s, 1, p)
<1> DEFINE a == SubSeq(s, 1, p - 1)
           b == SubSeq(s, 1, p)
           c == Append(a, s[p])
<1>1. p \in Nat \ {0} /\ \A i \in 1 .. p : s[i] \in Nat
  BY LenProperties, ElementOfSeq
<1>2. b \in Seq(Nat) /\ Len(b) = p /\ \A i \in 1 .. p : b[i] = s[i]
  <2>1. /\ b \in Seq(Nat) /\ Len(b) = IF 1 <= p THEN p - 1 + 1 ELSE 0
        /\ \A i \in 1 .. p - 1 + 1 : b[i] = s[1 + i - 1]
    BY <1>1, SubSeqProperties
  <2> QED
    BY <1>1, <2>1
<1>3. a \in Seq(Nat) /\ Len(a) = p - 1 /\ \A i \in 1 .. p - 1 : a[i] = s[i]
  <2>1. \A i \in 1 .. p - 1 : s[i] \in Nat
    BY <1>1
  <2>2. /\ a \in Seq(Nat) /\ Len(a) = IF 1 <= p - 1 THEN p - 1 - 1 + 1 ELSE 0
        /\ \A i \in 1 .. p - 1 - 1 + 1 : a[i] = s[1 + i - 1]
    BY <1>1, <2>1, SubSeqProperties
  <2> QED
    BY <1>1, <2>2
<1> HIDE DEF a, b
<1>4. c \in Seq(Nat) /\ Len(c) = p /\ \A i \in 1 .. p : c[i] = IF i <= p - 1 THEN a[i] ELSE s[p]
  BY <1>1, <1>3, AppendProperties
<1> HIDE DEF c
<1>5. ASSUME NEW i \in 1 .. p
      PROVE  c[i] = b[i]
  <2>1. CASE i = p
    <3>1. ~(i <= p - 1) /\ i \in 1 .. p
      BY <1>1, <2>1
    <3>2. c[i] = s[p]
      BY <1>4, <3>1
    <3>3. b[i] = s[i]
      BY <1>2, <3>1
    <3> QED
      BY <2>1, <3>2, <3>3
  <2>2. CASE i # p
    <3>1. i \in 1 .. p - 1 /\ i <= p - 1
      BY <1>1, <2>2
    <3> QED
      BY <1>2, <1>3, <1>4, <3>1
  <2> QED
    BY <2>1, <2>2
<1>6. c = b
  BY <1>2, <1>4, <1>5, SeqEqual
<1> QED
  BY <1>6 DEF a, b, c

(* A byte leaves the chip.                                                   *)
LEMMA TransmitStep ==
    ASSUME EncInv, ChipTransmit
    PROVE  EncInv'
<1> DEFINE p == txPos - TxStart
           n == Len(handed)
<1>1. /\ txPos > 0 /\ wire' = Append(wire, mem[txPos])
      /\ UNCHANGED <<ops, driverVars, regs, mem, rxVars, handed>>
  BY DEF ChipTransmit
<1>2. /\ handed \in TxFrames /\ p \in 1 .. n /\ Word("ETXNDL", "ETXNDH") = TxStart + n
      /\ Loaded(mem, handed, n) /\ wire = SubSeq(handed, 1, p - 1) /\ EncTypeOK /\ Progress
  BY <1>1 DEF EncInv, TxInv
<1>3. /\ handed \in Seq(Nat) /\ n \in Nat /\ TxStart \in Nat /\ txPos \in Nat /\ txPos = TxStart + p
  BY <1>2, PartFacts DEF EncTypeOK
<1>4. /\ "TXRTS" \in econ1
      /\ IF p = n THEN txPos' = 0 /\ econ1' = econ1 \ {"TXRTS"} ELSE txPos' = txPos + 1 /\ econ1' = econ1
  BY <1>1, <1>2, <1>3 DEF ChipTransmit, EncTypeOK
<1>5. Progress'
  <2>1. "RXEN" \in econ1' <=> "RXEN" \in econ1
    BY <1>4
  <2> QED
    BY <1>1, <1>2, <2>1, ProgressKept DEF Described, driverVars, rxVars
<1>6. EncTypeOK'
  BY <1>1, <1>2, <1>3, <1>4 DEF EncTypeOK, driverVars, rxVars
<1>7. TxInv'
  <2>1. CASE p = n
    BY <1>4, <2>1 DEF TxInv
  <2>2. CASE p # n
    <3>1. mem[txPos] = handed[p]
      BY <1>2, <1>3 DEF Loaded
    <3> HIDE DEF p
    <3>2. p \in 1 .. n /\ p + 1 \in 1 .. n
      BY <1>2, <1>3, <2>2
    <3>3. Append(SubSeq(handed, 1, p - 1), handed[p]) = SubSeq(handed, 1, p)
      BY <1>3, <3>2, SubSeqGrows DEF n
    <3>4. wire' = SubSeq(handed, 1, p)
      BY <1>1, <1>2, <3>1, <3>3
    <3>5. txPos' - TxStart = p + 1 /\ txPos' - TxStart - 1 = p
      BY <1>3, <1>4, <2>2, <3>2
    <3>6. /\ handed' = handed /\ mem' = mem /\ Word("ETXNDL", "ETXNDH")' = Word("ETXNDL", "ETXNDH")
      BY <1>1 DEF Word
    <3> QED
      BY <1>2, <3>2, <3>4, <3>5, <3>6 DEF TxInv
  <2> QED
    BY <2>1, <2>2
<1> QED
  BY <1>5, <1>6, <1>7 DEF EncInv

(* Between two calls.                                                        *)
LEMMA IdleOnly ==
    ASSUME Progress, ops = <<>>
    PROVE  Idle
<1>1. \A k \in 1 .. 29 : Rest(NetworkInit, k) # <<>>
  BY InitProgram, RestFacts
<1>2. \A k \in 1 .. 13 : Rest(PacketReceive, k) # <<>>
  BY ReceiveProgram, RestFacts
<1>3. ASSUME NEW f \in TxFrames, NEW k \in DOMAIN PacketSend(f)
      PROVE  Rest(PacketSend(f), k) # <<>>
  <2>1. PacketSend(f) \in Seq(Steps(PacketSend(f))) /\ DOMAIN PacketSend(f) = 1 .. Len(PacketSend(f))
    BY SendProgram
  <2> QED
    BY <2>1, RestFacts
<1>4. ASSUME NEW k \in 1 .. 25
      PROVE  ~Starting(k)
  <2>1. k \in 1 .. 29
    OBVIOUS
  <2> QED
    BY <1>1, <2>1 DEF Starting
<1>5. ASSUME NEW k \in 26 .. 29
      PROVE  ~Finishing(k)
  <2>1. k \in 1 .. 29
    OBVIOUS
  <2> QED
    BY <1>1, <2>1 DEF Finishing
<1>6. \A k \in 1 .. 13 : ~Receiving(k)
  BY <1>2 DEF Receiving
<1>7. \A f \in TxFrames : \A k \in DOMAIN PacketSend(f) : ~Sending(f, k)
  BY <1>3 DEF Sending
<1> QED
  BY <1>4, <1>5, <1>6, <1>7 DEF Progress

(* network_read and network_send are called.                                 *)
LEMMA CallStep ==
    ASSUME EncInv, NetworkRead \/ NetworkSend
    PROVE  EncInv'
<1>1. Idle /\ EncTypeOK /\ TxInv
  BY IdleOnly DEF EncInv, NetworkRead, NetworkSend
<1>2. /\ UNCHANGED <<bank, packetPtr, rxLen, econ1, regs, mem, rxVars, txVars>>
  BY DEF NetworkRead, NetworkSend, driverVars
<1>3. EncTypeOK'
  BY <1>1, <1>2, TypeKept DEF EncTypeOK, rxVars, txVars
<1>4. TxInv'
  BY <1>1, <1>2, TxKept
<1>5. Ready' /\ Resting'
  BY <1>1, <1>2 DEF Idle, Ready, Configured, Word, Resting, RingHolds, rxVars
<1>6. CASE NetworkRead
  <2>1. ops' = Rest(PacketReceive, 1)
    BY <1>6, ReceiveProgram, SubSeqFull DEF NetworkRead, Rest
  <2>2. Receiving(1)'
    BY <1>5, <2>1 DEF Receiving, Resting
  <2> QED
    BY <1>3, <1>4, <2>2 DEF EncInv, Progress
<1>7. CASE NetworkSend
  <2>1. PICK f \in TxFrames : ops' = PacketSend(f) /\ uipBuf' = f
    BY <1>7 DEF NetworkSend
  <2>2. /\ PacketSend(f) \in Seq(Steps(PacketSend(f))) /\ DOMAIN PacketSend(f) = 1 .. Len(PacketSend(f))
        /\ Len(PacketSend(f)) \in 9 .. 10
    BY SendProgram
  <2>3. ops' = Rest(PacketSend(f), 1) /\ 1 \in DOMAIN PacketSend(f)
    BY <2>1, <2>2, SubSeqFull DEF Rest
  <2>4. Sending(f, 1)'
    BY <1>5, <2>1, <2>3 DEF Sending
  <2> QED
    BY <1>3, <1>4, <2>3, <2>4 DEF EncInv, Progress
<1> QED
  BY <1>6, <1>7

-----------------------------------------------------------------------------
(* enc28j60_packet_receive                                                   *)

\* The registers that a call writes.
Pointers == {"ERDPTL", "ERDPTH", "EWRPTL", "EWRPTH", "ETXNDL", "ETXNDH", "ERXRDPTL", "ERXRDPTH"}

(* Their addresses are their own.                                            *)
LEMMA PointerNames == \A n \in Pointers : \A m \in Names : m # n => Reg[m] # Reg[n]
<1>1. ASSUME NEW m \in Names
      PROVE  /\ m # "ERDPTL" => Reg[m] # <<0, 0>>
             /\ m # "ERDPTH" => Reg[m] # <<0, 1>>
             /\ m # "EWRPTL" => Reg[m] # <<0, 2>>
             /\ m # "EWRPTH" => Reg[m] # <<0, 3>>
  BY RegFacts DEF Names
<1>2. ASSUME NEW m \in Names
      PROVE  /\ m # "ETXNDL" => Reg[m] # <<0, 6>>
             /\ m # "ETXNDH" => Reg[m] # <<0, 7>>
             /\ m # "ERXRDPTL" => Reg[m] # <<0, 12>>
             /\ m # "ERXRDPTH" => Reg[m] # <<0, 13>>
  BY RegFacts DEF Names
<1> QED
  BY <1>1, <1>2, RegFacts DEF Pointers

(* A write of a register that configures nothing.                            *)
LEMMA CallWrite ==
    ASSUME EncTypeOK, TxInv, Ready, NEW v \in Int,
           NEW n \in Pointers, bank = 0, RegWrite(Reg[n], v), n \in {"ETXNDL", "ETXNDH"} => txPos = 0,
           n = "ERXRDPTH" => regs[Reg["ERXRDPTL"]] + Base * v \in Addresses
    PROVE  /\ EncTypeOK' /\ TxInv' /\ Ready'
           /\ regs'[Reg[n]] = v /\ \A m \in Names : m # n => regs'[Reg[m]] = regs[Reg[m]]
           /\ rxEnd' = IF n = "ERXRDPTH" THEN regs[Reg["ERXRDPTL"]] + Base * v ELSE rxEnd
           /\ UNCHANGED <<bank, packetPtr, rxLen, uipBuf, econ1, mem, unread, writePtr, txVars>>
<1>1. /\ n \in Names /\ n \notin ConfigNames /\ n # "EPKTCNT"
  BY DEF Names, ConfigNames, Pointers
<1>2. Reg[n] \in Registers /\ Reg[n][1] = bank
  <2>1. Reg[n] \in Registers
    BY <1>1, RegisterFacts
  <2>2. Reg[n][1] = 0
    BY RegFacts DEF Pointers
  <2> QED
    BY <2>1, <2>2
<1>3. \A m \in Names : m # n => Reg[m] # Reg[n]
  BY PointerNames
<1>4. /\ regs' \in [Registers -> Int]
      /\ regs'[Reg[n]] = v /\ \A s \in Registers : s # Reg[n] => regs'[s] = regs[s]
      /\ Reg[n] = Reg["ERXRDPTH"] => rxEnd' = Word("ERXRDPTL", "ERXRDPTH")'
      /\ Reg[n] # Reg["ERXRDPTH"] => rxEnd' = rxEnd
      /\ Reg[n] \notin {Reg["ERXSTL"], Reg["ERXSTH"]} => writePtr' = writePtr
      /\ UNCHANGED <<bank, packetPtr, rxLen, uipBuf, econ1, mem, unread, txVars>>
  BY <1>2, WriteFacts
<1>5. \A m \in Names : m # n => regs'[Reg[m]] = regs[Reg[m]]
  BY <1>3, <1>4, RegisterFacts
<1>6. writePtr' = writePtr
  BY <1>1, <1>3, <1>4 DEF Names, ConfigNames
<1>7. rxEnd' = IF n = "ERXRDPTH" THEN regs[Reg["ERXRDPTL"]] + Base * v ELSE rxEnd
  BY <1>3, <1>4, <1>5 DEF Names, Word
<1>8. Configured'
  <2>1. \A m \in ConfigNames : m \in Names /\ m # n
    BY <1>1 DEF Names, ConfigNames
  <2> QED
    BY <1>5, <2>1, ConfiguredKept DEF Ready
<1>9. Ready'
  <2>1. regs'[Reg["EPKTCNT"]] = regs[Reg["EPKTCNT"]]
    BY <1>1, <1>5 DEF Names
  <2> QED
    BY <1>4, <1>6, <1>7, <1>8, <2>1 DEF Ready
<1>10. EncTypeOK'
  BY <1>4, TypeKept DEF txVars
<1>11. TxInv'
  <2>1. CASE txPos = 0
    BY <1>4, <2>1 DEF TxInv, txVars
  <2>2. CASE n \notin {"ETXNDL", "ETXNDH"}
    <3>1. regs'[Reg["ETXNDL"]] = regs[Reg["ETXNDL"]] /\ regs'[Reg["ETXNDH"]] = regs[Reg["ETXNDH"]]
      BY <1>5, <2>2 DEF Names
    <3> QED
      BY <1>4, <3>1, TxKept
  <2> QED
    BY <2>1, <2>2
<1> QED
  BY <1>4, <1>5, <1>6, <1>7, <1>9, <1>10, <1>11

(* A transaction of packet_receive, or the choice of the bank before it.     *)
LEMMA ReceiveSpi ==
    ASSUME EncInv, Spi, NEW k \in 1 .. 13, Receiving(k)
    PROVE  \/ EncInv'
           \/ /\ EncTypeOK /\ TxInv /\ Ready /\ ~WrongBank(PacketReceive[k])
              /\ Transaction(PacketReceive[k])
              /\ ops' = IF (k = 1 /\ NoneReceived) \/ k = 13 THEN <<>> ELSE Rest(PacketReceive, k + 1)
<1> DEFINE o == PacketReceive[k]
<1>1. /\ PacketReceive \in Seq(Steps(PacketReceive)) /\ Len(PacketReceive) = 13
      /\ NetworkInit \in Seq(Steps(NetworkInit)) /\ Len(NetworkInit) = 29
      /\ k \in 1 .. Len(PacketReceive)
  BY ReceiveProgram, InitProgram
<1>2. ops = Rest(PacketReceive, k) /\ EncTypeOK /\ TxInv /\ Ready
  BY DEF Receiving, EncInv
<1>3. o.reg \in Registers /\ (o.reg = Reg["EPKTCNT"] <=> k = 1)
  <2>1. \/ k = 1 \/ k = 2 \/ k = 3 \/ k = 4 \/ k = 5 \/ k = 6 \/ k = 7
        \/ k = 8 \/ k = 9 \/ k = 10 \/ k = 11 \/ k = 12 \/ k = 13
    OBVIOUS
  <2>2. \A n \in {"EPKTCNT", "ERDPTL", "ERDPTH", "ERXRDPTL", "ERXRDPTH", "ECON1", "ECON2"} :
           Reg[n] \in Registers /\ (Reg[n] = Reg["EPKTCNT"] <=> n = "EPKTCNT")
    BY RegFacts, RegisterFacts DEF Names
  <2>3. CASE k = 1
    BY <2>2, <2>3, ReceiveProgram DEF Read
  <2>4. CASE k \in {2, 3, 11, 12}
    BY <2>2, <2>4, ReceiveProgram DEF Pointer
  <2>5. CASE k \in 4 .. 10
    BY <2>1, <2>2, <2>5, ReceiveProgram DEF Get
  <2>6. CASE k = 13
    BY <2>2, <2>6, ReceiveProgram DEF Bits
  <2> QED
    BY <2>1, <2>3, <2>4, <2>5, <2>6
<1>4. ops # Rest(NetworkInit, 12)
  <2>1. SUFFICES ASSUME ops = Rest(NetworkInit, 12) PROVE FALSE
    OBVIOUS
  <2>2. Len(Rest(NetworkInit, 12)) = 18 /\ Len(Rest(PacketReceive, k)) = 14 - k
    BY <1>1, SubSeqProperties, ElementOfSeq DEF Rest
  <2>3. 14 - k # 18
    OBVIOUS
  <2> QED
    BY <1>2, <2>1, <2>2, <2>3
<1> HIDE DEF o
<1>5. \/ WrongBank(o) /\ BankSet(o.reg[1])
      \/ /\ ~WrongBank(o) /\ Transaction(o)
         /\ ops' = IF o.reg = Reg["EPKTCNT"] /\ NoneReceived THEN <<>>
                   ELSE IF k = Len(PacketReceive) THEN <<>> ELSE Rest(PacketReceive, k + 1)
  BY <1>1, <1>2, SpiHead DEF o
<1>6. CASE WrongBank(o) /\ BankSet(o.reg[1])
  BY <1>3, <1>4, <1>6, BankStep
<1> QED
  BY <1>1, <1>2, <1>3, <1>5, <1>6 DEF o

(* A transaction that only moves the call on.                                *)
LEMMA NothingMoved ==
    ASSUME EncTypeOK, TxInv, Ready, UNCHANGED <<driverVars, econ1, regs, mem, rxVars, txVars>>
    PROVE  EncTypeOK' /\ TxInv' /\ Ready'
  BY DEF EncTypeOK, TxInv, Ready, Configured, Word, driverVars, rxVars, txVars

(* EPKTCNT is read: the call ends if no frame is there.                      *)
LEMMA ReceivePoll ==
    ASSUME EncInv, Spi, Receiving(1)
    PROVE  EncInv'
<1> DEFINE o == PacketReceive[1]
<1>1. o.op = "read" /\ o.reg = Reg["EPKTCNT"]
  BY ReceiveProgram DEF Read
<1>2. SUFFICES ASSUME EncTypeOK, TxInv, Ready, ~WrongBank(o), Transaction(o),
                      ops' = IF NoneReceived THEN <<>> ELSE Rest(PacketReceive, 2)
               PROVE  EncInv'
  <2>1. 1 \in 1 .. 13 /\ 1 + 1 = 2 /\ 1 # 13
    OBVIOUS
  <2>2. \/ EncInv'
        \/ /\ EncTypeOK /\ TxInv /\ Ready /\ ~WrongBank(o) /\ Transaction(o)
           /\ ops' = IF (1 = 1 /\ NoneReceived) \/ 1 = 13 THEN <<>> ELSE Rest(PacketReceive, 1 + 1)
    BY <2>1, ReceiveSpi
  <2> QED
    BY <2>1, <2>2
<1>3. UNCHANGED <<driverVars, econ1, regs, mem, rxVars, txVars>>
  BY <1>1, <1>2, Kinds
<1>4. EncTypeOK' /\ TxInv' /\ Ready'
  BY <1>2, <1>3, NothingMoved
<1>5. packetPtr' = rxEnd' /\ RingHolds(unread)'
  BY <1>3 DEF Receiving, RingHolds, driverVars, rxVars
<1>6. NoneReceived <=> unread = <<>>
  <2>1. Reg["EPKTCNT"] \in Registers /\ Reg["EPKTCNT"][1] = bank
    BY <1>1, <1>2, RegisterFacts DEF WrongBank, Names
  <2>2. Contents(Reg["EPKTCNT"]) = regs[Reg["EPKTCNT"]]
    BY <1>2, <2>1, ReachedFacts DEF Contents, EncTypeOK
  <2>3. unread \in Seq(Entries) /\ regs[Reg["EPKTCNT"]] = Len(unread)
    BY <1>2 DEF EncTypeOK, Ready
  <2> QED
    BY <2>2, <2>3, EmptySeq DEF NoneReceived
<1>7. CASE NoneReceived
  BY <1>2, <1>4, <1>5, <1>7 DEF EncInv, Progress, Idle, Resting
<1>8. CASE ~NoneReceived
  <2>1. unread' # <<>>
    BY <1>3, <1>6, <1>8 DEF rxVars
  <2>2. Receiving(2)'
    BY <1>2, <1>4, <1>5, <1>8, <2>1 DEF Receiving
  <2> QED
    BY <1>4, <2>2 DEF EncInv, Progress
<1> QED
  BY <1>7, <1>8

(* packet_ptr is written to ERDPT.                                           *)
LEMMA ReceivePointer ==
    ASSUME EncInv, Spi, NEW k \in {2, 3}, Receiving(k)
    PROVE  EncInv'
<1> DEFINE o == PacketReceive[k]
           n == IF k = 2 THEN "ERDPTL" ELSE "ERDPTH"
           v == IF k = 2 THEN Low(packetPtr) ELSE High(packetPtr)
<1>1. /\ o.op = IF k = 2 THEN "low" ELSE "high"
      /\ o.reg = Reg[n]
  BY ReceiveProgram DEF Pointer
<1>2. SUFFICES ASSUME EncTypeOK, TxInv, Ready, ~WrongBank(o), Transaction(o),
                      ops' = Rest(PacketReceive, k + 1)
               PROVE  EncInv'
  BY ReceiveSpi
<1>3. RegWrite(Reg[n], v) /\ bank = 0 /\ v \in Int
  <2>1. RegWrite(Reg[n], v)
    BY <1>1, <1>2, Kinds
  <2>2. Reg[n][1] = bank
    BY <1>1, <1>2 DEF WrongBank
  <2>3. v \in Int
    <3>1. packetPtr \in Nat
      BY <1>2 DEF EncTypeOK
    <3>2. Low(packetPtr) \in Int /\ High(packetPtr) \in Int
      BY <3>1, WordHalves
    <3> QED
      BY <3>2
  <2> QED
    BY <2>1, <2>2, <2>3, RegFacts
<1> HIDE DEF v, o
<1>4. /\ n \in Pointers
      /\ n \notin {"ETXNDL", "ETXNDH"} /\ n # "ERXRDPTH"
  BY DEF Pointers
<1> HIDE DEF n
<1>5. /\ EncTypeOK' /\ TxInv' /\ Ready'
      /\ regs'[Reg[n]] = v /\ \A m \in Names : m # n => regs'[Reg[m]] = regs[Reg[m]]
      /\ rxEnd' = rxEnd
      /\ UNCHANGED <<bank, packetPtr, rxLen, uipBuf, econ1, mem, unread, writePtr, txVars>>
  BY <1>2, <1>3, <1>4, CallWrite
<1>6. /\ packetPtr' = rxEnd' /\ RingHolds(unread)' /\ unread' # <<>>
  BY <1>5 DEF Receiving, RingHolds
<1>7. CASE k = 2
  <2>1. regs'[Reg["ERDPTL"]] = Low(packetPtr')
    BY <1>5, <1>7 DEF n, v
  <2>2. Receiving(3)'
    BY <1>2, <1>5, <1>6, <1>7, <2>1 DEF Receiving
  <2> QED
    BY <1>5, <2>2 DEF EncInv, Progress
<1>8. CASE k = 3
  <2>1. regs'[Reg["ERDPTL"]] = Low(packetPtr) /\ regs'[Reg["ERDPTH"]] = High(packetPtr)
    BY <1>5, <1>8 DEF n, v, Names, Receiving
  <2>2. packetPtr \in Nat /\ packetPtr = rxEnd /\ rxEnd \in Addresses
    BY <1>2, <1>8 DEF EncTypeOK, Ready, Receiving
  <2>3. Word("ERDPTL", "ERDPTH")' = rxEnd
    BY <2>1, <2>2, WordHalves DEF Word
  <2>4. Moved(rxEnd, 0) = rxEnd
    BY <2>2, MovedFacts, RingFacts DEF Addresses
  <2>5. Receiving(4)'
    BY <1>2, <1>5, <1>6, <1>8, <2>3, <2>4 DEF Receiving
  <2> QED
    BY <1>5, <2>5 DEF EncInv, Progress
<1> QED
  BY <1>7, <1>8

(* What the driver finds where the oldest frame starts.                      *)
LEMMA FirstRead ==
    ASSUME EncTypeOK, Ready, RingHolds(unread), unread # <<>>
    PROVE  /\ mem[Moved(rxEnd, 0)] = Low(Following) /\ mem[Moved(rxEnd, 1)] = High(Following)
           /\ mem[Moved(rxEnd, 2)] = Low(Len(First.frame)) /\ mem[Moved(rxEnd, 3)] = High(Len(First.frame))
           /\ \A i \in 1 .. Len(First.frame) : mem[Moved(rxEnd, 5 + i)] = First.frame[i]
           /\ \A i \in 0 .. 6 + Len(First.frame) : i \in 0 .. RingSize - 1
           /\ First.frame \in RxFrames /\ First.frame \in Seq(Nat) /\ Len(First.frame) \in Nat
           /\ Following \in Addresses /\ Following \in Nat /\ Moved(rxEnd, 0) = rxEnd
           /\ Ring(Following, Tail(unread), writePtr)
<1>1. /\ unread \in Seq(Entries) /\ mem \in Memories /\ rxEnd \in Addresses /\ writePtr \in Addresses
      /\ Layout(mem, rxEnd, unread, writePtr)
  BY DEF EncTypeOK, Ready, RingHolds
<1> DEFINE q == unread
           m == mem
           first == rxEnd
           end == writePtr
           e == Head(q)
           next == Moved(first, Room(e.frame))
<1> HIDE DEF q, m, first, end
<1>2. /\ q \in Seq(Entries) /\ q # <<>> /\ m \in Memories /\ first \in Addresses /\ end \in Addresses
      /\ Layout(m, first, q, end)
  BY <1>1 DEF q, m, first, end
<1>3. /\ m[first] = Low(next) /\ m[Moved(first, 1)] = High(next)
      /\ m[Moved(first, 2)] = Low(Len(e.frame)) /\ m[Moved(first, 3)] = High(Len(e.frame))
      /\ \A i \in 1 .. Len(e.frame) : m[Moved(first, 5 + i)] = e.frame[i]
      /\ \A i \in 0 .. 6 + Len(e.frame) : i \in 0 .. RingSize - 1
      /\ next \in Nat /\ e.frame \in RxFrames /\ e.at = first
  BY <1>2, FirstStored
<1>4. next \in Addresses /\ Ring(next, Tail(q), end)
  BY <1>2, RingTail DEF Layout
<1>5. Moved(first, 0) = first
  BY <1>2, MovedFacts, RingFacts DEF Addresses
<1>6. e.frame \in Seq(Nat) /\ Len(e.frame) \in Nat
  BY <1>3, RoomFacts
<1>7. Following = next /\ First = e
  BY <1>3 DEF Following, First, q
<1> QED
  BY <1>3, <1>4, <1>5, <1>6, <1>7 DEF q, m, first, end

(* A byte of the header is read, or the frame.                               *)
LEMMA ReadFacts ==
    ASSUME EncTypeOK, TxInv, Ready, RingHolds(unread), unread # <<>>, NEW j \in 0 .. 6,
           Word("ERDPTL", "ERDPTH") = Moved(rxEnd, j),
           NEW what \in {"nextLow", "nextHigh", "lenLow", "lenHigh", "stat", "copy"},
           what = "copy" => rxLen = Len(First.frame),
           BufferRead(what)
    PROVE  /\ EncTypeOK' /\ TxInv' /\ Ready'
           /\ RingHolds(unread)' /\ UNCHANGED <<unread, rxEnd, First, Following>>
           /\ what # "copy" /\ j < 6 => Word("ERDPTL", "ERDPTH")' = Moved(rxEnd, j + 1)
<1> DEFINE at == Moved(rxEnd, j)
           size == IF rxLen < MaxLen THEN rxLen ELSE MaxLen
           n == IF what = "copy" THEN size ELSE 1
           next == Moved(at, n)
<1>1. /\ \A i \in 0 .. 6 + Len(First.frame) : i \in 0 .. RingSize - 1
      /\ Len(First.frame) \in Nat
  BY FirstRead
<1>2. /\ rxEnd \in Addresses /\ rxLen \in Nat /\ MaxLen \in Nat /\ mem \in Memories
      /\ regs \in [Registers -> Int] /\ packetPtr \in Nat
  BY EncAssumption DEF EncTypeOK, Ready, EncAssumption
<1>3. j \in 0 .. 6 + Len(First.frame) /\ 1 \in 0 .. 6 + Len(First.frame)
  BY <1>1
<1>4. at \in Addresses
  BY <1>1, <1>2, <1>3, MovedFacts
<1>5. n \in 0 .. 6 + Len(First.frame)
  BY <1>1, <1>2
<1> HIDE DEF n
<1>6. next \in Addresses
  BY <1>1, <1>4, <1>5, MovedFacts
<1>7. mem[at] \in Nat
  <2>1. at \in TxStart .. RxStop
    BY <1>4, EncAssumption DEF Addresses, EncAssumption
  <2> QED
    BY <1>2, <2>1 DEF Memories
<1> HIDE DEF at, size
<1>8. /\ packetPtr' = CASE what = "nextLow" -> mem[at]
                        [] what = "nextHigh" -> packetPtr + Base * mem[at]
                        [] OTHER -> packetPtr
      /\ rxLen' = CASE what = "lenLow" -> mem[at]
                  [] what = "lenHigh" -> rxLen + Base * mem[at]
                  [] what = "copy" -> size
                  [] OTHER -> rxLen
      /\ regs' = [regs EXCEPT ![Reg["ERDPTL"]] = Low(next), ![Reg["ERDPTH"]] = High(next)]
      /\ UNCHANGED <<bank, econ1, mem, rxVars, txVars>>
  BY DEF BufferRead, at, size, n
<1>9. next \in Nat /\ Low(next) \in Nat /\ High(next) \in Nat /\ Low(next) + Base * High(next) = next
  <2>1. next \in Nat
    BY <1>6, RingFacts
  <2> QED
    BY <2>1, WordHalves
<1>10. /\ regs' \in [Registers -> Int] /\ regs'[Reg["ERDPTL"]] = Low(next) /\ regs'[Reg["ERDPTH"]] = High(next)
       /\ \A m \in Names : m \notin {"ERDPTL", "ERDPTH"} => regs'[Reg[m]] = regs[Reg[m]]
  <2>1. \A m \in Names : m \notin {"ERDPTL", "ERDPTH"} => Reg[m] # Reg["ERDPTL"] /\ Reg[m] # Reg["ERDPTH"]
    BY PointerNames DEF Pointers
  <2>2. Reg["ERDPTL"] \in Registers /\ Reg["ERDPTH"] \in Registers /\ Reg["ERDPTL"] # Reg["ERDPTH"]
    <3>1. Reg["ERDPTL"] \in Registers /\ Reg["ERDPTH"] \in Registers
      BY RegisterFacts DEF Names
    <3> QED
      BY <3>1, RegFacts
  <2> HIDE DEF next
  <2>3. regs' \in [Registers -> Int] /\ regs'[Reg["ERDPTL"]] = Low(next) /\ regs'[Reg["ERDPTH"]] = High(next)
    BY <1>2, <1>8, <1>9, <2>2
  <2>4. \A s \in Registers : s # Reg["ERDPTL"] /\ s # Reg["ERDPTH"] => regs'[s] = regs[s]
    BY <1>2, <1>8, <2>2
  <2> QED
    BY <2>1, <2>3, <2>4, RegisterFacts
<1>11. packetPtr' \in Nat /\ rxLen' \in Nat
  <2>1. Base * mem[at] \in Nat
    BY <1>7, EncAssumption DEF EncAssumption
  <2>2. size \in Nat
    BY <1>2 DEF size
  <2>3. packetPtr + Base * mem[at] \in Nat /\ rxLen + Base * mem[at] \in Nat
    BY <1>2, <2>1
  <2> QED
    BY <1>2, <1>7, <1>8, <2>2, <2>3
<1>12. EncTypeOK'
  BY <1>8, <1>10, <1>11 DEF EncTypeOK, rxVars, txVars
<1>13. TxInv'
  <2>1. regs'[Reg["ETXNDL"]] = regs[Reg["ETXNDL"]] /\ regs'[Reg["ETXNDH"]] = regs[Reg["ETXNDH"]]
    BY <1>10 DEF Names
  <2> QED
    BY <1>8, <2>1, TxKept
<1>14. Ready'
  <2>1. \A m \in ConfigNames : regs'[Reg[m]] = regs[Reg[m]]
    <3>1. \A m \in ConfigNames : m \in Names /\ m \notin {"ERDPTL", "ERDPTH"}
      BY DEF ConfigNames, Names
    <3> QED
      BY <1>10, <3>1
  <2>2. Configured'
    BY <2>1, ConfiguredKept DEF Ready
  <2>3. regs'[Reg["EPKTCNT"]] = regs[Reg["EPKTCNT"]]
    BY <1>10 DEF Names
  <2> QED
    BY <1>8, <2>2, <2>3 DEF Ready, rxVars
<1>15. RingHolds(unread)' /\ UNCHANGED <<unread, rxEnd, First, Following>>
  BY <1>8 DEF RingHolds, First, Following, rxVars
<1>16. ASSUME what # "copy", j < 6
       PROVE  Word("ERDPTL", "ERDPTH")' = Moved(rxEnd, j + 1)
  <2>1. j + 1 \in 0 .. 6 + Len(First.frame)
    BY <1>1, <1>16
  <2>2. j + 1 < RingSize
    BY <1>1, <2>1, RingFacts
  <2>3. Moved(Moved(rxEnd, j), 1) = Moved(rxEnd, j + 1)
    BY <1>1, <1>2, <1>3, <2>2, MovedTwice
  <2>4. next = Moved(rxEnd, j + 1)
    BY <1>16, <2>3 DEF n, at
  <2>5. Word("ERDPTL", "ERDPTH")' = next
    BY <1>9, <1>10 DEF Word
  <2> QED
    BY <2>4, <2>5
<1> QED
  BY <1>12, <1>13, <1>14, <1>15, <1>16

(* The six bytes of the header are read.                                     *)
LEMMA ReceiveHeader ==
    ASSUME EncInv, Spi, NEW k \in 4 .. 9, Receiving(k)
    PROVE  EncInv'
<1> DEFINE o == PacketReceive[k]
           what == IF k = 4 THEN "nextLow" ELSE IF k = 5 THEN "nextHigh" ELSE IF k = 6 THEN "lenLow"
                   ELSE IF k = 7 THEN "lenHigh" ELSE "stat"
           j == k - 4
<1>1. o.op = what
  BY ReceiveProgram DEF Get
<1>2. SUFFICES ASSUME EncTypeOK, TxInv, Ready, ~WrongBank(o), Transaction(o),
                      ops' = Rest(PacketReceive, k + 1)
               PROVE  EncInv'
  BY ReceiveSpi
<1>3. BufferRead(what) /\ what \in {"nextLow", "nextHigh", "lenLow", "lenHigh", "stat", "copy"}
  BY <1>1, <1>2, Kinds
<1>4. what # "copy" /\ j \in 0 .. 5 /\ j \in 0 .. 6 /\ j < 6 /\ j + 1 = (k + 1) - 4 /\ k + 1 \in 1 .. 13
  OBVIOUS
<1>5. /\ unread # <<>> /\ RingHolds(unread) /\ Word("ERDPTL", "ERDPTH") = Moved(rxEnd, j)
      /\ k = 5 => packetPtr = Low(Following)
      /\ k >= 6 => packetPtr = Following
      /\ k = 7 => rxLen = Low(Len(First.frame))
      /\ k \in 8 .. 10 => rxLen = Len(First.frame)
  BY DEF Receiving
<1> HIDE DEF o
<1>6. /\ mem[Moved(rxEnd, 0)] = Low(Following) /\ mem[Moved(rxEnd, 1)] = High(Following)
      /\ mem[Moved(rxEnd, 2)] = Low(Len(First.frame)) /\ mem[Moved(rxEnd, 3)] = High(Len(First.frame))
      /\ Following \in Nat /\ Len(First.frame) \in Nat
  BY <1>2, <1>5, FirstRead
<1>7. /\ Low(Following) + Base * High(Following) = Following
      /\ Low(Len(First.frame)) + Base * High(Len(First.frame)) = Len(First.frame)
  BY <1>6, WordHalves
<1>8. /\ EncTypeOK' /\ TxInv' /\ Ready'
      /\ RingHolds(unread)' /\ UNCHANGED <<unread, rxEnd, First, Following>>
      /\ Word("ERDPTL", "ERDPTH")' = Moved(rxEnd, j + 1)
  <2> HIDE DEF what, j
  <2> QED
    BY <1>2, <1>3, <1>4, <1>5, ReadFacts
<1>9. /\ packetPtr' = CASE what = "nextLow" -> mem[Moved(rxEnd, j)]
                        [] what = "nextHigh" -> packetPtr + Base * mem[Moved(rxEnd, j)]
                        [] OTHER -> packetPtr
      /\ rxLen' = CASE what = "lenLow" -> mem[Moved(rxEnd, j)]
                  [] what = "lenHigh" -> rxLen + Base * mem[Moved(rxEnd, j)]
                  [] OTHER -> rxLen
  BY <1>3, <1>4, <1>5 DEF BufferRead
<1>10. /\ k = 4 => packetPtr' = Low(Following)
       /\ k >= 5 => packetPtr' = Following
  BY <1>5, <1>6, <1>7, <1>9
<1>11. /\ k = 6 => rxLen' = Low(Len(First.frame))
       /\ k >= 7 => rxLen' = Len(First.frame)
  BY <1>5, <1>6, <1>7, <1>9
<1>12. Receiving(k + 1)'
  <2>1. k + 1 > 4 /\ k + 1 <= 10
    OBVIOUS
  <2>2. Word("ERDPTL", "ERDPTH")' = Moved(rxEnd', (k + 1) - 4)
    BY <1>4, <1>8
  <2>3. /\ k + 1 = 5 => packetPtr' = Low(Following')
        /\ k + 1 >= 6 => packetPtr' = Following'
        /\ k + 1 = 7 => rxLen' = Low(Len(First'.frame))
        /\ k + 1 \in 8 .. 10 => rxLen' = Len(First'.frame)
    BY <1>8, <1>10, <1>11
  <2> DEFINE next == k + 1
  <2>4. next \in 5 .. 10
    OBVIOUS
  <2> HIDE DEF next
  <2>5. /\ Word("ERDPTL", "ERDPTH")' = Moved(rxEnd', next - 4)
        /\ next = 5 => packetPtr' = Low(Following')
        /\ next >= 6 => packetPtr' = Following'
        /\ next = 7 => rxLen' = Low(Len(First'.frame))
        /\ next \in 8 .. 10 => rxLen' = Len(First'.frame)
        /\ ops' = Rest(PacketReceive, next)
    BY <1>2, <2>2, <2>3 DEF next
  <2>6. Receiving(next)'
    BY <1>5, <1>8, <2>4, <2>5 DEF Receiving
  <2> QED
    BY <2>6 DEF next
<1> QED
  BY <1>4, <1>8, <1>12 DEF EncInv, Progress

(* The frame is copied to uip_buf, cut to its size.                          *)
LEMMA ReceiveCopy ==
    ASSUME EncInv, Spi, Receiving(10)
    PROVE  EncInv'
<1> DEFINE o == PacketReceive[10]
           g == First.frame
           n == IF rxLen < MaxLen THEN rxLen ELSE MaxLen
<1>1. o.op = "copy"
  BY ReceiveProgram DEF Get
<1>2. EncTypeOK /\ TxInv /\ Ready
  BY DEF EncInv, Receiving
<1>3. SUFFICES ASSUME ~WrongBank(o), Transaction(o), ops' = Rest(PacketReceive, 11)
               PROVE  EncInv'
  <2>1. 10 \in 1 .. 13 /\ 10 + 1 = 11 /\ 10 # 1 /\ 10 # 13
    OBVIOUS
  <2>2. \/ EncInv'
        \/ /\ ~WrongBank(o) /\ Transaction(o)
           /\ ops' = IF (10 = 1 /\ NoneReceived) \/ 10 = 13 THEN <<>> ELSE Rest(PacketReceive, 10 + 1)
    BY <2>1, ReceiveSpi
  <2> QED
    BY <2>1, <2>2
<1>4. BufferRead("copy")
  BY <1>1, <1>3, Kinds
<1>5. /\ unread # <<>> /\ RingHolds(unread) /\ Word("ERDPTL", "ERDPTH") = Moved(rxEnd, 6)
      /\ packetPtr = Following /\ rxLen = Len(g)
  <2>1. 10 - 4 = 6
    OBVIOUS
  <2> QED
    BY <2>1 DEF Receiving
<1> HIDE DEF o
<1>6. /\ EncTypeOK' /\ TxInv' /\ Ready'
      /\ RingHolds(unread)' /\ UNCHANGED <<unread, rxEnd, First, Following>>
  <2>1. 6 \in 0 .. 6
    OBVIOUS
  <2> QED
    BY <1>2, <1>4, <1>5, <2>1, ReadFacts
<1>7. /\ \A i \in 1 .. Len(g) : mem[Moved(rxEnd, 5 + i)] = g[i]
      /\ \A i \in 0 .. 6 + Len(g) : i \in 0 .. RingSize - 1
      /\ g \in Seq(Nat) /\ Len(g) \in Nat /\ rxEnd \in Addresses /\ MaxLen \in Nat
  BY <1>2, <1>5, FirstRead, EncAssumption DEF Ready, EncAssumption
<1>8. /\ uipBuf' = [i \in 1 .. n |-> mem[Moved(Moved(rxEnd, 6), i - 1)]] /\ packetPtr' = packetPtr
  BY <1>4, <1>5 DEF BufferRead
<1> HIDE DEF g
<1>9. n \in Nat /\ n <= Len(g) /\ n = IF Len(g) <= MaxLen THEN Len(g) ELSE MaxLen
  BY <1>5, <1>7
<1> HIDE DEF n
<1>10. ASSUME NEW i \in 1 .. n
       PROVE  mem[Moved(Moved(rxEnd, 6), i - 1)] = g[i]
  <2>1. /\ i \in 1 .. Len(g) /\ 6 \in 0 .. 6 + Len(g) /\ i - 1 \in 0 .. 6 + Len(g)
        /\ 6 + (i - 1) \in 0 .. 6 + Len(g) /\ 6 + (i - 1) = 5 + i
    <3>1. Len(g) \in Nat /\ n \in Nat /\ n <= Len(g)
      BY <1>7, <1>9
    <3> QED
      BY <3>1
  <2>2. 6 + (i - 1) < RingSize
    BY <1>7, <2>1, RingFacts
  <2>3. Moved(Moved(rxEnd, 6), i - 1) = Moved(rxEnd, 6 + (i - 1))
    BY <1>7, <2>1, <2>2, MovedTwice
  <2> QED
    BY <1>7, <2>1, <2>3
<1>11. uipBuf' = [i \in 1 .. n |-> g[i]]
  BY <1>8, <1>10
<1>12. uipBuf' = Shorter(g, MaxLen)
  <2> DEFINE b == [i \in 1 .. n |-> g[i]]
  <2>1. \A i \in 1 .. n : g[i] \in Nat
    BY <1>7, <1>9, ElementOfSeq
  <2>2. b \in Seq(Nat) /\ Len(b) = n /\ \A i \in 1 .. n : b[i] = g[i]
    <3>1. b \in [1 .. n -> Nat] /\ \A i \in 1 .. n : b[i] = g[i]
      BY <2>1
    <3> HIDE DEF b
    <3>2. b \in Seq(Nat)
      BY <1>9, <3>1, SeqDef
    <3>3. DOMAIN b = 1 .. n
      BY <3>1
    <3>4. Len(b) = n
      BY <1>9, <3>2, <3>3, LenProperties
    <3> QED
      BY <3>1, <3>2, <3>4
  <2> HIDE DEF b
  <2>3. CASE Len(g) <= MaxLen
    <3>1. b = g
      BY <1>7, <1>9, <2>2, <2>3, SeqEqual
    <3> QED
      BY <1>11, <2>3, <3>1 DEF Shorter, b
  <2>4. CASE ~(Len(g) <= MaxLen)
    <3> DEFINE c == SubSeq(g, 1, n)
    <3>1. n = MaxLen
      BY <1>9, <2>4
    <3>2. c \in Seq(Nat) /\ Len(c) = n /\ \A i \in 1 .. n : c[i] = g[i]
      <4>1. /\ c \in Seq(Nat) /\ Len(c) = IF 1 <= n THEN n - 1 + 1 ELSE 0
            /\ \A i \in 1 .. n - 1 + 1 : c[i] = g[1 + i - 1]
        BY <1>9, <2>1, SubSeqProperties
      <4> QED
        BY <1>9, <4>1
    <3> HIDE DEF c
    <3>3. b = c
      BY <2>2, <3>2, SeqEqual
    <3> QED
      BY <1>11, <2>4, <3>1, <3>3 DEF Shorter, b, c
  <2> QED
    BY <2>3, <2>4
<1>13. Receiving(11)'
  <2>1. uipBuf' = Shorter(First.frame, MaxLen)' /\ packetPtr' = Following'
    BY <1>5, <1>6, <1>8, <1>12 DEF g
  <2>2. unread' # <<>>
    BY <1>5, <1>6
  <2> QED
    BY <1>3, <1>6, <2>1, <2>2 DEF Receiving
<1> QED
  BY <1>6, <1>13 DEF EncInv, Progress

(* The place of the frame is given back: packet_ptr is written to ERXRDPT.   *)
LEMMA ReceiveFree ==
    ASSUME EncInv, Spi, NEW k \in {11, 12}, Receiving(k)
    PROVE  EncInv'
<1> DEFINE o == PacketReceive[k]
           n == IF k = 11 THEN "ERXRDPTL" ELSE "ERXRDPTH"
           v == IF k = 11 THEN Low(packetPtr) ELSE High(packetPtr)
<1>1. /\ o.op = IF k = 11 THEN "low" ELSE "high"
      /\ o.reg = Reg[n]
  BY ReceiveProgram DEF Pointer
<1>2. SUFFICES ASSUME EncTypeOK, TxInv, Ready, ~WrongBank(o), Transaction(o),
                      ops' = Rest(PacketReceive, k + 1)
               PROVE  EncInv'
  BY ReceiveSpi
<1>3. packetPtr \in Nat /\ Low(packetPtr) + Base * High(packetPtr) = packetPtr
  BY <1>2, WordHalves DEF EncTypeOK
<1>4. RegWrite(Reg[n], v) /\ bank = 0 /\ v \in Int
  <2>1. RegWrite(Reg[n], v)
    BY <1>1, <1>2, Kinds
  <2>2. Reg[n][1] = bank
    BY <1>1, <1>2 DEF WrongBank
  <2>3. v \in Int
    <3>1. Low(packetPtr) \in Int /\ High(packetPtr) \in Int
      BY <1>3, WordHalves
    <3> QED
      BY <3>1
  <2> QED
    BY <2>1, <2>2, <2>3, RegFacts
<1>5. /\ unread # <<>> /\ RingHolds(unread) /\ packetPtr = Following
      /\ uipBuf = Shorter(First.frame, MaxLen)
      /\ k = 12 => regs[Reg["ERXRDPTL"]] = Low(packetPtr)
  BY DEF Receiving
<1>6. Following \in Addresses /\ Ring(Following, Tail(unread), writePtr)
  BY <1>2, <1>5, FirstRead
<1>7. n = "ERXRDPTH" => regs[Reg["ERXRDPTL"]] + Base * v = packetPtr
  BY <1>3, <1>5
<1> HIDE DEF o
<1>8. /\ n \in Pointers
      /\ n \notin {"ETXNDL", "ETXNDH"}
  BY DEF Pointers
<1> HIDE DEF n, v
<1>9. /\ EncTypeOK' /\ TxInv' /\ Ready'
      /\ regs'[Reg[n]] = v
      /\ rxEnd' = IF n = "ERXRDPTH" THEN regs[Reg["ERXRDPTL"]] + Base * v ELSE rxEnd
      /\ UNCHANGED <<bank, packetPtr, rxLen, uipBuf, econ1, mem, unread, writePtr, txVars>>
  BY <1>2, <1>4, <1>5, <1>6, <1>7, <1>8, CallWrite
<1>10. UNCHANGED <<First, Following>> /\ unread' # <<>>
  BY <1>5, <1>9 DEF First, Following
<1>11. CASE k = 11
  <2>1. rxEnd' = rxEnd /\ regs'[Reg["ERXRDPTL"]] = Low(packetPtr)
    BY <1>9, <1>11 DEF n, v
  <2>2. RingHolds(unread)'
    BY <1>5, <1>9, <2>1 DEF RingHolds
  <2>3. uipBuf' = Shorter(First.frame, MaxLen)' /\ packetPtr' = Following'
    BY <1>5, <1>9, <1>10
  <2>4. Receiving(12)'
    BY <1>2, <1>9, <1>10, <1>11, <2>1, <2>2, <2>3 DEF Receiving
  <2> QED
    BY <1>9, <2>4 DEF EncInv, Progress
<1>12. CASE k = 12
  <2>1. rxEnd' = packetPtr'
    BY <1>7, <1>9, <1>12 DEF n
  <2>2. uipBuf' = Shorter(First.frame, MaxLen)' /\ packetPtr' = Following'
    BY <1>5, <1>9, <1>10
  <2>3. RingHolds(Tail(unread))'
    <3> DEFINE q == unread
    <3>1. q \in Seq(Entries) /\ q # <<>> /\ \A i \in DOMAIN q : Holds(mem, q[i])
      BY <1>2, <1>5 DEF EncTypeOK, RingHolds, Layout
    <3> HIDE DEF q
    <3>2. ASSUME NEW i \in DOMAIN Tail(q)
          PROVE  Holds(mem, Tail(q)[i])
      <4>1. Tail(q) \in Seq(Entries) /\ Len(Tail(q)) = Len(q) - 1 /\ Len(q) \in Nat
            /\ \A a \in 1 .. Len(q) - 1 : Tail(q)[a] = q[a + 1]
        BY <3>1, HeadTailProperties, LenProperties
      <4>2. i \in 1 .. Len(q) - 1 /\ DOMAIN q = 1 .. Len(q)
        BY <3>1, <4>1, LenProperties
      <4>3. Tail(q)[i] = q[i + 1] /\ i + 1 \in DOMAIN q
        BY <4>1, <4>2
      <4> QED
        BY <3>1, <4>3
    <3>3. Layout(mem, Following, Tail(unread), writePtr)
      BY <1>6, <3>2 DEF Layout, q
    <3>4. mem' = mem /\ rxEnd' = Following /\ unread' = unread /\ writePtr' = writePtr
      BY <1>5, <1>9, <2>1
    <3> QED
      BY <3>3, <3>4 DEF RingHolds
  <2>4. Receiving(13)'
    BY <1>2, <1>10, <1>9, <1>12, <2>1, <2>2, <2>3 DEF Receiving
  <2> QED
    BY <1>9, <2>4 DEF EncInv, Progress
<1> QED
  BY <1>11, <1>12

(* The chip counts the frame as read.                                        *)
LEMMA ReceiveDone ==
    ASSUME EncInv, Spi, Receiving(13)
    PROVE  EncInv'
<1> DEFINE o == PacketReceive[13]
<1>1. o.op = "set" /\ o.reg = Reg["ECON2"]
  BY ReceiveProgram DEF Bits
<1>2. EncTypeOK /\ TxInv /\ Ready
  BY DEF EncInv, Receiving
<1>3. SUFFICES ASSUME ~WrongBank(o), Transaction(o), ops' = <<>>
               PROVE  EncInv'
  <2>1. 13 \in 1 .. 13
    OBVIOUS
  <2>2. \/ EncInv'
        \/ /\ ~WrongBank(o) /\ Transaction(o)
           /\ ops' = IF (13 = 1 /\ NoneReceived) \/ 13 = 13 THEN <<>> ELSE Rest(PacketReceive, 13 + 1)
    BY <2>1, ReceiveSpi
  <2> QED
    BY <2>2
<1>4. PktDec
  BY <1>1, <1>3, Kinds
<1>5. /\ regs' = [regs EXCEPT ![Reg["EPKTCNT"]] = @ - 1] /\ unread' = Tail(unread)
      /\ UNCHANGED <<driverVars, econ1, mem, rxEnd, writePtr, txVars>>
  BY <1>4 DEF PktDec
<1>6. /\ unread # <<>> /\ rxEnd = packetPtr /\ RingHolds(Tail(unread))
  BY DEF Receiving
<1> HIDE DEF o
<1>7. /\ unread' \in Seq(Entries) /\ Len(unread') = Len(unread) - 1 /\ Len(unread) \in Nat
  BY <1>2, <1>5, <1>6, HeadTailProperties, LenProperties DEF EncTypeOK
<1>8. /\ regs' \in [Registers -> Int] /\ regs'[Reg["EPKTCNT"]] = regs[Reg["EPKTCNT"]] - 1
      /\ \A n \in Names : n # "EPKTCNT" => regs'[Reg[n]] = regs[Reg[n]]
  <2>1. Reg["EPKTCNT"] \in Registers /\ regs \in [Registers -> Int]
    BY <1>2, RegisterFacts DEF Names, EncTypeOK
  <2>2. \A n \in Names : n # "EPKTCNT" => Reg[n] # Reg["EPKTCNT"]
    BY RegFacts DEF Names
  <2> QED
    BY <1>5, <2>1, <2>2, RegisterFacts
<1>9. EncTypeOK'
  BY <1>2, <1>5, <1>7, <1>8 DEF EncTypeOK, driverVars, txVars
<1>10. Ready'
  <2>1. \A m \in ConfigNames : m \in Names /\ m # "EPKTCNT"
    BY DEF ConfigNames, Names
  <2>2. Configured'
    BY <1>2, <1>8, <2>1, ConfiguredKept DEF Ready
  <2>3. regs'[Reg["EPKTCNT"]] = Len(unread')
    BY <1>2, <1>7, <1>8 DEF Ready
  <2> QED
    BY <1>2, <1>5, <2>2, <2>3 DEF Ready
<1>11. TxInv'
  <2>1. regs'[Reg["ETXNDL"]] = regs[Reg["ETXNDL"]] /\ regs'[Reg["ETXNDH"]] = regs[Reg["ETXNDH"]]
    BY <1>8 DEF Names
  <2> QED
    BY <1>2, <1>5, <2>1, TxKept
<1>12. Resting'
  BY <1>5, <1>6 DEF Resting, RingHolds, driverVars
<1> QED
  BY <1>3, <1>9, <1>10, <1>11, <1>12 DEF EncInv, Progress, Idle

(* A transaction of packet_receive.                                          *)
LEMMA ReceivingStep ==
    ASSUME EncInv, Spi, NEW k \in 1 .. 13, Receiving(k)
    PROVE  EncInv'
<1>1. k = 1 \/ k \in {2, 3} \/ k \in 4 .. 9 \/ k = 10 \/ k \in {11, 12} \/ k = 13
  OBVIOUS
<1> QED
  BY <1>1, ReceivePoll, ReceivePointer, ReceiveHeader, ReceiveCopy, ReceiveFree, ReceiveDone

-----------------------------------------------------------------------------
(* enc28j60_packet_send                                                      *)

(* A frame is sent in nine transactions or ten.                              *)
LEMMA SendLength ==
    ASSUME NEW f \in TxFrames
    PROVE  /\ Len(PacketSend(f)) \in 9 .. 10
           /\ \A i \in 1 .. 8 : i # Len(PacketSend(f)) /\ i + 1 \in DOMAIN PacketSend(f)
<1>1. Len(PacketSend(f)) \in 9 .. 10 /\ DOMAIN PacketSend(f) = 1 .. Len(PacketSend(f))
  BY SendProgram
<1>2. \A l \in 9 .. 10 : \A i \in 1 .. 8 : i # l /\ i + 1 \in 1 .. l
  OBVIOUS
<1>3. \A i \in 1 .. 8 : i # Len(PacketSend(f)) /\ i + 1 \in 1 .. Len(PacketSend(f))
  BY <1>1, <1>2
<1> QED
  BY <1>1, <1>3

SendOp(o) ==
    \/ o.op \in {"set", "clr"} /\ o.reg = Reg["ECON1"]
    \/ \E n \in {"EWRPTL", "EWRPTH", "ETXNDL", "ETXNDH"} : \E v : o = Write(n, v)
    \/ \E b : o = Put(b)

(* What the transactions of packet_send are.                                 *)
LEMMA SendOps ==
    ASSUME NEW f \in TxFrames, NEW k \in DOMAIN PacketSend(f)
    PROVE  SendOp(PacketSend(f)[k])
<1> DEFINE P == PacketSend(f)
           o == P[k]
<1> SUFFICES SendOp(o)
  OBVIOUS
<1>1. Len(P) \in 9 .. 10 /\ k \in 1 .. Len(P)
  BY SendProgram
<1>2. CASE k \in {1, 2} \/ k = Len(P)
  <2>1. \E op \in {"set", "clr"} : \E v : o = Bits(op, "ECON1", v)
    BY <1>2, SendProgram
  <2> HIDE DEF o, P
  <2> QED
    BY <2>1 DEF Bits, SendOp
<1>3. CASE k \in 3 .. 6
  <2>1. k = 3 \/ k = 4 \/ k = 5 \/ k = 6
    BY <1>3
  <2>2. \E n \in {"EWRPTL", "EWRPTH", "ETXNDL", "ETXNDH"} : \E v : o = Write(n, v)
    BY <2>1, SendProgram
  <2> QED
    BY <2>2 DEF SendOp
<1>4. CASE k \in {7, 8}
  <2>1. o = Put(<<0>>) \/ o = Put(Parts(f)[1])
    BY <1>4, SendProgram
  <2> QED
    BY <2>1 DEF SendOp
<1>5. CASE k = 9 /\ Len(P) = 10
  <2>1. Len(f) > HeadLen
    <3>1. Len(f) \in Nat /\ HeadLen \in Nat
      BY PartFacts, EncAssumption DEF EncAssumption
    <3>2. Len(P) = IF Len(f) <= HeadLen THEN 9 ELSE 10
      BY SendProgram
    <3>3. Len(P) = 10
      BY <1>5
    <3> HIDE DEF P
    <3>4. ~(Len(f) <= HeadLen)
      BY <3>2, <3>3
    <3> QED
      BY <3>1, <3>4
  <2>2. o = Put(Parts(f)[2])
    BY <1>5, <2>1, SendProgram
  <2> QED
    BY <2>2 DEF SendOp
<1>6. k \in {1, 2} \/ k = Len(P) \/ k \in 3 .. 6 \/ k \in {7, 8} \/ (k = 9 /\ Len(P) = 10)
  <2>1. ASSUME NEW l \in 9 .. 10, k \in 1 .. l
        PROVE  k \in {1, 2} \/ k = l \/ k \in 3 .. 6 \/ k \in {7, 8} \/ (k = 9 /\ l = 10)
    BY <2>1
  <2> HIDE DEF P
  <2> QED
    BY <1>1, <2>1
<1> QED
  BY <1>2, <1>3, <1>4, <1>5, <1>6

(* A transaction of packet_send, or the choice of the bank before it.        *)
LEMMA SendSpi ==
    ASSUME EncInv, Spi, NEW f \in TxFrames, NEW k \in DOMAIN PacketSend(f), Sending(f, k)
    PROVE  \/ EncInv'
           \/ /\ EncTypeOK /\ TxInv /\ Ready /\ Resting /\ ~WrongBank(PacketSend(f)[k])
              /\ Transaction(PacketSend(f)[k])
              /\ ops' = IF k = Len(PacketSend(f)) THEN <<>> ELSE Rest(PacketSend(f), k + 1)
<1> DEFINE P == PacketSend(f)
           o == P[k]
<1>1. /\ P \in Seq(Steps(P)) /\ Len(P) \in 9 .. 10 /\ DOMAIN P = 1 .. Len(P)
      /\ NetworkInit \in Seq(Steps(NetworkInit)) /\ Len(NetworkInit) = 29
  BY SendProgram, InitProgram
<1>2. /\ ops = Rest(P, k) /\ EncTypeOK /\ TxInv /\ Ready /\ Resting
      /\ k \in 1 .. Len(P)
  BY <1>1 DEF Sending, EncInv
<1>3. o.reg \in Registers /\ o.reg # Reg["EPKTCNT"]
  <2>1. \A n \in {"EWRPTL", "EWRPTH", "ETXNDL", "ETXNDH", "ECON1"} :
           Reg[n] \in Registers /\ Reg[n] # Reg["EPKTCNT"]
    BY RegFacts, RegisterFacts DEF Names
  <2>2. SendOp(o)
    BY SendOps
  <2> HIDE DEF o, P
  <2>3. CASE o.op \in {"set", "clr"} /\ o.reg = Reg["ECON1"]
    BY <2>1, <2>3
  <2>4. CASE \E n \in {"EWRPTL", "EWRPTH", "ETXNDL", "ETXNDH"} : \E v : o = Write(n, v)
    BY <2>1, <2>4 DEF Write
  <2>5. CASE \E b : o = Put(b)
    BY <2>1, <2>5 DEF Put
  <2> QED
    BY <2>2, <2>3, <2>4, <2>5 DEF SendOp
<1> HIDE DEF P
<1>4. ops # Rest(NetworkInit, 12)
  <2>1. SUFFICES ASSUME ops = Rest(NetworkInit, 12) PROVE FALSE
    OBVIOUS
  <2>2. Len(Rest(NetworkInit, 12)) = 18
    BY <1>1, SubSeqProperties, ElementOfSeq DEF Rest
  <2>3. Len(Rest(P, k)) = Len(P) - k + 1
    <3>1. \A i \in k .. Len(P) : P[i] \in Steps(P)
      BY <1>1, <1>2, ElementOfSeq
    <3>2. Len(Rest(P, k)) = IF k <= Len(P) THEN Len(P) - k + 1 ELSE 0
      BY <1>1, <1>2, <3>1, SubSeqProperties DEF Rest
    <3> QED
      BY <1>1, <1>2, <3>2
  <2>4. ASSUME NEW l \in 9 .. 10, k \in 1 .. l
        PROVE  l - k + 1 # 18
    BY <2>4
  <2>5. Len(P) - k + 1 # 18
    BY <1>1, <1>2, <2>4
  <2> QED
    BY <1>2, <2>1, <2>2, <2>3, <2>5
<1> HIDE DEF o
<1>5. \/ WrongBank(o) /\ BankSet(o.reg[1])
      \/ /\ ~WrongBank(o) /\ Transaction(o)
         /\ ops' = IF k = Len(P) THEN <<>> ELSE Rest(P, k + 1)
  BY <1>1, <1>2, <1>3, SpiHead DEF o
<1>6. CASE WrongBank(o) /\ BankSet(o.reg[1])
  BY <1>3, <1>4, <1>6, BankStep
<1> QED
  BY <1>2, <1>5, <1>6 DEF o, P

(* The transmitter is stopped before anything of the new frame is written.   *)
LEMMA SendStop ==
    ASSUME EncInv, Spi, NEW f \in TxFrames, NEW k \in {1, 2}, k \in DOMAIN PacketSend(f), Sending(f, k)
    PROVE  EncInv'
<1> DEFINE o == PacketSend(f)[k]
<1>1. /\ Len(PacketSend(f)) \in 9 .. 10 /\ DOMAIN PacketSend(f) = 1 .. Len(PacketSend(f))
      /\ o = Bits(IF k = 1 THEN "set" ELSE "clr", "ECON1", {"TXRST"})
  BY SendProgram
<1>2. SUFFICES ASSUME EncTypeOK, TxInv, Ready, Resting, Transaction(o), ops' = Rest(PacketSend(f), k + 1)
               PROVE  EncInv'
  BY <1>1, SendSpi
<1>3. /\ o.op = IF k = 1 THEN "set" ELSE "clr"
      /\ o.reg = Reg["ECON1"] /\ o.val = {"TXRST"}
  BY <1>1 DEF Bits
<1> HIDE DEF o
<1>4. /\ econ1' = IF k = 1 THEN (econ1 \cup {"TXRST"}) \ {"TXRTS"} ELSE econ1 \ {"TXRST"}
      /\ txPos' = 0 /\ UNCHANGED <<driverVars, regs, mem, rxVars>>
  <2>1. CASE k = 1
    <3>1. Econ1Set({"TXRST"})
      <4>1. Econ1Set(o.val)
        BY <1>2, <1>3, <2>1, Kinds
      <4> QED
        BY <1>3, <4>1
    <3> QED
      BY <2>1, <3>1 DEF Econ1Set
  <2>2. CASE k = 2
    <3>1. econ1' = econ1 \ o.val /\ UNCHANGED <<driverVars, regs, mem, rxVars, txVars>>
      BY <1>2, <1>3, <2>2, Kinds
    <3> QED
      BY <1>3, <2>2, <3>1 DEF Sending, txVars
  <2> QED
    BY <2>1, <2>2
<1>5. /\ "RXEN" \in econ1' <=> "RXEN" \in econ1
      /\ econ1' \cap {"BSEL0", "BSEL1"} = econ1 \cap {"BSEL0", "BSEL1"}
      /\ "TXRTS" \notin econ1'
  <2>1. k = 2 => "TXRTS" \notin econ1
    BY <1>2 DEF Sending, EncTypeOK
  <2> QED
    BY <1>4, <2>1
<1>6. EncTypeOK'
  BY <1>2, <1>4, <1>5 DEF EncTypeOK, driverVars, rxVars
<1>7. TxInv'
  BY <1>4 DEF TxInv
<1>8. Ready' /\ Resting'
  BY <1>2, <1>4, <1>5 DEF Ready, Configured, Word, Resting, RingHolds, driverVars, rxVars
<1>9. Sending(f, k + 1)'
  <2>1. k + 1 \in {2, 3} /\ uipBuf' = f
    BY <1>4 DEF Sending, driverVars
  <2> QED
    BY <1>2, <1>4, <1>8, <2>1 DEF Sending
<1>10. k + 1 \in DOMAIN PacketSend(f)
  BY <1>1
<1> QED
  BY <1>6, <1>7, <1>9, <1>10 DEF EncInv, Progress

(* Where the frame is written to, and where it ends.                         *)
LEMMA SendPointers ==
    ASSUME EncInv, Spi, NEW f \in TxFrames, NEW k \in 3 .. 6, k \in DOMAIN PacketSend(f), Sending(f, k)
    PROVE  EncInv'
<1> DEFINE o == PacketSend(f)[k]
           n == IF k = 3 THEN "EWRPTL" ELSE IF k = 4 THEN "EWRPTH" ELSE IF k = 5 THEN "ETXNDL" ELSE "ETXNDH"
           end == TxStart + Len(f)
           v == IF k = 3 THEN Low(TxStart) ELSE IF k = 4 THEN High(TxStart)
                ELSE IF k = 5 THEN Low(end) ELSE High(end)
<1>1. /\ Len(PacketSend(f)) \in 9 .. 10 /\ DOMAIN PacketSend(f) = 1 .. Len(PacketSend(f))
      /\ o = Write(n, v)
  BY SendProgram
<1>2. SUFFICES ASSUME EncTypeOK, TxInv, Ready, Resting, ~WrongBank(o), Transaction(o),
                      ops' = Rest(PacketSend(f), k + 1)
               PROVE  EncInv'
  <2> HIDE DEF n, v, end
  <2>1. k # Len(PacketSend(f))
    <3>1. \A l \in 9 .. 10 : k # l
      OBVIOUS
    <3> QED
      BY <1>1, <3>1
  <2> QED
    BY <2>1, SendSpi
<1>3. /\ TxStart \in Nat /\ end \in Nat
      /\ Low(TxStart) \in Int /\ High(TxStart) \in Int /\ Low(end) \in Int /\ High(end) \in Int
      /\ Low(TxStart) + Base * High(TxStart) = TxStart /\ Low(end) + Base * High(end) = end
  <2>1. TxStart \in Nat /\ end \in Nat
    BY PartFacts
  <2>2. \A i \in Nat : Low(i) \in Int /\ High(i) \in Int /\ Low(i) + Base * High(i) = i
    BY WordHalves
  <2> HIDE DEF end
  <2> QED
    BY <2>1, <2>2
<1>4. RegWrite(Reg[n], v) /\ bank = 0 /\ v \in Int
  <2>1. o.op = "write" /\ o.reg = Reg[n] /\ o.val = v
    BY <1>1 DEF Write
  <2> HIDE DEF o
  <2>2. RegWrite(Reg[n], v)
    BY <1>2, <2>1, Kinds
  <2>3. Reg[n][1] = bank
    BY <1>2, <2>1 DEF WrongBank
  <2> HIDE DEF end
  <2>4. v \in Int
    BY <1>3
  <2> QED
    BY <2>2, <2>3, <2>4, RegFacts
<1> HIDE DEF o
<1>5. /\ n \in Pointers
      /\ n # "ERXRDPTH"
  BY DEF Pointers
<1>6. /\ txPos = 0 /\ uipBuf = f
      /\ k = 4 => regs[Reg["EWRPTL"]] = Low(TxStart)
      /\ k \in 5 .. 7 => Word("EWRPTL", "EWRPTH") = TxStart
      /\ k = 6 => regs[Reg["ETXNDL"]] = Low(end)
  BY DEF Sending
<1> HIDE DEF n, v, end
<1>7. /\ EncTypeOK' /\ TxInv' /\ Ready'
      /\ regs'[Reg[n]] = v /\ \A m \in Names : m # n => regs'[Reg[m]] = regs[Reg[m]]
      /\ rxEnd' = rxEnd
      /\ UNCHANGED <<bank, packetPtr, rxLen, uipBuf, econ1, mem, unread, writePtr, txVars>>
  BY <1>2, <1>4, <1>5, <1>6, CallWrite
<1>8. Resting' /\ uipBuf' = f /\ txPos' = 0
  BY <1>2, <1>6, <1>7 DEF Resting, RingHolds, txVars
<1>9. k = 3 => regs'[Reg["EWRPTL"]] = Low(TxStart)
  BY <1>7 DEF n, v
<1>10. k \in 4 .. 6 => Word("EWRPTL", "EWRPTH")' = TxStart
  <2>1. CASE k = 4
    <3>1. regs'[Reg["EWRPTH"]] = High(TxStart) /\ regs'[Reg["EWRPTL"]] = Low(TxStart)
      BY <1>6, <1>7, <2>1 DEF n, v, Names
    <3> QED
      BY <1>3, <3>1 DEF Word
  <2>2. CASE k \in {5, 6}
    BY <1>6, <1>7, <2>2 DEF n, Names, Word
  <2> QED
    BY <2>1, <2>2
<1>11. k = 5 => regs'[Reg["ETXNDL"]] = Low(end)
  BY <1>7 DEF n, v
<1>12. k = 6 => Word("ETXNDL", "ETXNDH")' = end
  <2> SUFFICES ASSUME k = 6 PROVE Word("ETXNDL", "ETXNDH")' = end
    OBVIOUS
  <2>1. regs'[Reg["ETXNDH"]] = High(end) /\ regs'[Reg["ETXNDL"]] = Low(end)
    BY <1>6, <1>7 DEF n, v, Names
  <2> QED
    BY <1>3, <2>1 DEF Word
<1>13. Sending(f, k + 1)'
  <2>1. k = 3 \/ k = 4 \/ k = 5 \/ k = 6
    OBVIOUS
  <2>2. CASE k = 3
    BY <1>2, <1>7, <1>8, <1>9, <2>2 DEF Sending
  <2>3. CASE k = 4
    BY <1>2, <1>7, <1>8, <1>10, <2>3 DEF Sending
  <2>4. CASE k = 5
    BY <1>2, <1>7, <1>8, <1>10, <1>11, <2>4 DEF Sending, end
  <2>5. CASE k = 6
    BY <1>2, <1>7, <1>8, <1>10, <1>12, <2>5 DEF Sending, end
  <2> QED
    BY <2>1, <2>2, <2>3, <2>4, <2>5
<1>14. k + 1 \in DOMAIN PacketSend(f)
  BY <1>1
<1> QED
  BY <1>7, <1>13, <1>14 DEF EncInv, Progress

(* A part of the frame is written behind what is there already.              *)
LEMMA PutFacts ==
    ASSUME EncTypeOK, Ready, Resting, txPos = 0, NEW b \in Seq(Nat), NEW at \in Nat,
           Word("EWRPTL", "EWRPTH") = at, TxStart <= at, at + Len(b) <= RxStart, BufferWrite(b)
    PROVE  /\ EncTypeOK' /\ TxInv' /\ Ready' /\ Resting'
           /\ \A i \in 1 .. Len(b) : mem'[at + i - 1] = b[i]
           /\ \A a \in TxStart .. at - 1 : mem'[a] = mem[a]
           /\ Word("EWRPTL", "EWRPTH")' = at + Len(b)
           /\ Word("ETXNDL", "ETXNDH")' = Word("ETXNDL", "ETXNDH")
           /\ UNCHANGED <<uipBuf, txPos>>
<1> DEFINE n == Len(b)
           next == at + n
<1>1. /\ mem \in Memories /\ n \in Nat /\ regs \in [Registers -> Int] /\ unread \in Seq(Entries)
      /\ rxEnd \in Addresses /\ writePtr \in Addresses
      /\ TxStart \in Nat /\ RxStart \in Nat /\ RxStop \in Nat /\ TxStart < RxStart /\ RxStart < RxStop
  BY LenProperties, EncAssumption DEF EncTypeOK, Ready, EncAssumption
<1>2. /\ mem' = [a \in DOMAIN mem |-> IF a - at \in 0 .. n - 1 THEN b[a - at + 1] ELSE mem[a]]
      /\ regs' = [regs EXCEPT ![Reg["EWRPTL"]] = Low(next), ![Reg["EWRPTH"]] = High(next)]
      /\ UNCHANGED <<driverVars, econ1, rxVars, txVars>>
  BY DEF BufferWrite
<1>3. \A i \in 1 .. n : b[i] \in Nat
  BY ElementOfSeq
<1> HIDE DEF n
<1>4. DOMAIN mem = TxStart .. RxStop /\ \A a \in TxStart .. RxStop : mem[a] \in Nat
  BY <1>1 DEF Memories
<1>5. ASSUME NEW a \in TxStart .. RxStop
      PROVE  /\ mem'[a] = IF a - at \in 0 .. n - 1 THEN b[a - at + 1] ELSE mem[a]
             /\ mem'[a] \in Nat
  <2>1. mem'[a] = IF a - at \in 0 .. n - 1 THEN b[a - at + 1] ELSE mem[a]
    BY <1>2, <1>4
  <2>2. a - at \in 0 .. n - 1 => a - at + 1 \in 1 .. n
    BY <1>1
  <2> QED
    BY <1>3, <1>4, <2>1, <2>2
<1>6. mem' \in Memories
  BY <1>2, <1>4, <1>5 DEF Memories
<1>7. ASSUME NEW i \in 1 .. n
      PROVE  mem'[at + i - 1] = b[i]
  <2>1. /\ at + i - 1 \in TxStart .. RxStop /\ (at + i - 1) - at \in 0 .. n - 1
        /\ (at + i - 1) - at + 1 = i
    BY <1>1 DEF n
  <2> QED
    BY <1>5, <2>1
<1>8. ASSUME NEW a \in TxStart .. at - 1
      PROVE  mem'[a] = mem[a]
  <2>1. a \in TxStart .. RxStop /\ ~(a - at \in 0 .. n - 1)
    BY <1>1 DEF n
  <2> QED
    BY <1>5, <2>1
<1>9. ASSUME NEW a \in Addresses
      PROVE  mem'[a] = mem[a]
  <2>1. a \in TxStart .. RxStop /\ ~(a - at \in 0 .. n - 1)
    BY <1>1 DEF n, Addresses
  <2> QED
    BY <1>5, <2>1
<1>10. next \in Nat /\ Low(next) \in Nat /\ High(next) \in Nat /\ Low(next) + Base * High(next) = next
  <2>1. next \in Nat
    BY <1>1
  <2> QED
    BY <2>1, WordHalves
<1> HIDE DEF next
<1>11. /\ regs' \in [Registers -> Int] /\ regs'[Reg["EWRPTL"]] = Low(next) /\ regs'[Reg["EWRPTH"]] = High(next)
       /\ \A m \in Names : m \notin {"EWRPTL", "EWRPTH"} => regs'[Reg[m]] = regs[Reg[m]]
  <2>1. \A m \in Names : m \notin {"EWRPTL", "EWRPTH"} => Reg[m] # Reg["EWRPTL"] /\ Reg[m] # Reg["EWRPTH"]
    BY PointerNames DEF Pointers
  <2>2. Reg["EWRPTL"] \in Registers /\ Reg["EWRPTH"] \in Registers /\ Reg["EWRPTL"] # Reg["EWRPTH"]
    <3>1. Reg["EWRPTL"] \in Registers /\ Reg["EWRPTH"] \in Registers
      BY RegisterFacts DEF Names
    <3> QED
      BY <3>1, RegFacts
  <2>3. regs' \in [Registers -> Int] /\ regs'[Reg["EWRPTL"]] = Low(next) /\ regs'[Reg["EWRPTH"]] = High(next)
    BY <1>1, <1>2, <1>10, <2>2
  <2>4. \A s \in Registers : s # Reg["EWRPTL"] /\ s # Reg["EWRPTH"] => regs'[s] = regs[s]
    BY <1>1, <1>2, <2>2
  <2> QED
    BY <2>1, <2>3, <2>4, RegisterFacts
<1>12. EncTypeOK'
  BY <1>2, <1>6, <1>11 DEF EncTypeOK, driverVars, rxVars, txVars
<1>13. TxInv'
  BY <1>2 DEF TxInv, txVars
<1>14. Ready'
  <2>1. \A m \in ConfigNames : regs'[Reg[m]] = regs[Reg[m]]
    <3>1. \A m \in ConfigNames : m \in Names /\ m \notin {"EWRPTL", "EWRPTH"}
      BY DEF ConfigNames, Names
    <3> QED
      BY <1>11, <3>1
  <2>2. Configured'
    BY <2>1, ConfiguredKept DEF Ready
  <2>3. regs'[Reg["EPKTCNT"]] = regs[Reg["EPKTCNT"]]
    BY <1>11 DEF Names
  <2> QED
    BY <1>2, <2>2, <2>3 DEF Ready, rxVars
<1>15. Resting'
  <2> DEFINE m2 == mem'
  <2>1. \A a \in Addresses : m2[a] = mem[a]
    BY <1>9
  <2>2. Layout(mem, rxEnd, unread, writePtr)
    BY DEF Resting, RingHolds
  <2> HIDE DEF m2
  <2>3. Layout(m2, rxEnd, unread, writePtr)
    BY <1>1, <2>1, <2>2, LayoutKept
  <2>4. UNCHANGED <<rxEnd, unread, writePtr, packetPtr>>
    BY <1>2 DEF driverVars, rxVars
  <2> QED
    BY <2>3, <2>4 DEF Resting, RingHolds, m2
<1>16. Word("EWRPTL", "EWRPTH")' = next
  BY <1>10, <1>11 DEF Word
<1>17. Word("ETXNDL", "ETXNDH")' = Word("ETXNDL", "ETXNDH")
  BY <1>11 DEF Word, Names
<1> QED
  BY <1>2, <1>7, <1>8, <1>12, <1>13, <1>14, <1>15, <1>16, <1>17 DEF n, next, driverVars, txVars

(* The control byte.                                                         *)
LEMMA SendControl ==
    ASSUME EncInv, Spi, NEW f \in TxFrames, 7 \in DOMAIN PacketSend(f), Sending(f, 7)
    PROVE  EncInv'
<1> DEFINE o == PacketSend(f)[7]
           b == <<0>>
<1>1. /\ Len(PacketSend(f)) \in 9 .. 10 /\ DOMAIN PacketSend(f) = 1 .. Len(PacketSend(f))
      /\ o = Put(b)
  BY SendProgram
<1>2. 7 # Len(PacketSend(f)) /\ 8 \in DOMAIN PacketSend(f) /\ 7 + 1 = 8
  <2>1. 7 \in 1 .. 8 /\ 7 + 1 = 8
    OBVIOUS
  <2>2. 7 # Len(PacketSend(f)) /\ 7 + 1 \in DOMAIN PacketSend(f)
    BY <2>1, SendLength
  <2> QED
    BY <2>1, <2>2
<1>3. SUFFICES ASSUME EncTypeOK, TxInv, Ready, Resting, Transaction(o), ops' = Rest(PacketSend(f), 8)
               PROVE  EncInv'
  BY <1>2, SendSpi
<1>4. o.op = "put" /\ o.val = b
  BY <1>1 DEF Put
<1> HIDE DEF o
<1>5. BufferWrite(b)
  BY <1>3, <1>4, Kinds
<1>6. /\ b \in Seq(Nat) /\ Len(b) = 1
  OBVIOUS
<1> HIDE DEF b
<1>7. /\ TxStart \in Nat /\ TxStart <= TxStart /\ TxStart + Len(b) <= RxStart
  BY <1>6, PartFacts
<1>8. /\ txPos = 0 /\ uipBuf = f /\ Word("EWRPTL", "EWRPTH") = TxStart
      /\ Word("ETXNDL", "ETXNDH") = TxStart + Len(f)
  BY DEF Sending
<1>9. /\ EncTypeOK' /\ TxInv' /\ Ready' /\ Resting'
      /\ Word("EWRPTL", "EWRPTH")' = TxStart + Len(b)
      /\ Word("ETXNDL", "ETXNDH")' = Word("ETXNDL", "ETXNDH")
      /\ UNCHANGED <<uipBuf, txPos>>
  BY <1>3, <1>5, <1>6, <1>7, <1>8, PutFacts
<1>10. Sending(f, 8)'
  BY <1>3, <1>6, <1>8, <1>9 DEF Sending
<1> QED
  BY <1>2, <1>9, <1>10 DEF EncInv, Progress

(* The first part, behind the control byte.                                  *)
LEMMA SendFirstPart ==
    ASSUME EncInv, Spi, NEW f \in TxFrames, 8 \in DOMAIN PacketSend(f), Sending(f, 8)
    PROVE  EncInv'
<1> DEFINE o == PacketSend(f)[8]
           b == Parts(f)[1]
           at == TxStart + 1
<1>1. /\ Len(PacketSend(f)) \in 9 .. 10 /\ DOMAIN PacketSend(f) = 1 .. Len(PacketSend(f))
      /\ o = Put(b)
  BY SendProgram
<1>2. 8 # Len(PacketSend(f)) /\ 9 \in DOMAIN PacketSend(f) /\ 8 + 1 = 9
  <2>1. 8 \in 1 .. 8 /\ 8 + 1 = 9
    OBVIOUS
  <2>2. 8 # Len(PacketSend(f)) /\ 8 + 1 \in DOMAIN PacketSend(f)
    BY <2>1, SendLength
  <2> QED
    BY <2>1, <2>2
<1>3. SUFFICES ASSUME EncTypeOK, TxInv, Ready, Resting, Transaction(o), ops' = Rest(PacketSend(f), 9)
               PROVE  EncInv'
  BY <1>2, SendSpi
<1>4. o.op = "put" /\ o.val = b
  BY <1>1 DEF Put
<1> HIDE DEF o
<1>5. BufferWrite(b)
  BY <1>3, <1>4, Kinds
<1>6. /\ b \in Seq(Nat) /\ Len(b) \in Nat /\ Len(b) <= Len(f) /\ Len(f) \in Nat
      /\ \A i \in 1 .. Len(b) : b[i] = f[i]
      /\ TxStart \in Nat /\ RxStart \in Nat /\ TxStart + Len(f) < RxStart
  <2>1. HeadLen \in Nat
    BY EncAssumption DEF EncAssumption
  <2>2. Len(f) \in Nat /\ Len(b) \in Nat /\ Len(b) <= Len(f)
    BY PartFacts
  <2>3. CASE Len(f) <= HeadLen
    BY <2>2, <2>3, PartFacts
  <2>4. CASE Len(f) > HeadLen
    BY <2>2, <2>4, PartFacts
  <2> QED
    BY <2>1, <2>2, <2>3, <2>4
<1> HIDE DEF b
<1>7. at \in Nat /\ TxStart <= at /\ at + Len(b) <= RxStart
  BY <1>6
<1>8. /\ txPos = 0 /\ uipBuf = f /\ Word("EWRPTL", "EWRPTH") = at
      /\ Word("ETXNDL", "ETXNDH") = TxStart + Len(f)
  BY DEF Sending
<1> HIDE DEF at
<1>9. /\ EncTypeOK' /\ TxInv' /\ Ready' /\ Resting'
      /\ \A i \in 1 .. Len(b) : mem'[at + i - 1] = b[i]
      /\ Word("EWRPTL", "EWRPTH")' = at + Len(b)
      /\ Word("ETXNDL", "ETXNDH")' = Word("ETXNDL", "ETXNDH")
      /\ UNCHANGED <<uipBuf, txPos>>
  BY <1>3, <1>5, <1>6, <1>7, <1>8, PutFacts
<1>10. PartEnd(f, 9) = Len(b)
  BY DEF PartEnd, b
<1>11. Loaded(mem', f, Len(b))
  <2>1. \A i \in 1 .. Len(b) : at + i - 1 = TxStart + i
    BY <1>6 DEF at
  <2> QED
    BY <1>6, <1>9, <2>1 DEF Loaded
<1>12. Word("EWRPTL", "EWRPTH")' = TxStart + 1 + PartEnd(f, 9) /\ Loaded(mem', f, PartEnd(f, 9))
  BY <1>9, <1>10, <1>11 DEF at
<1>13. Sending(f, 9)'
  BY <1>3, <1>8, <1>9, <1>12 DEF Sending
<1> QED
  BY <1>2, <1>9, <1>13 DEF EncInv, Progress

(* The second part, where uip_appdata has it.                                *)
LEMMA SendSecondPart ==
    ASSUME EncInv, Spi, NEW f \in TxFrames, Len(PacketSend(f)) = 10, Sending(f, 9)
    PROVE  EncInv'
<1> DEFINE o == PacketSend(f)[9]
           b == Parts(f)[2]
           h == HeadLen
           n == Len(f)
           at == TxStart + 1 + h
<1>1. /\ n \in Nat /\ h \in Nat /\ n > h /\ TxStart \in Nat /\ RxStart \in Nat /\ TxStart + n < RxStart
  <2>1. Len(PacketSend(f)) = IF Len(f) <= HeadLen THEN 9 ELSE 10
    BY SendProgram
  <2>2. /\ n \in Nat /\ h \in Nat /\ TxStart \in Nat /\ RxStart \in Nat /\ TxStart + n < RxStart
    BY PartFacts, EncAssumption DEF EncAssumption
  <2>3. ~(n <= h)
    <3> DEFINE l == Len(PacketSend(f))
               short == n <= h
    <3>1. l = 10 /\ l = IF short THEN 9 ELSE 10
      BY <2>1
    <3> HIDE DEF l, short
    <3>2. ~short
      BY <3>1
    <3> QED
      BY <3>2 DEF short
  <2> HIDE DEF n, h
  <2> QED
    BY <2>2, <2>3
<1>2. o = Put(b) /\ DOMAIN PacketSend(f) = 1 .. 10 /\ 9 \in DOMAIN PacketSend(f) /\ 10 \in DOMAIN PacketSend(f)
  BY <1>1, SendProgram
<1>3. SUFFICES ASSUME EncTypeOK, TxInv, Ready, Resting, Transaction(o), ops' = Rest(PacketSend(f), 10)
               PROVE  EncInv'
  <2>1. 9 # 10 /\ 9 + 1 = 10
    OBVIOUS
  <2>2. \/ EncInv'
        \/ /\ EncTypeOK /\ TxInv /\ Ready /\ Resting /\ Transaction(o)
           /\ ops' = IF 9 = Len(PacketSend(f)) THEN <<>> ELSE Rest(PacketSend(f), 9 + 1)
    BY <1>2, SendSpi
  <2> QED
    BY <2>1, <2>2
<1>4. o.op = "put" /\ o.val = b
  BY <1>2 DEF Put
<1> HIDE DEF o
<1>5. BufferWrite(b)
  BY <1>3, <1>4, Kinds
<1>6. /\ b \in Seq(Nat) /\ Len(b) = n - h /\ \A i \in 1 .. n - h : b[i] = f[h + i]
      /\ PartEnd(f, 9) = h
  BY <1>1, PartFacts DEF PartEnd
<1>7. PartEnd(f, 10) = n
  BY DEF PartEnd
<1> HIDE DEF b, n, h
<1>8. /\ txPos = 0 /\ uipBuf = f /\ Word("EWRPTL", "EWRPTH") = at
      /\ Word("ETXNDL", "ETXNDH") = TxStart + n /\ Loaded(mem, f, h)
  BY <1>6 DEF Sending, n
<1>9. at \in Nat /\ TxStart <= at /\ at + Len(b) <= RxStart
  BY <1>1, <1>6
<1>10. at + Len(b) = TxStart + 1 + n
  BY <1>1, <1>6
<1>11. /\ \A i \in 1 .. h : TxStart + i \in TxStart .. at - 1
       /\ \A i \in 1 .. n - h : at + i - 1 = TxStart + (h + i)
  BY <1>1
<1> HIDE DEF at
<1>12. /\ EncTypeOK' /\ TxInv' /\ Ready' /\ Resting'
       /\ \A i \in 1 .. Len(b) : mem'[at + i - 1] = b[i]
       /\ \A a \in TxStart .. at - 1 : mem'[a] = mem[a]
       /\ Word("EWRPTL", "EWRPTH")' = at + Len(b)
       /\ Word("ETXNDL", "ETXNDH")' = Word("ETXNDL", "ETXNDH")
       /\ UNCHANGED <<uipBuf, txPos>>
  BY <1>3, <1>5, <1>6, <1>8, <1>9, PutFacts
<1>13. Loaded(mem', f, n)
  <2>1. ASSUME NEW i \in 1 .. h
        PROVE  mem'[TxStart + i] = f[i]
    BY <1>8, <1>11, <1>12 DEF Loaded
  <2>2. ASSUME NEW i \in 1 .. n - h
        PROVE  mem'[TxStart + (h + i)] = f[h + i]
    BY <1>6, <1>11, <1>12
  <2>3. ASSUME NEW j \in 1 .. n
        PROVE  mem'[TxStart + j] = f[j]
    <3>1. CASE j <= h
      <4>1. j \in 1 .. h
        BY <1>1, <3>1
      <4> QED
        BY <2>1, <4>1
    <3>2. CASE j > h
      <4>1. j - h \in 1 .. n - h /\ h + (j - h) = j
        BY <1>1, <3>2
      <4> QED
        BY <2>2, <4>1
    <3> QED
      BY <1>1, <3>1, <3>2
  <2> QED
    BY <2>3 DEF Loaded
<1>14. Word("EWRPTL", "EWRPTH")' = TxStart + 1 + PartEnd(f, 10) /\ Loaded(mem', f, PartEnd(f, 10))
  BY <1>7, <1>10, <1>12, <1>13
<1>15. Sending(f, 10)'
  BY <1>3, <1>8, <1>12, <1>14 DEF Sending, n
<1> QED
  BY <1>2, <1>12, <1>15 DEF EncInv, Progress

(* The transmitter is started on a frame that lies in the chip as a whole.   *)
LEMMA SendGo ==
    ASSUME EncInv, Spi, NEW f \in TxFrames, NEW k \in {9, 10}, k = Len(PacketSend(f)), Sending(f, k)
    PROVE  EncInv'
<1> DEFINE o == PacketSend(f)[k]
           n == Len(f)
<1>1. /\ DOMAIN PacketSend(f) = 1 .. Len(PacketSend(f)) /\ o = Bits("set", "ECON1", {"TXRTS"})
      /\ Len(PacketSend(f)) = IF n <= HeadLen THEN 9 ELSE 10
  BY SendProgram
<1>2. k \in DOMAIN PacketSend(f)
  BY <1>1
<1>3. SUFFICES ASSUME EncTypeOK, TxInv, Ready, Resting, Transaction(o), ops' = <<>>
               PROVE  EncInv'
  BY <1>2, SendSpi
<1>4. Econ1Set({"TXRTS"})
  <2>1. o.op = "set" /\ o.reg = Reg["ECON1"] /\ o.val = {"TXRTS"}
    BY <1>1 DEF Bits
  <2> HIDE DEF o
  <2>2. Econ1Set(o.val)
    BY <1>3, <2>1, Kinds
  <2> QED
    BY <2>1, <2>2
<1> HIDE DEF o
<1>5. /\ txPos = 0 /\ uipBuf = f /\ Word("ETXNDL", "ETXNDH") = TxStart + n
      /\ Loaded(mem, f, PartEnd(f, k))
  <2>1. k > 1 /\ k > 6 /\ k > 8
    <3>1. \A i \in {9, 10} : i > 1 /\ i > 6 /\ i > 8
      OBVIOUS
    <3> QED
      BY <3>1
  <2> QED
    BY <2>1 DEF Sending
<1>6. PartEnd(f, k) = n
  <2>1. CASE k = 9
    <3>1. n <= HeadLen
      BY <1>1, <2>1
    <3> QED
      BY <2>1, <3>1, PartFacts DEF PartEnd
  <2>2. CASE k = 10
    BY <2>2 DEF PartEnd
  <2> QED
    BY <2>1, <2>2
<1>7. Word("ETXSTL", "ETXSTH") = TxStart /\ n \in Nat \ {0} /\ TxStart \in Nat
  BY <1>3, PartFacts DEF Ready, Configured
<1>8. "TXRTS" \notin econ1
  BY <1>3, <1>5 DEF EncTypeOK
<1>9. /\ econ1' = econ1 \cup {"TXRTS"} /\ txPos' = TxStart + 1 /\ wire' = <<>> /\ handed' = f
      /\ UNCHANGED <<driverVars, regs, mem, rxVars>>
  BY <1>4, <1>5, <1>7, <1>8 DEF Econ1Set
<1>10. EncTypeOK'
  <2>1. econ1' \cap {"BSEL0", "BSEL1"} = econ1 \cap {"BSEL0", "BSEL1"} /\ "TXRTS" \in econ1'
    BY <1>9
  <2>2. txPos' \in Nat /\ txPos' > 0
    BY <1>7, <1>9
  <2> QED
    BY <1>3, <1>9, <2>1, <2>2 DEF EncTypeOK, driverVars, rxVars
<1>11. Ready' /\ Resting'
  <2>1. "RXEN" \in econ1' <=> "RXEN" \in econ1
    BY <1>9
  <2> QED
    BY <1>3, <1>9, <2>1 DEF Ready, Configured, Word, Resting, RingHolds, driverVars, rxVars
<1>12. TxInv'
  <2>1. txPos' - TxStart = 1 /\ txPos' - TxStart - 1 = 0 /\ 1 \in 1 .. n
    BY <1>7, <1>9
  <2>2. SubSeq(f, 1, 0) = <<>>
    BY SubSeqEmpty
  <2>3. Word("ETXNDL", "ETXNDH")' = TxStart + n /\ Loaded(mem', f, n)
    BY <1>5, <1>6, <1>9 DEF Word
  <2> QED
    BY <1>9, <2>1, <2>2, <2>3 DEF TxInv
<1> QED
  BY <1>3, <1>10, <1>11, <1>12 DEF EncInv, Progress, Idle

(* A transaction of packet_send.                                             *)
LEMMA SendingStep ==
    ASSUME EncInv, Spi, NEW f \in TxFrames, NEW k \in DOMAIN PacketSend(f), Sending(f, k)
    PROVE  EncInv'
<1>1. /\ DOMAIN PacketSend(f) = 1 .. Len(PacketSend(f)) /\ Len(PacketSend(f)) \in 9 .. 10
  BY SendProgram
<1>2. ASSUME NEW l \in 9 .. 10, k \in 1 .. l
      PROVE  \/ k \in {1, 2} \/ k \in 3 .. 6 \/ k = 7 \/ k = 8
             \/ (k = 9 /\ l = 10) \/ (k \in {9, 10} /\ k = l)
  BY <1>2
<1>3. \/ k \in {1, 2} \/ k \in 3 .. 6 \/ k = 7 \/ k = 8
      \/ (k = 9 /\ Len(PacketSend(f)) = 10) \/ (k \in {9, 10} /\ k = Len(PacketSend(f)))
  BY <1>1, <1>2
<1> QED
  BY <1>3, SendStop, SendPointers, SendControl, SendFirstPart, SendSecondPart, SendGo

-----------------------------------------------------------------------------
(* Every step                                                                *)

(* The next transaction of whatever call is in progress.                     *)
LEMMA SpiStep ==
    ASSUME EncInv, Spi
    PROVE  EncInv'
<1>1. Progress /\ ops # <<>>
  BY DEF EncInv, Spi
<1>2. CASE \E k \in 1 .. 25 : Starting(k)
  <2>1. PICK k \in 1 .. 25 : Starting(k)
    BY <1>2
  <2>2. k \in 1 .. 24 \/ k = 25
    OBVIOUS
  <2> QED
    BY <2>1, <2>2, StartingStep, EnableStep
<1>3. CASE \E k \in 26 .. 29 : Finishing(k)
  BY <1>3, FinishingStep
<1>4. CASE \E k \in 1 .. 13 : Receiving(k)
  BY <1>4, ReceivingStep
<1>5. CASE \E f \in TxFrames : \E k \in DOMAIN PacketSend(f) : Sending(f, k)
  BY <1>5, SendingStep
<1> QED
  BY <1>1, <1>2, <1>3, <1>4, <1>5 DEF Progress, Idle

(* Every step keeps the invariant.                                           *)
LEMMA EncStep == EncInv /\ [EncNext]_encVars => EncInv'
<1> SUFFICES ASSUME EncInv, [EncNext]_encVars PROVE EncInv'
  OBVIOUS
<1>1. CASE Spi
  BY <1>1, SpiStep
<1>2. CASE Arrive
  BY <1>2, ArriveStep
<1>3. CASE ChipTransmit
  BY <1>3, TransmitStep
<1>4. CASE NetworkRead \/ NetworkSend
  BY <1>4, CallStep
<1>5. CASE UNCHANGED encVars
  <2>1. UNCHANGED Described /\ UNCHANGED txVars /\ UNCHANGED <<bank, econ1>>
    BY <1>5 DEF encVars, driverVars, rxVars, Described
  <2>2. Progress'
    BY <2>1, ProgressKept DEF EncInv, txVars
  <2>3. TxInv'
    BY <2>1, TxKept DEF EncInv, Described
  <2>4. EncTypeOK'
    BY <2>1 DEF EncInv, EncTypeOK, Described, txVars
  <2> QED
    BY <2>2, <2>3, <2>4 DEF EncInv
<1> QED
  BY <1>1, <1>2, <1>3, <1>4, <1>5 DEF EncNext

(* Whatever arrives between the transactions of a call, the invariant holds. *)
THEOREM EncInvariant == EncSpec => []EncInv
BY InitEnc, EncStep, PTL DEF EncSpec

(* PKTDEC, after the frame was copied and its place given back, is the only  *)
(* transaction that releases a frame.                                        *)
LEMMA OnlyCountReleases ==
    ASSUME EncInv, Spi, unread' # unread
    PROVE  Receiving(13)
<1> DEFINE o == Head(ops)
           Releases(op) == op.op = "set" /\ op.reg = Reg["ECON2"]
<1>1. Progress /\ ops # <<>>
  BY DEF EncInv, Spi
<1>2. Transaction(o)
  BY DEF Spi, BankSet, rxVars
<1>3. Releases(o)
  <2> HIDE DEF o
  <2>1. CASE o.op \in {"write", "low", "high"}
    BY <1>2, <2>1 DEF Transaction, RegWrite
  <2>2. CASE o.op \in {"clr", "read", "bank"}
    BY <1>2, <2>2 DEF Transaction, rxVars
  <2>3. CASE o.op = "put"
    BY <1>2, <2>3 DEF Transaction, BufferWrite, rxVars
  <2>4. CASE o.op = "set" /\ o.reg # Reg["ECON2"]
    BY <1>2, <2>4 DEF Transaction, Econ1Set, RegWrite, BufferRead, rxVars
  <2>5. CASE o.op \notin {"write", "low", "high", "clr", "read", "bank", "put", "set"}
    BY <1>2, <2>5 DEF Transaction, BufferRead, rxVars
  <2> QED
    BY <2>1, <2>2, <2>3, <2>4, <2>5
<1> HIDE DEF o
<1>4. ASSUME NEW k \in 1 .. 25, Starting(k)
      PROVE  FALSE
  <2>1. k \in 1 .. Len(NetworkInit) /\ NetworkInit \in Seq(Steps(NetworkInit))
    BY InitProgram
  <2>2. o = NetworkInit[k]
    BY <1>4, <2>1, RestFacts DEF Starting, o
  <2>3. /\ Reg["ECON2"] # Reg["ECON1"] /\ Reg["ECON2"] # Reg["EIE"] /\ Reg["ECON2"] # Reg["MACON3"]
    BY RegFacts
  <2>4. CASE k \in 1 .. 24
    <3>1. StartOp(k, o)
      BY <2>2, <2>4, StartingOps
    <3> QED
      BY <1>3, <2>3, <3>1 DEF StartOp
  <2>5. CASE k = 25
    BY <1>3, <2>2, <2>3, <2>5, InitProgram DEF Bits
  <2> QED
    BY <2>4, <2>5
<1>5. ASSUME NEW k \in 26 .. 29, Finishing(k)
      PROVE  FALSE
  <2>1. k \in 1 .. Len(NetworkInit) /\ NetworkInit \in Seq(Steps(NetworkInit))
    BY InitProgram
  <2>2. o = NetworkInit[k]
    BY <1>5, <2>1, RestFacts DEF Finishing, o
  <2> QED
    BY <1>3, <2>2, FinishingOps DEF Write
<1>6. ASSUME NEW k \in 1 .. 13, Receiving(k)
      PROVE  k = 13
  <2>1. k \in 1 .. Len(PacketReceive) /\ PacketReceive \in Seq(Steps(PacketReceive))
    BY ReceiveProgram
  <2>2. o = PacketReceive[k]
    BY <1>6, <2>1, RestFacts DEF Receiving, o
  <2>3. \/ k = 1 \/ k = 2 \/ k = 3 \/ k = 4 \/ k = 5 \/ k = 6 \/ k = 7
        \/ k = 8 \/ k = 9 \/ k = 10 \/ k = 11 \/ k = 12 \/ k = 13
    OBVIOUS
  <2>4. k # 13 => o.op # "set"
    BY <2>2, <2>3, ReceiveProgram DEF Read, Pointer, Get
  <2> QED
    BY <1>3, <2>4
<1>7. ASSUME NEW f \in TxFrames, NEW k \in DOMAIN PacketSend(f), Sending(f, k)
      PROVE  FALSE
  <2>1. k \in 1 .. Len(PacketSend(f)) /\ PacketSend(f) \in Seq(Steps(PacketSend(f)))
    BY SendProgram
  <2>2. o = PacketSend(f)[k]
    BY <1>7, <2>1, RestFacts DEF Sending, o
  <2>3. SendOp(o) /\ Reg["ECON2"] # Reg["ECON1"]
    BY <2>2, SendOps, RegFacts
  <2> QED
    BY <1>3, <2>3 DEF SendOp, Write, Put
<1> QED
  BY <1>1, <1>4, <1>5, <1>6, <1>7 DEF Progress, Idle

(* Between two calls the driver and the chip agree on where the oldest frame *)
(* is, on how far the receiver may write and on the number of frames.        *)
THEOREM DriverInSync == EncSpec => []RxInSync
<1>1. ASSUME EncInv, ops = <<>>
      PROVE  /\ packetPtr = IF unread = <<>> THEN writePtr ELSE Head(unread).at
             /\ rxEnd = packetPtr
             /\ regs[Reg["EPKTCNT"]] = Len(unread)
  <2>1. Idle /\ unread \in Seq(Entries)
    BY <1>1, IdleOnly DEF EncInv, EncTypeOK
  <2>2. packetPtr = rxEnd /\ Ring(rxEnd, unread, writePtr) /\ regs[Reg["EPKTCNT"]] = Len(unread)
    BY <2>1 DEF Idle, Ready, Resting, RingHolds, Layout
  <2>3. unread # <<>> => Head(unread) = unread[1]
    BY <2>1, HeadTailProperties
  <2> QED
    BY <2>2, <2>3 DEF Ring
<1>2. EncInv => RxInSync
  BY <1>1 DEF RxInSync
<1> QED
  BY <1>2, EncInvariant, PTL

(* Reception is only ever on with every register as enc28j60_init wrote it:  *)
(* each write reached its own bank.                                          *)
THEOREM InitReached == EncSpec => []Configured
<1>1. EncInv => Configured
  <2>1. ASSUME EncInv, "RXEN" \in econ1
        PROVE  Ready
    BY <2>1 DEF EncInv, Progress, Starting, Finishing, Idle, Receiving, Sending
  <2> QED
    BY <2>1 DEF Ready, Configured
<1> QED
  BY <1>1, EncInvariant, PTL

(* A frame that packet_receive releases is in uip_buf as it came from the    *)
(* wire, cut to its size, for any sizes of ring and buffer, any frames and   *)
(* any arrivals between the transactions.                                    *)
THEOREM FramesReceived == EncSpec => FramesIntact
<1>1. ASSUME EncInv, [EncNext]_encVars, Len(unread') < Len(unread)
      PROVE  uipBuf = Shorter(Head(unread).frame, MaxLen)
  <2>1. unread \in Seq(Entries) /\ Len(unread) \in Nat
    BY <1>1, LenProperties DEF EncInv, EncTypeOK
  <2>2. unread' # unread
    BY <1>1, <2>1
  <2>3. ~Arrive
    <3>1. ASSUME NEW e, unread' = Append(unread, e)
          PROVE  FALSE
      <4>1. Len(Append(unread, e)) = Len(unread) + 1
        BY <2>1
      <4> QED
        BY <1>1, <2>1, <3>1, <4>1
    <3> QED
      BY <3>1 DEF Arrive
  <2>4. Spi
    BY <1>1, <2>2, <2>3 DEF EncNext, ChipTransmit, NetworkRead, NetworkSend, encVars, rxVars
  <2>5. Receiving(13)
    BY <1>1, <2>2, <2>4, OnlyCountReleases
  <2> QED
    BY <2>5 DEF Receiving, First
<1>2. EncInv /\ [EncNext]_encVars
        => [Len(unread') < Len(unread) => uipBuf = Shorter(Head(unread).frame, MaxLen)]_encVars
  BY <1>1
<1> QED
  BY <1>2, EncInvariant, PTL DEF EncSpec, FramesIntact

(* A frame that leaves the chip to its last byte is the one the transmitter  *)
(* was started for, for any frames and any splitting into two parts.         *)
THEOREM FramesSent == EncSpec => WireFramesWhole
<1>1. ASSUME EncInv, ChipTransmit, txPos' = 0
      PROVE  wire' = handed'
  <2> DEFINE p == txPos - TxStart
             n == Len(handed)
  <2>1. /\ txPos > 0 /\ wire' = Append(wire, mem[txPos]) /\ handed' = handed
        /\ txPos' = 0 => txPos = Word("ETXNDL", "ETXNDH") \/ txPos + 1 = 0
    BY <1>1 DEF ChipTransmit
  <2>2. /\ handed \in TxFrames /\ p \in 1 .. n /\ Word("ETXNDL", "ETXNDH") = TxStart + n
        /\ Loaded(mem, handed, n) /\ wire = SubSeq(handed, 1, p - 1) /\ txPos \in Nat
    BY <1>1, <2>1 DEF EncInv, TxInv, EncTypeOK
  <2>3. handed \in Seq(Nat) /\ n \in Nat /\ TxStart \in Nat
    BY <2>2, PartFacts
  <2>4. p = n /\ txPos = TxStart + n /\ n \in 1 .. n
    BY <1>1, <2>1, <2>2, <2>3
  <2>5. mem[txPos] = handed[n]
    BY <2>2, <2>4 DEF Loaded
  <2> HIDE DEF p
  <2>6. wire' = Append(SubSeq(handed, 1, n - 1), handed[n])
    BY <2>1, <2>2, <2>4, <2>5
  <2>7. Append(SubSeq(handed, 1, n - 1), handed[n]) = SubSeq(handed, 1, n)
    BY <2>3, <2>4, SubSeqGrows
  <2>8. SubSeq(handed, 1, n) = handed
    BY <2>3, SubSeqFull
  <2> QED
    BY <2>1, <2>6, <2>7, <2>8
<1>2. EncInv => [ChipTransmit /\ txPos' = 0 => wire' = handed]_encVars
  BY <1>1 DEF ChipTransmit
<1> QED
  BY <1>2, EncInvariant, PTL DEF EncSpec, WireFramesWhole

=============================================================================
