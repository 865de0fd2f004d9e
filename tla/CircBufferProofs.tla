-------------------------- MODULE CircBufferProofs --------------------------
(* The ring buffer is a queue for every size and every sequence of calls.    *)
EXTENDS CircBuffer, SequenceTheorems, TLAPS

(* umqtt_circ_push starts at the first free slot: the remainder that the     *)
(* code takes is the conditional subtraction of Slot.                        *)
LEMMA FirstFree ==
    ASSUME SizeAssumption, pointer \in Offsets, datalen \in 0 .. Size
    PROVE  /\ (pointer + datalen) % Size = Slot(datalen)
           /\ Slot(datalen) \in Offsets
<1>1. Slot(datalen) \in Offsets
  BY SizeAssumption DEF Offsets, Slot
<1>2. CASE pointer + datalen < Size
  <2>1. (pointer + datalen) % Size = pointer + datalen
    BY <1>2, SizeAssumption DEF Offsets
  <2>2. QED
    BY <1>1, <1>2, <2>1 DEF Slot
<1>3. CASE pointer + datalen >= Size
  <2>1. (pointer + datalen) % Size = pointer + datalen - Size
    BY <1>3, SizeAssumption DEF Offsets
  <2>2. QED
    BY <1>1, <1>3, <2>1, SizeAssumption DEF Slot, Offsets
<1>4. QED
  BY <1>2, <1>3, SizeAssumption DEF Offsets

(* The invariant of the loops of umqtt_circ_push and umqtt_circ_pop.         *)
THEOREM CircInvariant == Spec => []CircInv
<1> USE SizeAssumption
<1>1. Init => CircInv
  BY DEF Init, CircInv, Offsets
<1>2. CircInv /\ [Next]_vars => CircInv'
  <2> SUFFICES ASSUME CircInv, [Next]_vars
               PROVE  CircInv'
    OBVIOUS
  <2> USE DEF CircInv
  <2>1. CASE PushCall
    <3>1. /\ (pointer + datalen) % Size = Slot(datalen)
          /\ Slot(datalen) \in Offsets
      BY FirstFree
    <3>2. Wrap(dend') = Slot(datalen)
      BY <2>1, <3>1 DEF PushCall, Wrap, Offsets
    <3>3. QED
      BY <2>1, <3>1, <3>2, CallsAssumption DEF PushCall, Offsets, Wrap, Slot
  <2>2. CASE PushByte
    <3>1. Head(todo) \in Byte /\ Tail(todo) \in Seq(Byte)
      BY <2>2, HeadTailProperties DEF PushByte
    <3>2. Wrap(dend) \in Offsets
      BY DEF Wrap, Offsets
    <3>3. datalen < Size
      BY <2>2 DEF PushByte, BufferFull, Slot, Offsets
    <3>4. (Wrap(dend) = Slot(datalen))'
      BY <2>2, <3>3 DEF PushByte, Wrap, Slot, Offsets
    <3>6. mem' \in [Offsets -> Byte]
      BY <2>2, <3>1, <3>2 DEF PushByte
    <3>7. datalen' \in 0 .. Size /\ dend' \in 0 .. Size
      BY <2>2, <3>2, <3>3 DEF PushByte, Offsets
    <3>8. QED
      BY <2>2, <3>1, <3>4, <3>6, <3>7 DEF PushByte
  <2>3. CASE PushReturn
    <3>1. <<>> \in Seq(Byte) /\ Len(todo) \in Nat
      BY EmptySeq, LenProperties
    <3>2. QED
      BY <2>3, <3>1 DEF PushReturn
  <2>4. CASE PopCall
    BY <2>4, EmptySeq, CallsAssumption DEF PopCall
  <2>5. CASE PopByte
    <3>1. mem[pointer] \in Byte
      BY DEF Offsets
    <3>2. got' \in Seq(Byte)
      BY <2>5, <3>1, AppendProperties DEF PopByte
    <3>3. pointer' \in Offsets /\ datalen' \in 0 .. Size
      BY <2>5 DEF PopByte, Wrap, Offsets
    <3>4. QED
      BY <2>5, <3>2, <3>3 DEF PopByte
  <2>6. CASE PopReturn
    BY <2>6 DEF PopReturn
  <2>7. CASE UNCHANGED vars
    BY <2>7 DEF vars, Wrap, Slot
  <2>8. QED
    BY <2>1, <2>2, <2>3, <2>4, <2>5, <2>6, <2>7 DEF Next
<1>3. QED
  BY <1>1, <1>2, PTL DEF Spec

-----------------------------------------------------------------------------

ContentsShape ==
    /\ Contents \in Seq(Byte)
    /\ Len(Contents) = datalen
    /\ \A i \in 1 .. datalen : Contents[i] = mem[Slot(i - 1)]

(* Contents is a sequence of datalen bytes.                                  *)
LEMMA ContentsIsSeq == CircInv => ContentsShape
<1> SUFFICES ASSUME CircInv PROVE ContentsShape
  OBVIOUS
<1> USE SizeAssumption
<1>1. \A i \in 1 .. datalen : Slot(i - 1) \in Offsets
  BY DEF CircInv, Slot, Offsets
<1>2. Contents \in [1 .. datalen -> Byte]
  BY <1>1 DEF CircInv, Contents
<1>3. datalen \in Nat
  BY DEF CircInv
<1>4. Contents \in Seq(Byte)
  BY <1>2, <1>3, SeqDef
<1>5. Len(Contents) = datalen
  BY <1>2, <1>3, <1>4, LenProperties
<1>6. QED
  BY <1>4, <1>5 DEF Contents, ContentsShape

(* A byte written at dend is the queue's new last byte and overwrites none.  *)
LEMMA PushAppends ==
    ASSUME SizeAssumption, CircInv, CircInv', PushByte
    PROVE  /\ Contents' = Append(Contents, Head(todo))
           /\ Len(Contents) < Size
<1> USE SizeAssumption
<1>1. /\ Contents \in Seq(Byte) /\ Len(Contents) = datalen
      /\ \A i \in 1 .. datalen : Contents[i] = mem[Slot(i - 1)]
  BY ContentsIsSeq DEF ContentsShape
<1>2. /\ Contents' \in Seq(Byte) /\ Len(Contents') = datalen'
      /\ \A i \in 1 .. datalen' : Contents'[i] = mem'[Slot(i - 1)']
  <2>1. ContentsShape'
    BY ContentsIsSeq, PTL
  <2>2. QED
    BY <2>1 DEF ContentsShape
<1>3. datalen < Size
  BY DEF PushByte, CircInv, BufferFull, Slot, Offsets
<1>4. Head(todo) \in Byte
  BY HeadTailProperties DEF PushByte, CircInv
<1>5. \A i \in 1 .. datalen + 1 : Slot(i - 1)' = Slot(i - 1)
  BY DEF PushByte, Slot
<1>6. \A i \in 1 .. datalen : Slot(i - 1) # Slot(datalen)
  BY <1>3 DEF CircInv, Slot, Offsets
<1>7. /\ Wrap(dend) = Slot(datalen)
      /\ mem' = [mem EXCEPT ![Slot(datalen)] = Head(todo)]
      /\ Slot(datalen) \in Offsets
  <2>1. Wrap(dend) = Slot(datalen)
    BY DEF PushByte, CircInv
  <2>2. Slot(datalen) \in Offsets
    BY <1>3 DEF CircInv, Slot, Offsets
  <2>3. QED
    BY <2>1, <2>2 DEF PushByte
<1>8. \A i \in 1 .. datalen : mem'[Slot(i - 1)] = mem[Slot(i - 1)]
  BY <1>6, <1>7 DEF CircInv
<1>9. mem'[Slot(datalen)] = Head(todo)
  BY <1>7 DEF CircInv
<1>10. datalen' = datalen + 1 /\ datalen \in Nat
  BY DEF PushByte, CircInv
<1>11. \A i \in 1 .. datalen + 1 : Contents'[i] = Append(Contents, Head(todo))[i]
  <2> TAKE i \in 1 .. datalen + 1
  <2>1. CASE i \in 1 .. datalen
    BY <2>1, <1>1, <1>2, <1>4, <1>5, <1>8, <1>10, AppendProperties
  <2>2. CASE i = datalen + 1
    <3>1. Contents'[i] = mem'[Slot(datalen)]
      BY <2>2, <1>2, <1>5, <1>10
    <3>2. Append(Contents, Head(todo))[i] = Head(todo)
      BY <2>2, <1>1, <1>4, AppendProperties
    <3>3. QED
      BY <3>1, <3>2, <1>9
  <2>3. i \in 1 .. datalen \/ i = datalen + 1
    BY <1>10
  <2>4. QED
    BY <2>1, <2>2, <2>3
<1>12. QED
  BY <1>1, <1>2, <1>3, <1>4, <1>10, <1>11, AppendProperties, SeqEqual

(* The byte read at pointer is the queue's first one and leaves it.          *)
LEMMA PopTakesHead ==
    ASSUME SizeAssumption, CircInv, CircInv', PopByte
    PROVE  /\ Contents # <<>>
           /\ Head(Contents) = mem[pointer]
           /\ Contents' = Tail(Contents)
<1> USE SizeAssumption
<1>1. /\ Contents \in Seq(Byte) /\ Len(Contents) = datalen
      /\ \A i \in 1 .. datalen : Contents[i] = mem[Slot(i - 1)]
  BY ContentsIsSeq DEF ContentsShape
<1>2. /\ Contents' \in Seq(Byte) /\ Len(Contents') = datalen'
      /\ \A i \in 1 .. datalen' : Contents'[i] = mem'[Slot(i - 1)']
  <2>1. ContentsShape'
    BY ContentsIsSeq, PTL
  <2>2. QED
    BY <2>1 DEF ContentsShape
<1>3. datalen > 0 /\ datalen \in Nat /\ datalen' = datalen - 1 /\ mem' = mem
  BY DEF PopByte, CircInv
<1>4. Contents # <<>>
  BY <1>1, <1>3, EmptySeq
<1>5. Slot(0) = pointer
  BY DEF CircInv, Slot, Offsets
<1>6. Contents[1] = mem[Slot(0)]
  BY <1>1, <1>3
<1>7. Head(Contents) = mem[pointer]
  BY <1>1, <1>4, <1>5, <1>6
<1>8. \A i \in 1 .. datalen - 1 : Slot(i - 1)' = Slot(i)
  BY DEF PopByte, CircInv, Slot, Wrap, Offsets
<1>9. Tail(Contents) \in Seq(Byte) /\ Len(Tail(Contents)) = datalen - 1
      /\ \A i \in 1 .. datalen - 1 : Tail(Contents)[i] = Contents[i + 1]
  BY <1>1, <1>4, HeadTailProperties
<1>10. \A i \in 1 .. datalen - 1 : Contents'[i] = Tail(Contents)[i]
  <2> TAKE i \in 1 .. datalen - 1
  <2>1. Contents'[i] = mem[Slot(i)]
    BY <1>2, <1>3, <1>8
  <2>2. Contents[i + 1] = mem[Slot(i)]
    <3>1. i + 1 \in 1 .. datalen /\ (i + 1) - 1 = i
      BY <1>3
    <3>2. QED
      BY <1>1, <3>1
  <2>3. QED
    BY <1>9, <2>1, <2>2
<1>11. QED
  BY <1>2, <1>3, <1>4, <1>7, <1>9, <1>10, SeqEqual

(* The loops of umqtt_circ_push and umqtt_circ_pop implement the bounded     *)
(* queue: every iteration is one step of it or none.                         *)
THEOREM Implementation == Spec => ImplementsFifo
<1> USE SizeAssumption
<1>1. Init => Queue!Init
  BY SeqDef DEF Init, Queue!Init, Contents
<1>2. CircInv /\ CircInv' /\ [Next]_vars => [Queue!Next]_(Queue!vars)
  <2> SUFFICES ASSUME CircInv, CircInv', [Next]_vars
               PROVE  [Queue!Next]_(Queue!vars)
    OBVIOUS
  <2>0. /\ Contents \in Seq(Byte)
        /\ Len(Contents) = datalen
        /\ datalen \in 0 .. Size
    BY ContentsIsSeq DEF CircInv, ContentsShape
  <2>1. CASE PushCall
    BY <2>1 DEF PushCall, Queue!Next, Queue!PushCall, Contents, Slot
  <2>2. CASE PushByte
    BY <2>2, PushAppends DEF PushByte, Queue!Next, Queue!PushByte
  <2>3. CASE PushReturn
    <3>1. BufferFull => datalen = Size
      BY <2>3 DEF BufferFull, CircInv, PushReturn, Slot, Offsets
    <3>2. Contents' = Contents
      BY <2>3 DEF PushReturn, Contents, Slot
    <3>3. Queue!PushReturn
      BY <2>0, <2>3, <3>1, <3>2 DEF PushReturn, Queue!PushReturn
    <3>4. QED
      BY <3>3 DEF Queue!Next
  <2>4. CASE PopCall
    BY <2>4 DEF PopCall, Queue!Next, Queue!PopCall, Contents, Slot
  <2>5. CASE PopByte
    BY <2>5, PopTakesHead DEF PopByte, Queue!Next, Queue!PopByte
  <2>6. CASE PopReturn
    <3>1. datalen = 0 => Contents = <<>>
      BY <2>0, EmptySeq
    <3>2. Contents' = Contents
      BY <2>6 DEF PopReturn, Contents, Slot
    <3>3. Queue!PopReturn
      BY <2>6, <3>1, <3>2 DEF PopReturn, Queue!PopReturn
    <3>4. QED
      BY <3>3 DEF Queue!Next
  <2>7. CASE UNCHANGED vars
    BY <2>7 DEF vars, Queue!vars, Contents, Slot
  <2>8. QED
    BY <2>1, <2>2, <2>3, <2>4, <2>5, <2>6, <2>7 DEF Next
<1>3. QED
  BY <1>1, <1>2, CircInvariant, PTL DEF Spec, Queue!Spec, ImplementsFifo

=============================================================================
