---------------------------- MODULE UipTcpProofs ----------------------------
(* The connection keeps its invariants under every application and every     *)
(* peer, for every value of the parameters.                                  *)
EXTENDS UipTcp, TLAPS

TcpInv == TcpTypeOK /\ HandshakeArmed /\ RetryBound

\* What the invariant needs of a segment, whatever it carries.
Header(seg) == seg.seq \in 0 .. SeqMod - 1 /\ seg.mss \in Windows

LEMMA BumpType ==
    ASSUME TcpAssumption, NEW n \in 0 .. SeqMod - 1
    PROVE  Bump(n) \in 0 .. SeqMod - 1
BY DEF Bump, TcpAssumption

(* UIP_RTO << min(nrtx, 4) fits its byte after truncation.                   *)
LEMMA BackoffType ==
    ASSUME TcpAssumption, nrtx \in Nat
    PROVE  Backoff \in 0 .. 255
<1> DEFINE k == IF nrtx > 4 THEN 5 ELSE nrtx + 1
<1>1. k \in 1 .. 5
  OBVIOUS
<1>2. <<1, 2, 4, 8, 16>>[k] \in {1, 2, 4, 8, 16}
  <2> HIDE DEF k
  <2>1. k = 1 \/ k = 2 \/ k = 3 \/ k = 4 \/ k = 5
    BY <1>1
  <2>2. QED
    BY <2>1
<1>3. \A f \in {1, 2, 4, 8, 16} : (Rto * f) \in Nat
  BY DEF TcpAssumption
<1>4. \A x \in Nat : x % 256 \in 0 .. 255
  OBVIOUS
<1>5. (Rto * <<1, 2, 4, 8, 16>>[k]) % 256 \in 0 .. 255
  <2> DEFINE f == <<1, 2, 4, 8, 16>>[k]
  <2>1. f \in {1, 2, 4, 8, 16}
    BY <1>2
  <2> HIDE DEF f
  <2>2. (Rto * f) \in Nat
    BY <1>3, <2>1
  <2> DEFINE g == Rto * f
  <2> HIDE DEF g
  <2>3. g \in Nat
    BY <2>2 DEF g
  <2>4. g % 256 \in 0 .. 255
    BY <1>4, <2>3
  <2>5. QED
    BY <2>4 DEF g, f
<1>6. QED
  BY <1>5 DEF Backoff

(* Acknowledgement processing keeps the sequence number, the time-out and    *)
(* the timer in range.                                                       *)
LEMMA AckType ==
    ASSUME TcpAssumption, TcpTypeOK, NEW seg, ProcessAck(seg)
    PROVE  /\ sndNxt' \in 0 .. SeqMod - 1
           /\ rto' \in Rtos \cup {0, Rto}
           /\ rtxTimer' \in 0 .. 255
<1>1. sndNxt' \in 0 .. SeqMod - 1
  BY BumpType DEF ProcessAck, AckSndNxt, TcpTypeOK
<1>2. rto' \in Rtos \cup {0, Rto}
  BY DEF ProcessAck, AckTimer, TcpTypeOK
<1>3. Rtos \cup {0, Rto} \subseteq 0 .. 255
  BY DEF TcpAssumption
<1>4. rtxTimer' \in 0 .. 255
  <2>1. CASE AckData(seg)
    <3>1. rtxTimer' = rto'
      BY <2>1 DEF ProcessAck, AckTimer
    <3>2. QED
      BY <1>2, <1>3, <3>1
  <2>2. CASE ~AckData(seg)
    BY <2>2 DEF ProcessAck, AckTimer, TcpTypeOK
  <2>3. QED
    BY <2>1, <2>2
<1>5. QED
  BY <1>1, <1>2, <1>4

(* What the application does when it is called back keeps the invariant if   *)
(* the rest of the path did.                                                 *)
LEMMA AppReturnInv ==
    ASSUME TcpAssumption, NEW unacked \in 0 .. TcpMss, NEW newdata,
           NEW a \in Answers(unacked),
           nrtx \in 0 .. MaxRtx, mss' \in 0 .. TcpMss,
           AppReturn(a.req, a.data, unacked, newdata)
    PROVE  /\ len' \in 0 .. TcpMss
           /\ nrtx' \in 0 .. MaxRtx
           /\ tcpState' \in {"ESTABLISHED", "FIN_WAIT_1", "CLOSED"}
           /\ tcpState' = "FIN_WAIT_1" => len' > 0
<1> USE DEF TcpAssumption
<1>1. Len(a.data) \in Nat
  BY DEF Answers
<1>2. CASE AppSend(a.data, unacked, newdata)
  BY <1>1, <1>2 DEF AppSend
<1>3. CASE AppClose
  BY <1>3 DEF AppClose
<1>4. CASE AppAbort(unacked)
  BY <1>4 DEF AppAbort
<1>5. QED
  BY <1>2, <1>3, <1>4 DEF AppReturn

LEMMA PeriodicInv ==
    ASSUME TcpAssumption, TcpInv, Periodic
    PROVE  TcpInv'
<1> USE DEF TcpInv
<1>1. CASE TimerIdle
  BY <1>1 DEF TimerIdle, tcpVars, TcpTypeOK, HandshakeArmed, RetryBound, Waiting, Outstanding
<1>2. CASE TimerWait
  BY <1>2 DEF TimerWait, Waiting, TcpTypeOK, HandshakeArmed, RetryBound, Outstanding, TcpStates
<1>3. CASE TimerCountDown
  BY <1>3 DEF TimerCountDown, TimerArmed, Waiting, TcpTypeOK, HandshakeArmed, RetryBound, Outstanding
<1>4. CASE TimerGiveUp
  BY <1>4 DEF TimerGiveUp, TimerArmed, Waiting, TcpTypeOK, HandshakeArmed, RetryBound, Outstanding, TcpStates
<1>5. ASSUME NEW d \in AppData, TimerRexmit(d)
      PROVE  TcpInv'
  <2>1. Backoff \in 0 .. 255
    <3>1. nrtx \in Nat
      BY DEF TcpTypeOK, TcpAssumption
    <3>2. QED
      BY <3>1, BackoffType
  <2>2. nrtx' = nrtx + 1 /\ nrtx # MaxRtx /\ (tcpState = "SYN_SENT" => nrtx # MaxSynRtx)
    BY <1>5 DEF TimerRexmit, RetriesSpent
  <2>3. nrtx' \in 0 .. MaxRtx /\ RetryBound'
    <3>1. nrtx \in 0 .. MaxRtx /\ MaxRtx \in Nat /\ MaxSynRtx \in Nat
      BY DEF TcpTypeOK, TcpAssumption
    <3>2. tcpState' = tcpState
      BY <1>5 DEF TimerRexmit
    <3>3. QED
      BY <2>2, <3>1, <3>2 DEF RetryBound
  <2>4. QED
    BY <1>5, <2>1, <2>3 DEF TimerRexmit, TimerArmed, Waiting, TcpTypeOK, HandshakeArmed, Outstanding
<1>6. ASSUME NEW a \in Answers(0), TimerPoll(a.req, a.data)
      PROVE  TcpInv'
  <2>1. mss' = mss /\ 0 \in 0 .. TcpMss
    BY <1>6 DEF TimerPoll, TcpAssumption
  <2>2. AppReturn(a.req, a.data, 0, FALSE)
    BY <1>6 DEF TimerPoll
  <2>3. /\ len' \in 0 .. TcpMss
        /\ nrtx' \in 0 .. MaxRtx
        /\ tcpState' \in {"ESTABLISHED", "FIN_WAIT_1", "CLOSED"}
        /\ tcpState' = "FIN_WAIT_1" => len' > 0
    BY <2>1, <2>2, AppReturnInv DEF TcpTypeOK
  <2>4. QED
    BY <1>6, <2>3 DEF TimerPoll, TcpTypeOK, HandshakeArmed, RetryBound, Waiting, Outstanding, TcpStates
<1>7. QED
  BY <1>1, <1>2, <1>3, <1>4, <1>5, <1>6 DEF Periodic

(* What the paths of uip_process for a received segment have in common.      *)
LEMMA SegmentType ==
    ASSUME TcpAssumption, TcpTypeOK, NEW seg, Header(seg)
    PROVE  /\ Bump(rcvNxt) \in 0 .. SeqMod - 1
           /\ Bump(seg.seq) \in 0 .. SeqMod - 1
           /\ seg.mss \in 0 .. TcpMss
           /\ LenAfterAck(seg) \in 0 .. TcpMss
<1>1. Bump(rcvNxt) \in 0 .. SeqMod - 1
  BY BumpType DEF TcpTypeOK
<1>2. seg.seq \in 0 .. SeqMod - 1 /\ seg.mss \in Windows
  BY DEF Header
<1>3. Bump(seg.seq) \in 0 .. SeqMod - 1
  BY BumpType, <1>2
<1>4. seg.mss \in 0 .. TcpMss
  <2>1. seg.mss \in 1 .. TcpMss
    BY <1>2 DEF TcpAssumption
  <2>2. QED
    BY <2>1
<1>5. LenAfterAck(seg) \in 0 .. TcpMss
  BY DEF LenAfterAck, TcpTypeOK, TcpAssumption
<1>6. QED
  BY <1>1, <1>3, <1>4, <1>5

LEMMA InputInv ==
    ASSUME TcpAssumption, TcpInv, NEW seg, Header(seg), Input(seg)
    PROVE  TcpInv'
<1> USE DEF TcpInv
<1>seg. /\ Bump(rcvNxt) \in 0 .. SeqMod - 1
        /\ Bump(seg.seq) \in 0 .. SeqMod - 1
        /\ seg.mss \in 0 .. TcpMss
        /\ LenAfterAck(seg) \in 0 .. TcpMss
  BY SegmentType
<1>con. 0 \in 0 .. TcpMss /\ 1 \in 0 .. TcpMss /\ 0 \in 0 .. MaxRtx /\ 0 <= MaxSynRtx
        /\ 0 \in 0 .. 255
  BY DEF TcpAssumption
<1>ack. ProcessAck(seg) => /\ sndNxt' \in 0 .. SeqMod - 1
                           /\ rto' \in Rtos \cup {0, Rto}
                           /\ rtxTimer' \in 0 .. 255
  BY AckType
<1>nxt. AckSndNxt(seg) => sndNxt' \in 0 .. SeqMod - 1
  BY BumpType DEF AckSndNxt, TcpTypeOK
<1>rto. /\ rto' \in (IF nrtx = 0 THEN Rtos ELSE {rto}) => rto' \in Rtos \cup {0, Rto}
        /\ rto' = rto => rto' \in Rtos \cup {0, Rto}
  BY DEF TcpTypeOK
<1>con2. Consume(seg) => rcvNxt' \in 0 .. SeqMod - 1
  BY <1>seg DEF Consume, TcpTypeOK
<1>1. CASE RxStray(seg)
  BY <1>1 DEF RxStray, TcpTypeOK, HandshakeArmed, RetryBound, Waiting, Outstanding
<1>2. CASE RxReset(seg)
  BY <1>2 DEF RxReset, TcpTypeOK, HandshakeArmed, RetryBound, Waiting, Outstanding, TcpStates
<1>3. CASE RxOutOfOrder(seg)
  BY <1>3 DEF RxOutOfOrder, TcpTypeOK, HandshakeArmed, RetryBound, Waiting, Outstanding
<1>4. ASSUME NEW a \in Answers(0), RxConnected(seg, a.req, a.data)
      PROVE  TcpInv'
  <2>1. mss' \in 0 .. TcpMss
    BY <1>4, <1>seg DEF RxConnected
  <2>2. nrtx \in 0 .. MaxRtx
    BY DEF TcpTypeOK
  <2>3. /\ len' \in 0 .. TcpMss
        /\ nrtx' \in 0 .. MaxRtx
        /\ tcpState' \in {"ESTABLISHED", "FIN_WAIT_1", "CLOSED"}
        /\ tcpState' = "FIN_WAIT_1" => len' > 0
    BY <1>4, <1>con, <2>1, <2>2, AppReturnInv DEF RxConnected
  <2>4. QED
    BY <1>4, <1>seg, <1>ack, <2>1, <2>3
       DEF RxConnected, TcpTypeOK, HandshakeArmed, RetryBound, Waiting, Outstanding, TcpStates
<1>5. CASE RxRefused(seg)
  BY <1>5, <1>seg, <1>ack DEF RxRefused, TcpTypeOK, HandshakeArmed, RetryBound, Waiting, TcpStates
<1>6. CASE RxFinTooEarly(seg)
  BY <1>6 DEF RxFinTooEarly, tcpVars, TcpTypeOK, HandshakeArmed, RetryBound, Waiting, Outstanding
<1>7. CASE RxFin(seg)
  BY <1>7, <1>seg, <1>ack, <1>con
     DEF RxFin, TcpTypeOK, HandshakeArmed, RetryBound, Waiting, Outstanding, TcpStates
<1>8. ASSUME NEW a \in Answers(LenAfterAck(seg)), RxDeliver(seg, a.req, a.data)
      PROVE  TcpInv'
  <2>1. mss' \in 0 .. TcpMss /\ rcvNxt' \in 0 .. SeqMod - 1
    BY <1>8, <1>seg DEF RxDeliver, TcpTypeOK
  <2>2. nrtx \in 0 .. MaxRtx
    BY DEF TcpTypeOK
  <2>3. /\ len' \in 0 .. TcpMss
        /\ nrtx' \in 0 .. MaxRtx
        /\ tcpState' \in {"ESTABLISHED", "FIN_WAIT_1", "CLOSED"}
        /\ tcpState' = "FIN_WAIT_1" => len' > 0
    BY <1>8, <1>seg, <2>1, <2>2, AppReturnInv DEF RxDeliver
  <2>4. QED
    BY <1>8, <1>ack, <2>1, <2>3
       DEF RxDeliver, TcpTypeOK, HandshakeArmed, RetryBound, Waiting, Outstanding, TcpStates
<1>9. CASE RxWindow(seg)
  BY <1>9, <1>seg, <1>con
     DEF RxWindow, Accepted, TcpTypeOK, HandshakeArmed, RetryBound, Waiting, Outstanding
<1>10. CASE RxLastAck(seg)
  BY <1>10, <1>ack, <1>con
     DEF RxLastAck, TcpTypeOK, HandshakeArmed, RetryBound, Waiting, TcpStates
<1>11. CASE RxLastAckWait(seg)
  BY <1>11 DEF RxLastAckWait, tcpVars, TcpTypeOK, HandshakeArmed, RetryBound, Waiting, Outstanding
<1>12. CASE RxFinWait1(seg)
  <2>1. sndNxt' \in 0 .. SeqMod - 1 /\ rcvNxt' \in 0 .. SeqMod - 1
    BY <1>12, <1>nxt, <1>con2 DEF RxFinWait1
  <2>2. len' = LenAfterAck(seg) /\ tcpState = "FIN_WAIT_1" /\ UNCHANGED <<lport, mss, nrtx>>
    BY <1>12 DEF RxFinWait1, Accepted
  <2>3. CASE AckData(seg)
    <3>1. len' = 0 /\ tcpState' \in {"TIME_WAIT", "FIN_WAIT_2"}
      BY <1>12, <2>2, <2>3 DEF RxFinWait1, LenAfterAck
    <3>2. rtxTimer' \in 0 .. 255 /\ rto' \in Rtos \cup {0, Rto}
      BY <1>12, <1>ack, <1>rto, <1>con, <2>3 DEF RxFinWait1, ProcessAck
    <3>3. QED
      BY <2>1, <2>2, <3>1, <3>2, <1>con
         DEF TcpTypeOK, HandshakeArmed, RetryBound, Waiting, Outstanding, TcpStates
  <2>4. CASE ~AckData(seg)
    <3>1. len' = len /\ tcpState' \in {"CLOSING", "FIN_WAIT_1"} /\ UNCHANGED <<rto, rtxTimer>>
      BY <1>12, <2>2, <2>4 DEF RxFinWait1, LenAfterAck
    <3>2. QED
      BY <2>1, <2>2, <3>1
         DEF TcpTypeOK, HandshakeArmed, RetryBound, Waiting, Outstanding, TcpStates
  <2>5. QED
    BY <2>3, <2>4
<1>13. CASE RxFinWait2(seg)
  BY <1>13, <1>con, <1>con2
     DEF RxFinWait2, Accepted, TcpTypeOK, HandshakeArmed, RetryBound, Waiting, Outstanding, TcpStates
<1>14. CASE RxTimeWait(seg)
  BY <1>14 DEF RxTimeWait, TcpTypeOK, HandshakeArmed, RetryBound, Waiting, Outstanding
<1>15. CASE RxClosing(seg)
  <2>1. /\ sndNxt' \in 0 .. SeqMod - 1
        /\ tcpState = "CLOSING" /\ UNCHANGED <<lport, rcvNxt, mss, nrtx>>
    BY <1>15, <1>nxt DEF RxClosing, Accepted
  <2>2. CASE AckData(seg)
    <3>1. /\ len' = 0 /\ tcpState' = "TIME_WAIT" /\ rtxTimer' = 0
          /\ rto' \in Rtos \cup {0, Rto}
      BY <1>15, <1>rto, <2>2 DEF RxClosing, LenAfterAck
    <3>2. QED
      BY <2>1, <3>1, <1>con
         DEF TcpTypeOK, HandshakeArmed, RetryBound, Waiting, Outstanding, TcpStates
  <2>3. CASE ~AckData(seg)
    <3>1. len' = len /\ UNCHANGED <<tcpState, rtxTimer, rto>>
      BY <1>15, <2>3 DEF RxClosing, LenAfterAck
    <3>2. QED
      BY <2>1, <3>1 DEF TcpTypeOK, HandshakeArmed, RetryBound, Waiting, Outstanding
  <2>4. QED
    BY <2>2, <2>3
<1>16. QED
  BY <1>1, <1>2, <1>3, <1>4, <1>5, <1>6, <1>7, <1>8, <1>9, <1>10, <1>11, <1>12, <1>13,
     <1>14, <1>15
     DEF Input

LEMMA ConnectInv ==
    ASSUME TcpAssumption, TcpInv, UipConnect
    PROVE  TcpInv'
BY DEF TcpInv, UipConnect, TcpAssumption, TcpTypeOK, HandshakeArmed, RetryBound, Waiting,
       Outstanding, TcpStates

LEMMA InitInv ==
    ASSUME TcpAssumption, TcpInit
    PROVE  TcpInv
BY DEF TcpInv, TcpInit, TcpAssumption, TcpTypeOK, HandshakeArmed, RetryBound, Waiting, TcpStates

(* One step of any kind, named so that a composition can prime it.           *)
LEMMA TcpStepInv ==
    ASSUME TcpAssumption, TcpInv, [TcpNext]_tcpVars
    PROVE  TcpInv'
<1>1. CASE UNCHANGED tcpVars
  BY <1>1 DEF tcpVars, TcpInv, TcpTypeOK, HandshakeArmed, RetryBound, Waiting, Outstanding
<1>2. CASE TcpNext
  <2>1. ASSUME NEW seg \in Segment, Input(seg)
        PROVE  TcpInv'
    BY <2>1, InputInv DEF Segment, Header
  <2>2. QED
    BY <1>2, <2>1, ConnectInv, PeriodicInv DEF TcpNext
<1>3. QED
  BY <1>1, <1>2

(* struct uip_conn stays in its ranges, set-up and tear-down always have     *)
(* something in flight for the timer to act on, and the SYN is repeated at   *)
(* most MaxSynRtx times: for all sizes, time-outs, applications and peers.   *)
THEOREM TcpInvariant ==
    TcpSpec => [](TcpTypeOK /\ HandshakeArmed /\ RetryBound)
<1>1. TcpInit => TcpInv
  BY InitInv, TcpAssumption
<1>2. TcpInv /\ [TcpNext]_tcpVars => TcpInv'
  BY TcpStepInv, TcpAssumption
<1>3. TcpInv => TcpTypeOK /\ HandshakeArmed /\ RetryBound
  BY DEF TcpInv
<1>4. QED
  BY <1>1, <1>2, <1>3, PTL DEF TcpSpec

(* A SYN is never repeated past its limit, although the count is compared    *)
(* for equality only.                                                        *)
THEOREM TcpRetries == TcpSpec => []RetryBound
BY TcpInvariant, PTL

=============================================================================
