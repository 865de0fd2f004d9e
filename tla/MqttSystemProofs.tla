-------------------------- MODULE MqttSystemProofs --------------------------
(* The node and the broker agree on what has been delivered, for every value *)
(* of the parameters: any number of packets in any number of units, any      *)
(* sequence number space, any length of the queues and any faults.           *)
(*                                                                           *)
(* Each direction of the connection is an alternating bit protocol: what is  *)
(* on its way is old (the receiver has it) or new, and old comes before new. *)
(* The invariant is stated of one end `c' of the connection (the node's), the *)
(* two queues `up' and `dn', the broker's end `s' and the segment `got' that  *)
(* the broker took last, so that a step can be taken apart into moves.       *)
EXTENDS MqttSystem, MqttNodeProofs

SeqNo == 0 .. SeqMod - 1
Answer == {"CONNACK_OK", "PINGRESP"}

\* What the node sends, and what the broker's side sends.
PeerFrames ==
    {f \in [port : Ports, flags : {{"SYN"}, {"ACK"}, {"FIN", "ACK"}, {"RST", "ACK"}},
            seq : SeqNo, ack : SeqNo, data : Seq(Unit)] :
        f.data # <<>> => f.flags = {"ACK"}}

NodeFrames ==
    {f \in [port : Ports, flags : {{"SYN", "ACK"}, {"ACK"}, {"FIN", "ACK"}, {"RST"}},
            seq : SeqNo, ack : SeqNo, data : Seq(Answer), mss : {TcpMss}] :
        f.data # <<>> => f.flags = {"ACK"}}

Brokers ==
    [state : {"LISTEN", "SYN_RCVD", "ESTABLISHED", "FIN_SENT"}, port : Ports,
     snd : SeqNo, rcv : SeqNo, out : Seq(Answer), todo : Seq(Answer), up : BOOLEAN]

\* The node's end; `data' is what is in flight.
Ends == [port : Ports, snd : SeqNo, rcv : SeqNo, data : Seq(Unit), phase : MqttStates]

Conn == [port |-> lport, snd |-> sndNxt, rcv |-> rcvNxt,
         data |-> IF tcpState = "ESTABLISHED" /\ Outstanding THEN inflight ELSE <<>>,
         phase |-> mqttState]

Frames(q) == {q[i] : i \in DOMAIN q}
None(q, S) == \A f \in Frames(q) : f \notin S
Sorted(q, early, late) ==
    \A i, j \in DOMAIN q : i < j /\ q[i] \in late => q[j] \notin early

Live(s) == s.state # "LISTEN"
Has(data) == \E i \in DOMAIN data : data[i] = "CONNACK_OK"

\* What takes a sequence number.
Counted(f) == f.data # <<>> \/ f.flags \in {{"SYN", "ACK"}, {"FIN", "ACK"}}

\* Frames of the node.
Foreign(c) == {f \in PeerFrames : f.port # c.port /\ "RST" \notin f.flags}
Owns(c) == {f \in PeerFrames : f.port = c.port}
Syns(c) == {f \in PeerFrames : f.port = c.port /\ f.flags = {"SYN"}}
Acks(c) == {f \in PeerFrames : f.port = c.port /\ f.flags = {"ACK"}}
OldAcks(c) == {f \in Acks(c) : Bump(f.ack) = c.rcv}
CurAcks(c) == {f \in Acks(c) : f.ack = c.rcv}
OldData(c) == {f \in Acks(c) : f.data # <<>> /\ Bump(f.seq) = c.snd}
NewData(c) == {f \in Acks(c) : f.data # <<>> /\ f.seq = c.snd}

\* Frames of the broker.
Mine(c) == {f \in NodeFrames : f.port = c.port}
SynAcks(c) == {f \in Mine(c) : f.flags = {"SYN", "ACK"} /\ f.seq = 0 /\ f.ack = Bump(0)}
Stale(c) == {f \in Mine(c) : "ACK" \in f.flags /\ f.ack = c.snd}
Confirming(c) == {f \in Mine(c) : "ACK" \in f.flags /\ f.ack = Bump(c.snd)}
OldSeq(c) == {f \in Mine(c) : Counted(f) /\ Bump(f.seq) = c.rcv}
NewSeq(c) == {f \in Mine(c) : Counted(f) /\ f.seq = c.rcv}
Verdicts(c) == {f \in NewSeq(c) : Has(f.data)}

-----------------------------------------------------------------------------
(* The invariant *)

\* The broker's end when it has answered the SYN.
Greeted(port) == [Listening(port) EXCEPT !.state = "SYN_RCVD", !.rcv = Bump(0)]

\* SYN_SENT: nothing is left of an earlier connection once the broker knows of
\* this one.
SynInv(c, up, dn, s) ==
    /\ \A f \in Frames(up) : f \in Owns(c) => f \in Syns(c) /\ f.seq = 0
    /\ \A f \in Frames(dn) : f \in Mine(c) => f \in SynAcks(c)
    /\ Sorted(up, Foreign(c), Owns(c))
    /\ Live(s) /\ s.port = c.port => s = Greeted(c.port)
    /\ (Live(s) /\ s.port = c.port) \/ ~None(dn, Mine(c)) =>
          s.port = c.port /\ None(up, Foreign(c))

\* ESTABLISHED: the handshake is over for good when a frame other than a SYN has
\* arrived.
HelloInv(c, up, dn, s) ==
    /\ s.port = c.port
    /\ None(up, Foreign(c))
    /\ \A f \in Frames(up) : f \in Owns(c) => f \in Acks(c) \/ (f \in Syns(c) /\ f.seq = 0)
    /\ Sorted(up, Syns(c), Acks(c))
    /\ s.state = "SYN_RCVD" => s = Greeted(c.port) /\ c.snd = Bump(0) /\ c.rcv = Bump(0)
    /\ ~None(up, Syns(c)) =>
          /\ s.state \in {"LISTEN", "SYN_RCVD"}
          /\ None(up, OldAcks(c))
          /\ c.snd = Bump(0) /\ c.rcv = Bump(0) /\ c.phase = "CONNECTING"
          /\ \A f \in Frames(dn) : f \in Mine(c) => f \in SynAcks(c)

\* The broker has what is in flight.
Taken(c, dn, s) == ~None(dn, Confirming(c)) \/ (Live(s) /\ s.rcv = Bump(c.snd))

\* From the node to the broker.
SendInv(c, up, dn, s, got) ==
    /\ Live(s) => s.rcv = c.snd \/ s.rcv = Bump(c.snd)
    /\ \A f \in Frames(dn) : f \in Mine(c) /\ "ACK" \in f.flags => f \in Stale(c) \cup Confirming(c)
    /\ Sorted(dn, Stale(c), Confirming(c))
    /\ \A f \in Frames(up) : f \in Acks(c) /\ f.data # <<>> => f \in OldData(c) \cup NewData(c)
    /\ \A f \in Frames(up) : f \in NewData(c) => f.data = c.data
    /\ Sorted(up, OldData(c), NewData(c))
    /\ Taken(c, dn, s) => /\ c.data # <<>>
                          /\ got = [port |-> c.port, seq |-> c.snd, data |-> c.data]
                          /\ None(up, OldData(c))
    /\ Live(s) /\ ~None(dn, Confirming(c)) => s.rcv = Bump(c.snd)

\* From the broker to the node.
RecvInv(c, up, dn, s) ==
    /\ Live(s) => s.snd = c.rcv \/ (InFlight(s) # <<>> /\ Bump(s.snd) = c.rcv)
    /\ \A f \in Frames(dn) : f \in Mine(c) /\ Counted(f) => f \in OldSeq(c) \cup NewSeq(c)
    /\ Sorted(dn, OldSeq(c), NewSeq(c))
    /\ \A f \in Frames(up) : f \in Acks(c) => f \in OldAcks(c) \cup CurAcks(c)
    /\ Sorted(up, OldAcks(c), CurAcks(c))
    /\ ~None(dn, NewSeq(c)) =>
          /\ None(up, OldAcks(c))
          /\ Live(s) => InFlight(s) # <<>> /\ s.snd = c.rcv
    /\ Live(s) /\ (s.snd = c.rcv \/ s.state = "SYN_RCVD") => None(up, OldAcks(c))
    /\ \A f \in Frames(dn) : f \in NewSeq(c) /\ f.flags = {"FIN", "ACK"} =>
          s.state \in {"LISTEN", "FIN_SENT"}

\* CONNECT and CONNACK.
TalkInv(c, dn, s) ==
    /\ s.state # "ESTABLISHED" => s.out = <<>> /\ s.todo = <<>>
    /\ ~None(dn, Verdicts(c)) => c.phase = "CONNECTING"
    /\ s.state \in {"SYN_RCVD", "ESTABLISHED"} /\ ~s.up =>
          /\ c.phase = "CONNECTING" /\ ~Has(s.out) /\ ~Has(s.todo)
          /\ None(dn, Verdicts(c))
    /\ Has(s.todo) => c.phase = "CONNECTING" /\ ~Has(s.out) /\ None(dn, Verdicts(c))
    /\ Has(s.out) /\ s.snd = c.rcv => c.phase = "CONNECTING"

EstInv(c, up, dn, s, got) ==
    /\ HelloInv(c, up, dn, s)
    /\ SendInv(c, up, dn, s, got)
    /\ RecvInv(c, up, dn, s)
    /\ TalkInv(c, dn, s)

\* LAST_ACK: the broker can only close.
LastInv(c, up, dn, s) ==
    /\ s.port = c.port /\ Live(s) => s.state = "FIN_SENT" /\ Bump(s.snd) = c.rcv
    /\ None(up, Syns(c))
    /\ None(dn, NewSeq(c))

NetTypeOK == toPeer \in Seq(PeerFrames) /\ toNode \in Seq(NodeFrames) /\ srv \in Brokers

\* A closed broker keeps nothing of the connection.
Forgotten(s) == ~Live(s) => s = Listening(s.port)

Link(state, c, up, dn, s, got) ==
    /\ Forgotten(s)
    /\ state = "SYN_SENT" => c.snd = 0 /\ SynInv(c, up, dn, s)
    /\ state = "ESTABLISHED" => EstInv(c, up, dn, s, got)
    /\ state = "LAST_ACK" => LastInv(c, up, dn, s)

NetInv == Link(tcpState, Conn, toPeer, toNode, srv, received)

SystemInv == NodeInv /\ NetTypeOK /\ NetInv

-----------------------------------------------------------------------------
(* Sequence numbers and queues *)

(* The sequence number after a number is another, and no two have the same.  *)
LEMMA BumpFacts ==
    /\ 0 \in SeqNo
    /\ \A n \in SeqNo : Bump(n) \in SeqNo /\ Bump(n) # n
    /\ \A m, n \in SeqNo : Bump(m) = Bump(n) => m = n
<1>1. SeqMod \in Nat /\ SeqMod > 1
  BY TcpAssumption DEF TcpAssumption
<1>2. ASSUME NEW n \in SeqNo
      PROVE  Bump(n) = IF n = SeqMod - 1 THEN 0 ELSE n + 1
  <2>1. n + 1 \in 0 .. SeqMod
    BY <1>1 DEF SeqNo
  <2>2. CASE n = SeqMod - 1
    <3>1. n + 1 = SeqMod
      BY <1>1, <2>2
    <3>2. SeqMod % SeqMod = 0
      BY <1>1
    <3>3. QED
      BY <2>2, <3>1, <3>2 DEF Bump
  <2>3. CASE n # SeqMod - 1
    <3>1. n + 1 \in 0 .. SeqMod - 1
      BY <1>1, <2>3 DEF SeqNo
    <3>2. (n + 1) % SeqMod = n + 1
      BY <1>1, <3>1
    <3>3. QED
      BY <2>3, <3>2 DEF Bump
  <2>4. QED
    BY <2>2, <2>3
<1>3. QED
  BY <1>1, <1>2 DEF SeqNo

LEMMA PopFrame ==
    ASSUME NEW S, NEW q \in Seq(S), q # <<>>
    PROVE  /\ Tail(q) \in Seq(S)
           /\ Head(q) \in S
           /\ Head(q) \in Frames(q)
           /\ Frames(Tail(q)) \subseteq Frames(q)
<1>1. /\ Len(q) \in Nat /\ Len(q) > 0 /\ DOMAIN q = 1 .. Len(q)
      /\ Tail(q) \in Seq(S) /\ Len(Tail(q)) = Len(q) - 1
      /\ DOMAIN Tail(q) = 1 .. Len(Tail(q))
      /\ \A i \in 1 .. Len(Tail(q)) : Tail(q)[i] = q[i + 1]
      /\ Head(q) = q[1] /\ Head(q) \in S
  BY HeadTailProperties, LenProperties, EmptySeq
<1>2. QED
  BY <1>1 DEF Frames

(* Taking the first frame keeps a queue sorted, and if that was a late one   *)
(* no early one is left.                                                     *)
LEMMA PopSorted ==
    ASSUME NEW S, NEW q \in Seq(S), q # <<>>, NEW early, NEW late, Sorted(q, early, late)
    PROVE  /\ Sorted(Tail(q), early, late)
           /\ Head(q) \in late => None(Tail(q), early)
<1>1. /\ Len(q) \in Nat /\ Len(q) > 0 /\ DOMAIN q = 1 .. Len(q)
      /\ Tail(q) \in Seq(S) /\ Len(Tail(q)) = Len(q) - 1
      /\ DOMAIN Tail(q) = 1 .. Len(Tail(q))
      /\ \A i \in 1 .. Len(Tail(q)) : Tail(q)[i] = q[i + 1]
      /\ Head(q) = q[1]
  BY HeadTailProperties, LenProperties, EmptySeq
<1>2. QED
  BY <1>1 DEF Sorted, None, Frames

LEMMA PushFrame ==
    ASSUME NEW S, NEW q \in Seq(S), NEW f \in S
    PROVE  /\ Append(q, f) \in Seq(S)
           /\ Frames(Append(q, f)) = Frames(q) \cup {f}
<1>1. /\ Len(q) \in Nat /\ DOMAIN q = 1 .. Len(q)
      /\ Append(q, f) \in Seq(S) /\ Len(Append(q, f)) = Len(q) + 1
      /\ DOMAIN Append(q, f) = 1 .. Len(Append(q, f))
      /\ \A i \in 1 .. Len(q) : Append(q, f)[i] = q[i]
      /\ Append(q, f)[Len(q) + 1] = f
  BY AppendProperties, LenProperties
<1>2. QED
  BY <1>1 DEF Frames

(* A late frame may always be added, an early one if there is no late one.   *)
LEMMA PushSorted ==
    ASSUME NEW S, NEW q \in Seq(S), NEW f \in S, NEW early, NEW late,
           Sorted(q, early, late), f \notin early \/ None(q, late)
    PROVE  Sorted(Append(q, f), early, late)
<1>1. /\ Len(q) \in Nat /\ DOMAIN q = 1 .. Len(q)
      /\ Append(q, f) \in Seq(S) /\ Len(Append(q, f)) = Len(q) + 1
      /\ DOMAIN Append(q, f) = 1 .. Len(Append(q, f))
      /\ \A i \in 1 .. Len(q) : Append(q, f)[i] = q[i]
      /\ Append(q, f)[Len(q) + 1] = f
  BY AppendProperties, LenProperties
<1>2. QED
  BY <1>1 DEF Sorted, None, Frames

(* Sorting by other sets that hold no more of the frames.                    *)
LEMMA Resort ==
    ASSUME NEW S, NEW q \in Seq(S), NEW early, NEW late, NEW early2, NEW late2,
           Sorted(q, early, late),
           \A f \in Frames(q) : (f \in early2 => f \in early) /\ (f \in late2 => f \in late)
    PROVE  Sorted(q, early2, late2)
BY DEF Sorted, Frames

LEMMA SortedNone ==
    ASSUME NEW q, NEW early, NEW late, None(q, early) \/ None(q, late)
    PROVE  Sorted(q, early, late)
BY DEF Sorted, None, Frames

-----------------------------------------------------------------------------
(* Moves: a frame leaves a queue                                             *)

LEMMA DropUp ==
    ASSUME NEW c, NEW up \in Seq(PeerFrames), up # <<>>, NEW dn, NEW s, NEW got
    PROVE  /\ SynInv(c, up, dn, s) => SynInv(c, Tail(up), dn, s)
           /\ EstInv(c, up, dn, s, got) => EstInv(c, Tail(up), dn, s, got)
           /\ LastInv(c, up, dn, s) => LastInv(c, Tail(up), dn, s)
<1> DEFINE rest == Tail(up)
<1>1. \A f \in Frames(rest) : f \in Frames(up)
  BY PopFrame
<1>2. \A S : None(up, S) => None(rest, S)
  BY <1>1 DEF None
<1>3. ASSUME NEW early, NEW late, Sorted(up, early, late)
      PROVE  Sorted(rest, early, late)
  BY <1>3, PopSorted
<1> HIDE DEF rest
<1>4. SynInv(c, up, dn, s) => SynInv(c, rest, dn, s)
  BY <1>1, <1>2, <1>3 DEF SynInv
<1>5. HelloInv(c, up, dn, s) => HelloInv(c, rest, dn, s)
  BY <1>1, <1>2, <1>3 DEF HelloInv
<1>6. SendInv(c, up, dn, s, got) => SendInv(c, rest, dn, s, got)
  BY <1>1, <1>2, <1>3 DEF SendInv
<1>7. RecvInv(c, up, dn, s) => RecvInv(c, rest, dn, s)
  BY <1>1, <1>2, <1>3 DEF RecvInv
<1>8. LastInv(c, up, dn, s) => LastInv(c, rest, dn, s)
  BY <1>1, <1>2, <1>3 DEF LastInv
<1>9. QED
  BY <1>4, <1>5, <1>6, <1>7, <1>8 DEF EstInv, rest

LEMMA DropDn ==
    ASSUME NEW c, NEW up, NEW dn \in Seq(NodeFrames), dn # <<>>, NEW s, NEW got
    PROVE  /\ SynInv(c, up, dn, s) => SynInv(c, up, Tail(dn), s)
           /\ EstInv(c, up, dn, s, got) => EstInv(c, up, Tail(dn), s, got)
           /\ LastInv(c, up, dn, s) => LastInv(c, up, Tail(dn), s)
<1> DEFINE rest == Tail(dn)
<1>1. \A f \in Frames(rest) : f \in Frames(dn)
  BY PopFrame
<1>2. \A S : None(dn, S) => None(rest, S)
  BY <1>1 DEF None
<1>3. ASSUME NEW early, NEW late, Sorted(dn, early, late)
      PROVE  Sorted(rest, early, late)
  BY <1>3, PopSorted
<1> HIDE DEF rest
<1>4. SynInv(c, up, dn, s) => SynInv(c, up, rest, s)
  BY <1>1, <1>2, <1>3 DEF SynInv
<1>5. HelloInv(c, up, dn, s) => HelloInv(c, up, rest, s)
  BY <1>1, <1>2, <1>3 DEF HelloInv
<1>6. SendInv(c, up, dn, s, got) => SendInv(c, up, rest, s, got)
  BY <1>1, <1>2, <1>3 DEF SendInv, Taken
<1>7. RecvInv(c, up, dn, s) => RecvInv(c, up, rest, s)
  BY <1>1, <1>2, <1>3 DEF RecvInv
<1>8. TalkInv(c, dn, s) => TalkInv(c, rest, s)
  BY <1>2 DEF TalkInv
<1>9. LastInv(c, up, dn, s) => LastInv(c, up, rest, s)
  BY <1>1, <1>2, <1>3 DEF LastInv
<1>10. QED
  BY <1>4, <1>5, <1>6, <1>7, <1>8, <1>9 DEF EstInv, rest

-----------------------------------------------------------------------------
(* Moves of the broker                                                       *)

(* The broker may forget the connection at any time.                         *)
LEMMA Forget ==
    ASSUME NEW c, NEW up, NEW dn, NEW s, NEW got, EstInv(c, up, dn, s, got)
    PROVE  EstInv(c, up, dn, Listening(s.port), got)
<1> DEFINE t == Listening(s.port)
<1>1. t.state = "LISTEN" /\ t.port = s.port /\ t.out = <<>> /\ t.todo = <<>>
  BY DEF Listening
<1>2. ~Has(<<>>)
  BY DEF Has
<1> HIDE DEF t
<1>3. HelloInv(c, up, dn, t)
  BY <1>1 DEF EstInv, HelloInv
<1>4. SendInv(c, up, dn, t, got)
  BY <1>1 DEF EstInv, SendInv, Live, Taken
<1>5. RecvInv(c, up, dn, t)
  BY <1>1 DEF EstInv, RecvInv, Live
<1>6. TalkInv(c, dn, t)
  BY <1>1, <1>2 DEF EstInv, TalkInv
<1>7. QED
  BY <1>3, <1>4, <1>5, <1>6 DEF EstInv, t

(* The segment that the broker repeats.                                      *)
LEMMA InFlightFacts ==
    ASSUME NEW s \in Brokers, NEW f, InFlight(s) = <<f>>
    PROVE  /\ Live(s) /\ f \in NodeFrames
           /\ f.port = s.port /\ f.seq = s.snd /\ f.ack = s.rcv
           /\ "ACK" \in f.flags /\ Counted(f)
           /\ f.flags = {"FIN", "ACK"} => s.state = "FIN_SENT"
           /\ Has(f.data) => s.state = "ESTABLISHED" /\ f.data = s.out
           /\ s.state = "SYN_RCVD" => f.flags = {"SYN", "ACK"}
<1>1. ~Has(<<>>) /\ <<>> \in Seq(Answer)
  BY EmptySeq DEF Has
<1>2. "SYN" # "ACK" /\ "FIN" # "ACK" /\ "SYN" # "FIN"
  OBVIOUS
<1>3. CASE s.state = "SYN_RCVD"
  <2>1. f = Seg(s, {"SYN", "ACK"}, s.snd, <<>>)
    BY <1>3 DEF InFlight
  <2>2. QED
    BY <1>1, <1>2, <1>3, <2>1 DEF Seg, Live, NodeFrames, Brokers, Counted
<1>4. CASE s.state = "FIN_SENT"
  <2>1. f = Seg(s, {"FIN", "ACK"}, s.snd, <<>>)
    BY <1>4 DEF InFlight
  <2>2. QED
    BY <1>1, <1>2, <1>4, <2>1 DEF Seg, Live, NodeFrames, Brokers, Counted
<1>5. CASE s.state = "ESTABLISHED" /\ s.out # <<>>
  <2>1. f = Seg(s, {"ACK"}, s.snd, s.out)
    BY <1>5 DEF InFlight
  <2>2. QED
    BY <1>1, <1>2, <1>5, <2>1 DEF Seg, Live, NodeFrames, Brokers, Counted
<1>6. CASE s.state = "LISTEN" \/ (s.state = "ESTABLISHED" /\ s.out = <<>>)
  BY <1>6 DEF InFlight
<1>7. QED
  BY <1>3, <1>4, <1>5, <1>6 DEF Brokers

(* A frame that the broker sends in the state it is in.                      *)
LEMMA SendDown ==
    ASSUME NEW c \in Ends, NEW up, NEW dn \in Seq(NodeFrames), NEW s \in Brokers, NEW got,
           EstInv(c, up, dn, s, got),
           NEW f \in NodeFrames, f.port = s.port,
           "ACK" \in f.flags => Live(s) /\ f.ack = s.rcv,
           Counted(f) => InFlight(s) = <<f>>,
           None(up, Syns(c)) \/ f \in SynAcks(c)
    PROVE  EstInv(c, up, Append(dn, f), s, got)
<1> DEFINE more == Append(dn, f)
<1>1. \A g \in Frames(more) : g \in Frames(dn) \/ g = f
  BY PushFrame
<1>2. \A S : None(more, S) <=> None(dn, S) /\ f \notin S
  BY PushFrame DEF None
<1>3. ASSUME NEW early, NEW late, Sorted(dn, early, late), f \notin early \/ None(dn, late)
      PROVE  Sorted(more, early, late)
  BY <1>3, PushSorted
<1>4. \A n \in SeqNo : Bump(n) \in SeqNo /\ Bump(n) # n
  BY BumpFacts
<1>5. c.snd \in SeqNo /\ c.rcv \in SeqNo /\ s.snd \in SeqNo /\ s.rcv \in SeqNo /\ s.port = c.port
  BY DEF Ends, Brokers, EstInv, HelloInv
<1> HIDE DEF more
<1>6. HelloInv(c, up, more, s)
  BY <1>1 DEF EstInv, HelloInv
<1>7. SendInv(c, up, more, s, got)
  <2> USE DEF EstInv, SendInv
  <2>1. f \in Stale(c) => Live(s) /\ s.rcv = c.snd
    BY DEF Stale
  <2>2. f \in Confirming(c) => Live(s) /\ s.rcv = Bump(c.snd)
    BY DEF Confirming
  <2>3. "ACK" \in f.flags => f \in Stale(c) \cup Confirming(c)
    BY <1>5 DEF Stale, Confirming, Mine
  <2>4. f \notin Stale(c) \/ None(dn, Confirming(c))
    BY <1>4, <1>5, <2>1
  <2>5. Sorted(more, Stale(c), Confirming(c))
    BY <1>3, <2>4
  <2>6. Taken(c, more, s) => Taken(c, dn, s)
    BY <1>2, <2>2 DEF Taken
  <2>7. QED
    BY <1>1, <1>2, <2>2, <2>3, <2>5, <2>6
<1>8. Counted(f) => /\ f.seq = s.snd /\ Live(s) /\ InFlight(s) # <<>>
                    /\ f.flags = {"FIN", "ACK"} => s.state = "FIN_SENT"
                    /\ Has(f.data) => s.state = "ESTABLISHED" /\ f.data = s.out
  <2>1. <<f>> # <<>>
    OBVIOUS
  <2>2. CASE InFlight(s) = <<f>>
    <3>1. /\ f.seq = s.snd /\ Live(s)
          /\ f.flags = {"FIN", "ACK"} => s.state = "FIN_SENT"
          /\ Has(f.data) => s.state = "ESTABLISHED" /\ f.data = s.out
      BY <2>2, InFlightFacts
    <3>2. QED
      BY <2>1, <2>2, <3>1
  <2>3. QED
    BY <2>2
<1>9. RecvInv(c, up, more, s)
  <2> USE DEF EstInv, RecvInv
  <2>1. f \in OldSeq(c) => Live(s) /\ Bump(s.snd) = c.rcv
    BY <1>8 DEF OldSeq
  <2>2. f \in NewSeq(c) => Live(s) /\ s.snd = c.rcv /\ InFlight(s) # <<>>
    BY <1>8 DEF NewSeq
  <2>3. Counted(f) => f \in OldSeq(c) \cup NewSeq(c)
    BY <1>5, <1>8 DEF OldSeq, NewSeq, Mine
  <2>4. f \notin OldSeq(c) \/ None(dn, NewSeq(c))
    BY <1>4, <1>5, <2>1
  <2>5. Sorted(more, OldSeq(c), NewSeq(c))
    BY <1>3, <2>4
  <2>6. f \in NewSeq(c) /\ f.flags = {"FIN", "ACK"} => s.state = "FIN_SENT"
    BY <1>8 DEF NewSeq
  <2>7. QED
    BY <1>1, <1>2, <2>2, <2>3, <2>5, <2>6
<1>10. TalkInv(c, more, s)
  <2>1. f \in Verdicts(c) => Has(s.out) /\ s.snd = c.rcv
    BY <1>8 DEF Verdicts, NewSeq
  <2>2. QED
    BY <1>2, <2>1 DEF EstInv, TalkInv
<1>11. QED
  BY <1>6, <1>7, <1>9, <1>10 DEF EstInv, more

(* A broker that has forgotten the connection takes the repeated SYN.        *)
LEMMA TakeSyn ==
    ASSUME NEW c \in Ends, NEW up \in Seq(PeerFrames), up # <<>>, NEW dn, NEW s \in Brokers,
           NEW got, EstInv(c, up, dn, s, got), Head(up) \in Syns(c)
    PROVE  EstInv(c, Tail(up), dn, Greeted(c.port), got)
<1> DEFINE t == Greeted(c.port)
           rest == Tail(up)
<1>1. EstInv(c, rest, dn, s, got)
  BY DropUp
<1>2. ~None(up, Syns(c))
  BY PopFrame DEF None
<1>3. /\ c.snd = Bump(0) /\ c.rcv = Bump(0) /\ c.phase = "CONNECTING"
      /\ None(up, OldAcks(c))
      /\ \A f \in Frames(dn) : f \in Mine(c) => f \in SynAcks(c)
  BY <1>2 DEF EstInv, HelloInv
<1>4. None(rest, OldAcks(c))
  BY <1>3, PopFrame DEF None
<1>5. /\ t.state = "SYN_RCVD" /\ t.port = c.port /\ t.snd = 0 /\ t.rcv = Bump(0)
      /\ t.out = <<>> /\ t.todo = <<>> /\ Live(t) /\ ~Has(<<>>)
      /\ InFlight(t) # <<>>
  <2>1. Listening(c.port) = [state |-> "LISTEN", port |-> c.port, snd |-> 0, rcv |-> 0,
                             out |-> <<>>, todo |-> <<>>, up |-> FALSE]
    BY DEF Listening
  <2>2. /\ t.state = "SYN_RCVD" /\ t.port = c.port /\ t.snd = 0 /\ t.rcv = Bump(0)
        /\ t.out = <<>> /\ t.todo = <<>>
    BY <2>1 DEF Greeted
  <2> HIDE DEF t
  <2>3. InFlight(t) # <<>>
    BY <2>2 DEF InFlight
  <2>4. QED
    BY <2>2, <2>3 DEF Live, Has
<1>6. Bump(0) # 0 /\ Bump(Bump(0)) # Bump(0)
  BY BumpFacts
<1>7. None(dn, Confirming(c)) /\ None(dn, NewSeq(c)) /\ None(dn, Verdicts(c))
  <2>1. \A f \in Frames(dn) : f \in Mine(c) => f.ack # Bump(c.snd) /\ f.seq # c.rcv
    BY <1>3, <1>6 DEF SynAcks
  <2>2. QED
    BY <2>1 DEF None, Confirming, NewSeq, Verdicts
<1>8. HelloInv(c, rest, dn, t)
  BY <1>1, <1>3, <1>4, <1>5 DEF EstInv, HelloInv, t
<1>9. SendInv(c, rest, dn, t, got)
  BY <1>1, <1>3, <1>5, <1>6, <1>7 DEF EstInv, SendInv, Taken
<1> HIDE DEF t, rest
<1>10. RecvInv(c, rest, dn, t)
  <2>1. Bump(t.snd) = c.rcv
    BY <1>3, <1>5
  <2>2. \A f \in Frames(dn) : f \notin NewSeq(c)
    BY <1>7 DEF None
  <2>3. QED
    BY <1>1, <1>4, <1>5, <1>7, <2>1, <2>2 DEF EstInv, RecvInv
<1>11. TalkInv(c, dn, t)
  BY <1>3, <1>5, <1>7 DEF TalkInv
<1>12. QED
  BY <1>8, <1>9, <1>10, <1>11 DEF EstInv, t, rest

\* Acked, of any connection.
AfterAck(s, f) ==
    IF f.ack # Bump(s.snd) \/ InFlight(s) = <<>> \/ s.state = "FIN_SENT" THEN s
    ELSE [s EXCEPT !.snd = Bump(s.snd), !.state = "ESTABLISHED", !.out = <<>>]

(* The acknowledgement that a frame carries.  It is for what is in flight:   *)
(* the node has taken that, and everything still on its way says so too.     *)
LEMMA TakeAck ==
    ASSUME NEW c \in Ends, NEW up \in Seq(PeerFrames), up # <<>>, NEW dn, NEW s \in Brokers,
           NEW got, EstInv(c, up, dn, s, got), Live(s),
           Head(up) \in Acks(c), NEW t \in Brokers, t = AfterAck(s, Head(up))
    PROVE  /\ EstInv(c, Tail(up), dn, t, got)
           /\ t.state \in {"ESTABLISHED", "FIN_SENT"}
<1> DEFINE f == Head(up)
           rest == Tail(up)
<1>1. EstInv(c, rest, dn, s, got)
  BY DropUp
<1>2. \A n \in SeqNo : Bump(n) \in SeqNo /\ Bump(n) # n
  BY BumpFacts
<1>3. c.snd \in SeqNo /\ c.rcv \in SeqNo /\ s.snd \in SeqNo /\ s.rcv \in SeqNo /\ 0 \in SeqNo
  BY BumpFacts DEF Ends, Brokers
<1>4. f \in OldAcks(c) \cup CurAcks(c)
  BY PopFrame DEF EstInv, RecvInv
<1>5. None(up, OldAcks(c)) => f.ack = c.rcv
  BY <1>4, PopFrame DEF None, CurAcks
<1>6. None(rest, Syns(c))
  BY PopSorted DEF EstInv, HelloInv
<1>7. CASE f.ack # Bump(s.snd) \/ InFlight(s) = <<>> \/ s.state = "FIN_SENT"
  <2>1. t = s
    BY <1>7 DEF AfterAck
  <2>2. ASSUME s.state = "SYN_RCVD" PROVE FALSE
    <3>1. s = Greeted(c.port) /\ c.rcv = Bump(0)
      BY <2>2 DEF EstInv, HelloInv
    <3>2. s.snd = 0
      BY <3>1 DEF Greeted, Listening
    <3>3. InFlight(s) # <<>>
      BY <2>2 DEF InFlight
    <3>4. f.ack = c.rcv
      BY <1>5, <2>2 DEF EstInv, RecvInv
    <3>5. QED
      BY <1>7, <2>2, <3>1, <3>2, <3>3, <3>4
  <2>3. QED
    BY <1>1, <2>1, <2>2 DEF Live, Brokers
<1>8. CASE f.ack = Bump(s.snd) /\ InFlight(s) # <<>> /\ s.state # "FIN_SENT"
  <2>1. /\ t.snd = Bump(s.snd) /\ t.state = "ESTABLISHED" /\ t.out = <<>>
        /\ t.port = s.port /\ t.rcv = s.rcv /\ t.todo = s.todo /\ t.up = s.up
    BY <1>8 DEF AfterAck, Brokers
  <2>2. s.snd # c.rcv
    <3>1. SUFFICES ASSUME s.snd = c.rcv PROVE FALSE
      OBVIOUS
    <3>2. f.ack = c.rcv
      BY <1>5, <3>1 DEF EstInv, RecvInv
    <3>3. QED
      BY <1>2, <1>3, <1>8, <3>1, <3>2
  <2>3. Bump(s.snd) = c.rcv
    BY <2>2 DEF EstInv, RecvInv
  <2>4. f \in CurAcks(c)
    BY <1>8, <2>3 DEF CurAcks
  <2>5. None(rest, OldAcks(c))
    BY <2>4, PopSorted DEF EstInv, RecvInv
  <2>6. None(dn, NewSeq(c)) /\ None(dn, Verdicts(c))
    BY <2>2 DEF EstInv, RecvInv, None, Verdicts
  <2>7. ~Has(<<>>) /\ Live(t) /\ Live(s)
    BY <2>1 DEF Has, Live
  <2> HIDE DEF f, rest
  <2>8. HelloInv(c, rest, dn, t)
    BY <1>1, <1>6, <2>1 DEF EstInv, HelloInv
  <2>9. SendInv(c, rest, dn, t, got)
    BY <1>1, <2>1, <2>7 DEF EstInv, SendInv, Taken
  <2>10. RecvInv(c, rest, dn, t)
    <3>1. t.snd = c.rcv
      BY <2>1, <2>3
    <3>2. \A g \in Frames(dn) : g \notin NewSeq(c)
      BY <2>6 DEF None
    <3>3. QED
      BY <1>1, <2>1, <2>5, <2>6, <3>1, <3>2 DEF EstInv, RecvInv
  <2>11. TalkInv(c, dn, t)
    <3>1. s.state \in {"SYN_RCVD", "ESTABLISHED"}
      BY <1>8, <2>7 DEF Live, Brokers
    <3>2. QED
      BY <1>1, <2>1, <2>6, <2>7, <3>1 DEF EstInv, TalkInv
  <2>12. QED
    BY <2>1, <2>8, <2>9, <2>10, <2>11 DEF EstInv, rest
<1>9. QED
  BY <1>7, <1>8 DEF f

(* Data that the broker takes for new is what the node has in flight, and    *)
(* nothing older is left behind it.                                          *)
LEMMA DataIsNew ==
    ASSUME NEW c \in Ends, NEW up \in Seq(PeerFrames), up # <<>>, NEW dn, NEW s \in Brokers,
           NEW got, EstInv(c, up, dn, s, got), Live(s),
           Head(up) \in Acks(c), Head(up).data # <<>>, Head(up).seq = s.rcv
    PROVE  /\ s.rcv = c.snd
           /\ Head(up).data = c.data
           /\ None(Tail(up), OldData(c))
           /\ None(dn, Confirming(c))
<1> DEFINE f == Head(up)
<1>1. \A n \in SeqNo : Bump(n) \in SeqNo /\ Bump(n) # n
  BY BumpFacts
<1>2. c.snd \in SeqNo
  BY DEF Ends
<1>3. f \in Frames(up)
  BY PopFrame
<1>4. f \in OldData(c) \cup NewData(c)
  BY <1>3 DEF EstInv, SendInv
<1>5. ASSUME s.rcv = Bump(c.snd) PROVE FALSE
  <2>1. None(up, OldData(c))
    BY <1>5 DEF EstInv, SendInv, Taken
  <2>2. f.seq = c.snd
    BY <1>3, <1>4, <2>1 DEF None, NewData
  <2>3. QED
    BY <1>1, <1>2, <1>5, <2>2
<1>6. s.rcv = c.snd
  BY <1>5 DEF EstInv, SendInv
<1>7. f \in NewData(c)
  BY <1>1, <1>2, <1>4, <1>6 DEF OldData
<1>8. None(Tail(up), OldData(c))
  BY <1>7, PopSorted DEF EstInv, SendInv
<1>9. None(dn, Confirming(c))
  BY <1>5 DEF EstInv, SendInv
<1>10. QED
  BY <1>3, <1>6, <1>7, <1>8, <1>9 DEF EstInv, SendInv

(* The broker takes new data; `more' is what it will answer.                 *)
LEMMA TakeData ==
    ASSUME NEW c \in Ends, NEW up, NEW dn, NEW s \in Brokers, NEW got,
           EstInv(c, up, dn, s, got), s.state = "ESTABLISHED", s.rcv = c.snd, c.data # <<>>,
           None(up, OldData(c)), None(dn, Confirming(c)),
           NEW greets \in BOOLEAN, NEW more \in Seq(Answer),
           Has(more) => greets, s.up => ~greets,
           NEW t \in Brokers,
           t = [s EXCEPT !.rcv = Bump(s.rcv), !.up = @ \/ greets, !.todo = @ \o more]
    PROVE  EstInv(c, up, dn, t, [port |-> c.port, seq |-> c.snd, data |-> c.data])
<1> DEFINE got2 == [port |-> c.port, seq |-> c.snd, data |-> c.data]
<1>1. \A n \in SeqNo : Bump(n) \in SeqNo /\ Bump(n) # n
  BY BumpFacts
<1>2. /\ t.snd = s.snd /\ t.state = "ESTABLISHED" /\ t.out = s.out
      /\ t.port = s.port /\ t.rcv = Bump(c.snd) /\ t.todo = s.todo \o more
      /\ ~t.up => ~s.up /\ ~greets
  BY DEF Brokers
<1>3. Has(t.todo) => Has(s.todo) \/ Has(more)
  <2>1. s.todo \in Seq(Answer)
    BY DEF Brokers
  <2>2. /\ Len(s.todo) \in Nat /\ Len(more) \in Nat
        /\ DOMAIN t.todo = 1 .. Len(s.todo) + Len(more)
        /\ DOMAIN s.todo = 1 .. Len(s.todo) /\ DOMAIN more = 1 .. Len(more)
        /\ \A i \in 1 .. Len(s.todo) + Len(more) :
             t.todo[i] = IF i <= Len(s.todo) THEN s.todo[i] ELSE more[i - Len(s.todo)]
    BY <1>2, <2>1, ConcatProperties, LenProperties
  <2>3. \A i \in 1 .. Len(s.todo) + Len(more) :
          i \in 1 .. Len(s.todo) \/ i - Len(s.todo) \in 1 .. Len(more)
    BY <2>2
  <2>4. QED
    BY <2>2, <2>3 DEF Has
<1>4. HelloInv(c, up, dn, t)
  BY <1>2 DEF EstInv, HelloInv
<1>5. SendInv(c, up, dn, t, got2)
  BY <1>1, <1>2 DEF EstInv, SendInv, Taken
<1>6. RecvInv(c, up, dn, t)
  <2>1. InFlight(s) # <<>> => InFlight(t) # <<>>
    BY <1>2 DEF InFlight
  <2>2. Live(s) /\ Live(t)
    BY <1>2 DEF Live
  <2>3. QED
    BY <1>2, <2>1, <2>2 DEF EstInv, RecvInv
<1>7. TalkInv(c, dn, t)
  <2>1. Has(more) => ~s.up
    OBVIOUS
  <2>2. QED
    BY <1>2, <1>3, <2>1 DEF EstInv, TalkInv
<1>8. QED
  BY <1>4, <1>5, <1>6, <1>7 DEF EstInv

(* A protocol error, or data for a broker that has closed.                   *)
LEMMA GiveUp ==
    ASSUME NEW c, NEW up, NEW dn, NEW s, NEW got, NEW got2,
           EstInv(c, up, dn, s, got), None(dn, Confirming(c))
    PROVE  EstInv(c, up, dn, Listening(s.port), got2)
<1>1. EstInv(c, up, dn, Listening(s.port), got)
  BY Forget
<1>2. ~Live(Listening(s.port))
  BY DEF Live, Listening
<1>3. QED
  BY <1>1, <1>2 DEF EstInv, SendInv, Taken

(* The answers to what the broker has taken go into flight.                  *)
LEMMA Load ==
    ASSUME NEW c \in Ends, NEW up, NEW dn, NEW s \in Brokers, NEW got,
           EstInv(c, up, dn, s, got), s.state = "ESTABLISHED", s.out = <<>>, s.todo # <<>>,
           NEW t \in Brokers, t = [s EXCEPT !.out = s.todo, !.todo = <<>>]
    PROVE  EstInv(c, up, dn, t, got)
<1>1. /\ t.snd = s.snd /\ t.state = "ESTABLISHED" /\ t.out = s.todo /\ t.todo = <<>>
      /\ t.port = s.port /\ t.rcv = s.rcv /\ t.up = s.up /\ ~Has(<<>>)
  BY DEF Brokers, Has
<1>2. Live(s) /\ Live(t) /\ InFlight(s) = <<>> /\ InFlight(t) # <<>>
  BY <1>1 DEF Live, InFlight
<1>3. HelloInv(c, up, dn, t)
  BY <1>1 DEF EstInv, HelloInv
<1>4. SendInv(c, up, dn, t, got)
  BY <1>1, <1>2 DEF EstInv, SendInv, Taken
<1>5. RecvInv(c, up, dn, t)
  BY <1>1, <1>2 DEF EstInv, RecvInv
<1>6. TalkInv(c, dn, t)
  BY <1>1, <1>2 DEF EstInv, TalkInv
<1>7. QED
  BY <1>3, <1>4, <1>5, <1>6 DEF EstInv

(* The orderly end of the connection.                                        *)
LEMMA CloseDown ==
    ASSUME NEW c \in Ends, NEW up, NEW dn, NEW s \in Brokers, NEW got,
           EstInv(c, up, dn, s, got), s.state = "ESTABLISHED", s.out = <<>>,
           NEW t \in Brokers,
           t = [s EXCEPT !.state = "FIN_SENT", !.todo = <<>>, !.up = FALSE]
    PROVE  EstInv(c, up, dn, t, got)
<1>1. /\ t.snd = s.snd /\ t.state = "FIN_SENT" /\ t.out = <<>> /\ t.todo = <<>>
      /\ t.port = s.port /\ t.rcv = s.rcv /\ ~Has(<<>>)
  BY DEF Brokers, Has
<1>2. Live(s) /\ Live(t) /\ InFlight(s) = <<>> /\ InFlight(t) # <<>>
  BY <1>1 DEF Live, InFlight
<1>3. HelloInv(c, up, dn, t)
  BY <1>1 DEF EstInv, HelloInv
<1>4. SendInv(c, up, dn, t, got)
  BY <1>1, <1>2 DEF EstInv, SendInv, Taken
<1>5. RecvInv(c, up, dn, t)
  BY <1>1, <1>2 DEF EstInv, RecvInv
<1>6. TalkInv(c, dn, t)
  BY <1>1, <1>2 DEF EstInv, TalkInv
<1>7. QED
  BY <1>3, <1>4, <1>5, <1>6 DEF EstInv

-----------------------------------------------------------------------------
(* Moves of the node                                                         *)

\* A segment of the node's, with or without what is in flight.
FromNode(c, f) ==
    /\ f.port = c.port /\ f.flags = {"ACK"}
    /\ f.seq = c.snd /\ f.ack = c.rcv
    /\ f.data # <<>> => f.data = c.data

LEMMA SendUp ==
    ASSUME NEW c \in Ends, NEW up \in Seq(PeerFrames), NEW dn, NEW s, NEW got,
           EstInv(c, up, dn, s, got), NEW f \in PeerFrames, FromNode(c, f)
    PROVE  EstInv(c, Append(up, f), dn, s, got)
<1> DEFINE more == Append(up, f)
<1>1. \A g \in Frames(more) : g \in Frames(up) \/ g = f
  BY PushFrame
<1>2. \A S : None(more, S) <=> None(up, S) /\ f \notin S
  BY PushFrame DEF None
<1>3. ASSUME NEW early, NEW late, Sorted(up, early, late), f \notin early \/ None(up, late)
      PROVE  Sorted(more, early, late)
  BY <1>3, PushSorted
<1>4. \A n \in SeqNo : Bump(n) # n
  BY BumpFacts
<1>5. c.snd \in SeqNo /\ c.rcv \in SeqNo
  BY DEF Ends
<1>6. {"ACK"} # {"SYN"}
  OBVIOUS
<1>7. f \in CurAcks(c) /\ f \notin OldAcks(c)
  BY <1>4, <1>5 DEF FromNode, CurAcks, OldAcks, Acks
<1>8. f \in Acks(c) /\ f \notin Syns(c) /\ f \notin Foreign(c)
  BY <1>6 DEF FromNode, Acks, Syns, Foreign
<1>9. /\ f \notin OldData(c)
      /\ f.data # <<>> => f \in NewData(c)
      /\ f \in NewData(c) => f.data = c.data
  BY <1>4, <1>5, <1>8 DEF FromNode, OldData, NewData
<1> HIDE DEF more
<1>10. HelloInv(c, more, dn, s)
  BY <1>1, <1>2, <1>3, <1>7, <1>8 DEF EstInv, HelloInv
<1>11. SendInv(c, more, dn, s, got)
  BY <1>1, <1>2, <1>3, <1>9 DEF EstInv, SendInv
<1>12. RecvInv(c, more, dn, s)
  BY <1>1, <1>2, <1>3, <1>7 DEF EstInv, RecvInv
<1>13. QED
  BY <1>10, <1>11, <1>12 DEF EstInv, more

(* A frame of neither end of the connection.                                 *)
LEMMA SendAside ==
    ASSUME NEW c, NEW up \in Seq(PeerFrames), NEW dn, NEW s, NEW got,
           NEW f \in PeerFrames, f.port # c.port, "RST" \in f.flags
    PROVE  /\ SynInv(c, up, dn, s) => SynInv(c, Append(up, f), dn, s)
           /\ EstInv(c, up, dn, s, got) => EstInv(c, Append(up, f), dn, s, got)
           /\ LastInv(c, up, dn, s) => LastInv(c, Append(up, f), dn, s)
<1> DEFINE more == Append(up, f)
<1>1. \A g \in Frames(more) : g \in Frames(up) \/ g = f
  BY PushFrame
<1>2. \A S : None(more, S) <=> None(up, S) /\ f \notin S
  BY PushFrame DEF None
<1>3. ASSUME NEW early, NEW late, Sorted(up, early, late), f \notin early \/ None(up, late)
      PROVE  Sorted(more, early, late)
  BY <1>3, PushSorted
<1>4. f \notin Foreign(c) /\ f \notin Owns(c) /\ f \notin Syns(c) /\ f \notin Acks(c)
  BY DEF Foreign, Owns, Syns, Acks
<1>5. f \notin OldAcks(c) /\ f \notin CurAcks(c) /\ f \notin OldData(c) /\ f \notin NewData(c)
  BY <1>4 DEF OldAcks, CurAcks, OldData, NewData
<1> HIDE DEF more
<1>6. SynInv(c, up, dn, s) => SynInv(c, more, dn, s)
  BY <1>1, <1>2, <1>3, <1>4 DEF SynInv
<1>7. HelloInv(c, up, dn, s) => HelloInv(c, more, dn, s)
  BY <1>1, <1>2, <1>3, <1>4, <1>5 DEF HelloInv
<1>8. SendInv(c, up, dn, s, got) => SendInv(c, more, dn, s, got)
  BY <1>1, <1>2, <1>3, <1>4, <1>5 DEF SendInv
<1>9. RecvInv(c, up, dn, s) => RecvInv(c, more, dn, s)
  BY <1>1, <1>2, <1>3, <1>4, <1>5 DEF RecvInv
<1>10. LastInv(c, up, dn, s) => LastInv(c, more, dn, s)
  BY <1>1, <1>2, <1>3, <1>4 DEF LastInv
<1>11. QED
  BY <1>6, <1>7, <1>8, <1>9, <1>10 DEF EstInv, more

(* Nothing was in flight and something may be now.                           *)
LEMMA LoadNode ==
    ASSUME NEW c, NEW up, NEW dn, NEW s, NEW got, EstInv(c, up, dn, s, got), c.data = <<>>,
           NEW c2 \in Ends, c2.port = c.port, c2.snd = c.snd, c2.rcv = c.rcv, c2.phase = c.phase
    PROVE  EstInv(c2, up, dn, s, got)
<1>1. /\ Foreign(c2) = Foreign(c) /\ Owns(c2) = Owns(c) /\ Syns(c2) = Syns(c)
      /\ Acks(c2) = Acks(c) /\ Mine(c2) = Mine(c)
  BY DEF Foreign, Owns, Syns, Acks, Mine
<1>2. /\ OldAcks(c2) = OldAcks(c) /\ CurAcks(c2) = CurAcks(c)
      /\ OldData(c2) = OldData(c) /\ NewData(c2) = NewData(c)
  BY <1>1 DEF OldAcks, CurAcks, OldData, NewData
<1>3. /\ SynAcks(c2) = SynAcks(c) /\ Stale(c2) = Stale(c) /\ Confirming(c2) = Confirming(c)
      /\ OldSeq(c2) = OldSeq(c) /\ NewSeq(c2) = NewSeq(c)
  BY <1>1 DEF SynAcks, Stale, Confirming, OldSeq, NewSeq
<1>4. Verdicts(c2) = Verdicts(c)
  BY <1>3 DEF Verdicts
<1>5. HelloInv(c2, up, dn, s)
  BY <1>1, <1>2, <1>3 DEF EstInv, HelloInv
<1>6. SendInv(c2, up, dn, s, got)
  <2>1. \A f \in Frames(up) : f \notin NewData(c)
    BY DEF EstInv, SendInv, NewData
  <2>2. ~Taken(c, dn, s)
    BY DEF EstInv, SendInv
  <2>3. ~Taken(c2, dn, s)
    BY <1>3, <2>2 DEF Taken
  <2>4. QED
    BY <1>1, <1>2, <1>3, <2>1, <2>3 DEF EstInv, SendInv
<1>7. RecvInv(c2, up, dn, s)
  BY <1>1, <1>2, <1>3 DEF EstInv, RecvInv
<1>8. TalkInv(c2, dn, s)
  BY <1>4 DEF EstInv, TalkInv
<1>9. QED
  BY <1>5, <1>6, <1>7, <1>8 DEF EstInv

(* A frame that confirms what is in flight: the broker has taken it, and the *)
(* handshake is over.                                                        *)
LEMMA Confirms ==
    ASSUME NEW c \in Ends, NEW up, NEW dn \in Seq(NodeFrames), dn # <<>>, NEW s, NEW got,
           EstInv(c, up, dn, s, got), Head(dn) \in Confirming(c)
    PROVE  /\ None(Tail(dn), Stale(c))
           /\ None(up, OldData(c))
           /\ None(up, Syns(c))
           /\ s.state # "SYN_RCVD"
           /\ Live(s) => s.rcv = Bump(c.snd)
           /\ c.data # <<>>
           /\ got = [port |-> c.port, seq |-> c.snd, data |-> c.data]
<1> DEFINE f == Head(dn)
<1>1. \A n \in SeqNo : Bump(n) \in SeqNo /\ Bump(n) # n
  BY BumpFacts
<1>2. c.snd \in SeqNo
  BY DEF Ends
<1>3. f \in Frames(dn) /\ ~None(dn, Confirming(c))
  BY PopFrame DEF None
<1>4. None(Tail(dn), Stale(c))
  BY PopSorted DEF EstInv, SendInv
<1>5. f.ack = Bump(c.snd) /\ f \in Mine(c)
  BY DEF Confirming
<1>6. None(up, Syns(c))
  <2>1. SUFFICES ASSUME ~None(up, Syns(c)) PROVE FALSE
    OBVIOUS
  <2>2. c.snd = Bump(0) /\ f.ack = Bump(0)
    BY <1>3, <1>5, <2>1 DEF EstInv, HelloInv, SynAcks
  <2>3. QED
    BY <1>1, <1>2, <1>5, <2>2
<1>7. Taken(c, dn, s) /\ (Live(s) => s.rcv = Bump(c.snd))
  BY <1>3 DEF EstInv, SendInv, Taken
<1>8. s.state # "SYN_RCVD"
  <2>1. SUFFICES ASSUME s.state = "SYN_RCVD" PROVE FALSE
    OBVIOUS
  <2>2. s = Greeted(c.port) /\ c.snd = Bump(0)
    BY <2>1 DEF EstInv, HelloInv
  <2>3. s.rcv = Bump(0)
    BY <2>2 DEF Greeted, Listening
  <2>4. QED
    BY <1>1, <1>2, <1>7, <2>1, <2>2, <2>3 DEF Live
<1>9. QED
  BY <1>4, <1>6, <1>7, <1>8 DEF EstInv, SendInv

LEMMA Advance ==
    ASSUME NEW c \in Ends, NEW up, NEW dn, NEW s, NEW got, EstInv(c, up, dn, s, got),
           None(dn, Stale(c)), None(up, OldData(c)), None(up, Syns(c)), s.state # "SYN_RCVD",
           Live(s) => s.rcv = Bump(c.snd),
           NEW c2, c2.port = c.port, c2.snd = Bump(c.snd), c2.rcv = c.rcv, c2.data = <<>>,
           c2.phase = c.phase
    PROVE  EstInv(c2, up, dn, s, got)
<1>1. \A n \in SeqNo : Bump(n) \in SeqNo /\ Bump(n) # n
  BY BumpFacts
<1>2. c.snd \in SeqNo
  BY DEF Ends
<1>3. /\ Foreign(c2) = Foreign(c) /\ Owns(c2) = Owns(c) /\ Syns(c2) = Syns(c)
      /\ Acks(c2) = Acks(c) /\ Mine(c2) = Mine(c)
  BY DEF Foreign, Owns, Syns, Acks, Mine
<1>4. OldAcks(c2) = OldAcks(c) /\ CurAcks(c2) = CurAcks(c)
  BY <1>3 DEF OldAcks, CurAcks
<1>5. SynAcks(c2) = SynAcks(c) /\ OldSeq(c2) = OldSeq(c) /\ NewSeq(c2) = NewSeq(c)
  BY <1>3 DEF SynAcks, OldSeq, NewSeq
<1>6. Verdicts(c2) = Verdicts(c)
  BY <1>5 DEF Verdicts
<1>7. HelloInv(c2, up, dn, s)
  BY <1>3 DEF EstInv, HelloInv
<1>8. SendInv(c2, up, dn, s, got)
  <2> USE DEF EstInv, SendInv
  <2>1. \A f \in Frames(dn) : f \in Mine(c) /\ "ACK" \in f.flags => f \in Stale(c2)
    BY <1>3 DEF None, Stale, Confirming
  <2>2. None(dn, Confirming(c2))
    BY <1>1, <1>2, <1>3, <2>1 DEF None, Stale, Confirming
  <2>3. \A f \in Frames(up) : f \in Acks(c) /\ f.data # <<>> => f \in OldData(c2)
    BY <1>3 DEF None, OldData, NewData
  <2>4. None(up, NewData(c2))
    BY <1>1, <1>2, <1>3, <2>3 DEF None, OldData, NewData
  <2>5. Sorted(dn, Stale(c2), Confirming(c2)) /\ Sorted(up, OldData(c2), NewData(c2))
    BY <2>2, <2>4, SortedNone
  <2>6. ~Taken(c2, dn, s)
    BY <1>1, <1>2, <2>2 DEF Taken
  <2>7. \A f \in Frames(up) : f \notin NewData(c2)
    BY <2>4 DEF None
  <2>8. QED
    BY <1>3, <2>1, <2>2, <2>3, <2>5, <2>6, <2>7
<1>9. RecvInv(c2, up, dn, s)
  BY <1>3, <1>4, <1>5 DEF EstInv, RecvInv
<1>10. TalkInv(c2, dn, s)
  BY <1>6 DEF EstInv, TalkInv
<1>11. QED
  BY <1>7, <1>8, <1>9, <1>10 DEF EstInv

(* A frame with the number the node expects: the broker still waits for its  *)
(* acknowledgement.  A verdict is there only once, for a CONNECT it accepted. *)
LEMMA IsNext ==
    ASSUME NEW c \in Ends, NEW up, NEW dn \in Seq(NodeFrames), dn # <<>>, NEW s, NEW got,
           EstInv(c, up, dn, s, got), Head(dn) \in NewSeq(c)
    PROVE  /\ None(Tail(dn), OldSeq(c))
           /\ None(up, OldAcks(c))
           /\ None(up, Syns(c))
           /\ s.state # "SYN_RCVD"
           /\ Live(s) => InFlight(s) # <<>> /\ s.snd = c.rcv
           /\ Has(Head(dn).data) => /\ c.phase = "CONNECTING"
                                    /\ s.state = "ESTABLISHED" => s.up
                                    /\ ~Has(s.todo)
           /\ Head(dn).flags = {"FIN", "ACK"} => s.state \in {"LISTEN", "FIN_SENT"}
<1> DEFINE f == Head(dn)
<1>1. Bump(0) # 0
  BY BumpFacts
<1>2. f \in Frames(dn) /\ ~None(dn, NewSeq(c))
  BY PopFrame DEF None
<1>3. None(Tail(dn), OldSeq(c))
  BY PopSorted DEF EstInv, RecvInv
<1>4. f.seq = c.rcv /\ f \in Mine(c)
  BY DEF NewSeq
<1>5. None(up, Syns(c))
  <2>1. SUFFICES ASSUME ~None(up, Syns(c)) PROVE FALSE
    OBVIOUS
  <2>2. c.rcv = Bump(0) /\ f.seq = 0
    BY <1>2, <1>4, <2>1 DEF EstInv, HelloInv, SynAcks
  <2>3. QED
    BY <1>1, <1>4, <2>2
<1>6. Live(s) => InFlight(s) # <<>> /\ s.snd = c.rcv
  BY <1>2 DEF EstInv, RecvInv
<1>7. s.state # "SYN_RCVD"
  <2>1. SUFFICES ASSUME s.state = "SYN_RCVD" PROVE FALSE
    OBVIOUS
  <2>2. s = Greeted(c.port) /\ c.rcv = Bump(0)
    BY <2>1 DEF EstInv, HelloInv
  <2>3. s.snd = 0
    BY <2>2 DEF Greeted, Listening
  <2>4. QED
    BY <1>1, <1>6, <2>1, <2>2, <2>3 DEF Live
<1>8. Has(f.data) => ~None(dn, Verdicts(c))
  BY <1>2 DEF None, Verdicts
<1>9. Has(f.data) => /\ c.phase = "CONNECTING"
                     /\ s.state = "ESTABLISHED" => s.up
                     /\ ~Has(s.todo)
  BY <1>8 DEF EstInv, TalkInv
<1>10. QED
  BY <1>2, <1>3, <1>5, <1>6, <1>7, <1>9 DEF EstInv, RecvInv

LEMMA TakeNext ==
    ASSUME NEW c \in Ends, NEW up, NEW dn, NEW s \in Brokers, NEW got, EstInv(c, up, dn, s, got),
           None(dn, OldSeq(c)), None(up, OldAcks(c)), None(up, Syns(c)), s.state # "SYN_RCVD",
           Live(s) => InFlight(s) # <<>> /\ s.snd = c.rcv,
           NEW c2, c2.port = c.port, c2.snd = c.snd, c2.rcv = Bump(c.rcv), c2.data = c.data,
           c2.phase # c.phase => (s.state = "ESTABLISHED" => s.up) /\ ~Has(s.todo)
    PROVE  EstInv(c2, up, dn, s, got)
<1>1. \A n \in SeqNo : Bump(n) \in SeqNo /\ Bump(n) # n
  BY BumpFacts
<1>2. c.rcv \in SeqNo
  BY DEF Ends
<1>3. /\ Foreign(c2) = Foreign(c) /\ Owns(c2) = Owns(c) /\ Syns(c2) = Syns(c)
      /\ Acks(c2) = Acks(c) /\ Mine(c2) = Mine(c)
  BY DEF Foreign, Owns, Syns, Acks, Mine
<1>4. OldData(c2) = OldData(c) /\ NewData(c2) = NewData(c)
  BY <1>3 DEF OldData, NewData
<1>5. Stale(c2) = Stale(c) /\ Confirming(c2) = Confirming(c)
  BY <1>3 DEF Stale, Confirming
<1>6. /\ \A f \in Frames(dn) : f \in Mine(c) /\ Counted(f) => f \in OldSeq(c2)
      /\ None(dn, NewSeq(c2))
  <2>1. \A f \in Frames(dn) : f \in Mine(c) /\ Counted(f) => f.seq = c.rcv
    BY DEF EstInv, RecvInv, None, NewSeq
  <2>2. QED
    BY <1>1, <1>2, <1>3, <2>1 DEF OldSeq, NewSeq, None
<1>7. /\ \A f \in Frames(up) : f \in Acks(c) => f \in OldAcks(c2)
      /\ None(up, CurAcks(c2))
  <2>1. \A f \in Frames(up) : f \in Acks(c) => f.ack = c.rcv
    BY DEF EstInv, RecvInv, None, CurAcks
  <2>2. QED
    BY <1>1, <1>2, <1>3, <2>1 DEF OldAcks, CurAcks, None
<1>8. HelloInv(c2, up, dn, s)
  BY <1>3 DEF EstInv, HelloInv
<1>9. SendInv(c2, up, dn, s, got)
  BY <1>3, <1>4, <1>5 DEF EstInv, SendInv, Taken
<1>10. RecvInv(c2, up, dn, s)
  <2>1. Sorted(dn, OldSeq(c2), NewSeq(c2)) /\ Sorted(up, OldAcks(c2), CurAcks(c2))
    BY <1>6, <1>7, SortedNone
  <2>2. Live(s) => s.snd # c2.rcv /\ Bump(s.snd) = c2.rcv
    BY <1>1, <1>2
  <2>3. \A f \in Frames(dn) : f \notin NewSeq(c2)
    BY <1>6 DEF None
  <2>4. QED
    BY <1>3, <1>6, <1>7, <2>1, <2>2, <2>3 DEF RecvInv
<1>11. TalkInv(c2, dn, s)
  <2>1. None(dn, Verdicts(c2))
    BY <1>6 DEF None, Verdicts
  <2>2. Has(s.out) => s.snd # c2.rcv
    <3>1. Has(s.out) => Live(s)
      BY DEF EstInv, TalkInv, Has, Live
    <3>2. QED
      BY <1>1, <1>2, <3>1
  <2>3. QED
    BY <2>1, <2>2 DEF EstInv, TalkInv
<1>12. QED
  BY <1>8, <1>9, <1>10, <1>11 DEF EstInv

(* The node takes the answer to its SYN.                                     *)
LEMMA Established ==
    ASSUME NEW c \in Ends, NEW up, NEW dn \in Seq(NodeFrames), dn # <<>>, NEW s \in Brokers,
           NEW got, SynInv(c, up, dn, s), Forgotten(s), Head(dn) \in Mine(c),
           NEW c2 \in Ends, c2.port = c.port, c2.snd = Bump(0), c2.rcv = Bump(0),
           c2.data = <<>>, c2.phase = "CONNECTING"
    PROVE  EstInv(c2, up, Tail(dn), s, got)
<1> DEFINE rest == Tail(dn)
<1>1. \A n \in SeqNo : Bump(n) \in SeqNo /\ Bump(n) # n
  BY BumpFacts
<1>2. 0 \in SeqNo
  BY BumpFacts
<1>3. SynInv(c, up, rest, s)
  BY DropDn
<1>4. ~None(dn, Mine(c))
  BY PopFrame DEF None
<1>5. s.port = c.port /\ None(up, Foreign(c)) /\ (Live(s) => s = Greeted(c.port))
  BY <1>4 DEF SynInv
<1>6. Live(s) => /\ s.state = "SYN_RCVD" /\ s.snd = 0 /\ s.rcv = Bump(0)
                 /\ s.out = <<>> /\ s.todo = <<>>
  BY <1>5 DEF Greeted, Listening
<1>7. s.state \in {"LISTEN", "SYN_RCVD"} /\ (s.state = "SYN_RCVD" => InFlight(s) # <<>>)
  BY <1>6 DEF Live, InFlight
<1>8. /\ Foreign(c2) = Foreign(c) /\ Owns(c2) = Owns(c) /\ Syns(c2) = Syns(c)
      /\ Mine(c2) = Mine(c)
  BY DEF Foreign, Owns, Syns, Mine
<1>9. SynAcks(c2) = SynAcks(c)
  BY <1>8 DEF SynAcks
<1>10. /\ \A f \in Frames(up) : f \notin Acks(c2)
       /\ \A f \in Frames(up) : f \in Owns(c) => f \in Syns(c) /\ f.seq = 0
  <2>1. {"SYN"} # {"ACK"}
    OBVIOUS
  <2>2. QED
    BY <1>3, <2>1 DEF SynInv, Acks, Owns, Syns
<1>11. /\ None(up, Acks(c2)) /\ None(up, OldAcks(c2)) /\ None(up, CurAcks(c2))
       /\ None(up, OldData(c2)) /\ None(up, NewData(c2))
  BY <1>10 DEF None, OldAcks, CurAcks, OldData, NewData
<1>12. \A f \in Frames(rest) : f \in Mine(c) => f \in SynAcks(c) /\ f.seq = 0 /\ f.ack = Bump(0)
  BY <1>3 DEF SynInv, SynAcks
<1>13. None(rest, Confirming(c2)) /\ None(rest, NewSeq(c2)) /\ None(rest, Verdicts(c2))
  BY <1>1, <1>2, <1>8, <1>12 DEF None, Confirming, NewSeq, Verdicts
<1> HIDE DEF rest
<1>14. HelloInv(c2, up, rest, s)
  <2>1. Sorted(up, Syns(c2), Acks(c2))
    BY <1>11, SortedNone
  <2>2. \A f \in Frames(up) : f \in Owns(c2) => f \in Syns(c2) /\ f.seq = 0
    BY <1>8, <1>10
  <2>3. s.state = "SYN_RCVD" => s = Greeted(c2.port)
    BY <1>5 DEF Live
  <2>4. \A f \in Frames(rest) : f \in Mine(c2) => f \in SynAcks(c2)
    BY <1>8, <1>9, <1>12
  <2>5. QED
    BY <1>5, <1>7, <1>8, <1>11, <2>1, <2>2, <2>3, <2>4 DEF HelloInv
<1>15. SendInv(c2, up, rest, s, got)
  <2>1. Sorted(rest, Stale(c2), Confirming(c2)) /\ Sorted(up, OldData(c2), NewData(c2))
    BY <1>11, <1>13, SortedNone
  <2>2. ~Taken(c2, rest, s)
    BY <1>1, <1>2, <1>6, <1>13 DEF Taken
  <2>3. \A f \in Frames(rest) : f \in Mine(c2) /\ "ACK" \in f.flags => f \in Stale(c2)
    BY <1>8, <1>12 DEF Stale
  <2>4. \A f \in Frames(up) : f \notin NewData(c2)
    BY <1>11 DEF None
  <2>5. QED
    BY <1>6, <1>10, <1>13, <2>1, <2>2, <2>3, <2>4 DEF SendInv
<1>16. RecvInv(c2, up, rest, s)
  <2>1. Sorted(rest, OldSeq(c2), NewSeq(c2)) /\ Sorted(up, OldAcks(c2), CurAcks(c2))
    BY <1>11, <1>13, SortedNone
  <2>2. \A f \in Frames(rest) : f \in Mine(c2) /\ Counted(f) => f \in OldSeq(c2)
    BY <1>8, <1>12 DEF OldSeq
  <2>3. Live(s) => InFlight(s) # <<>> /\ Bump(s.snd) = c2.rcv
    BY <1>6, <1>7
  <2>4. \A f \in Frames(rest) : f \notin NewSeq(c2)
    BY <1>13 DEF None
  <2>5. QED
    BY <1>10, <1>11, <1>13, <2>1, <2>2, <2>3, <2>4 DEF RecvInv
<1>17. TalkInv(c2, rest, s)
  <2>1. s.state = "LISTEN" \/ Live(s)
    BY DEF Live
  <2>2. ~Has(<<>>)
    BY DEF Has
  <2>3. s.out = <<>> /\ s.todo = <<>>
    BY <1>6, <2>1 DEF Forgotten, Listening
  <2>4. QED
    BY <1>7, <1>13, <2>2, <2>3 DEF TalkInv
<1>18. QED
  BY <1>14, <1>15, <1>16, <1>17 DEF EstInv, rest

(* The node takes the FIN.                                                   *)
LEMMA Closing ==
    ASSUME NEW c \in Ends, NEW up, NEW dn, NEW s \in Brokers, NEW got, EstInv(c, up, dn, s, got),
           None(dn, OldSeq(c)), None(up, Syns(c)), s.state \in {"LISTEN", "FIN_SENT"},
           Live(s) => s.snd = c.rcv,
           NEW c2, c2.port = c.port, c2.rcv = Bump(c.rcv)
    PROVE  LastInv(c2, up, dn, s)
<1>1. \A n \in SeqNo : Bump(n) # n
  BY BumpFacts
<1>2. c.rcv \in SeqNo
  BY DEF Ends
<1>3. Syns(c2) = Syns(c) /\ Mine(c2) = Mine(c)
  BY DEF Syns, Mine
<1>4. \A f \in Frames(dn) : f \in Mine(c) /\ Counted(f) => f.seq = c.rcv
  BY DEF EstInv, RecvInv, None, NewSeq
<1>5. None(dn, NewSeq(c2))
  BY <1>1, <1>2, <1>3, <1>4 DEF NewSeq, None
<1>6. QED
  BY <1>3, <1>5 DEF LastInv, Live

-----------------------------------------------------------------------------
(* Moves while the connection is being set up or torn down                   *)

(* The broker answers the SYN, and may repeat its answer.                    *)
LEMMA SynTaken ==
    ASSUME NEW c \in Ends, NEW up \in Seq(PeerFrames), up # <<>>, NEW dn, NEW s,
           SynInv(c, up, dn, s), Head(up) \in Syns(c)
    PROVE  SynInv(c, Tail(up), dn, Greeted(c.port))
<1>1. SynInv(c, Tail(up), dn, s)
  BY DropUp
<1>2. Head(up) \in Owns(c)
  BY DEF Syns, Owns
<1>3. None(Tail(up), Foreign(c))
  BY <1>2, PopSorted DEF SynInv
<1>4. Greeted(c.port).port = c.port
  BY DEF Greeted, Listening
<1>5. QED
  BY <1>1, <1>3, <1>4 DEF SynInv

LEMMA SynAnswer ==
    ASSUME NEW c, NEW up, NEW dn \in Seq(NodeFrames), NEW s, SynInv(c, up, dn, s),
           NEW f \in NodeFrames,
           f \in Mine(c) => f \in SynAcks(c) /\ s.port = c.port /\ None(up, Foreign(c))
    PROVE  SynInv(c, up, Append(dn, f), s)
<1> DEFINE more == Append(dn, f)
<1>1. \A g \in Frames(more) : g \in Frames(dn) \/ g = f
  BY PushFrame
<1>2. \A S : None(more, S) <=> None(dn, S) /\ f \notin S
  BY PushFrame DEF None
<1> HIDE DEF more
<1>3. QED
  BY <1>1, <1>2 DEF SynInv, more

(* What the broker does about other connections.                             *)
LEMMA SynElsewhere ==
    ASSUME NEW c, NEW up, NEW dn, NEW s, SynInv(c, up, dn, s), NEW t,
           t.port # c.port, s.port # c.port \/ ~None(up, Foreign(c))
    PROVE  SynInv(c, up, dn, t)
<1>1. None(dn, Mine(c))
  BY DEF SynInv
<1>2. QED
  BY <1>1 DEF SynInv

LEMMA SynForget ==
    ASSUME NEW c, NEW up, NEW dn, NEW s, SynInv(c, up, dn, s)
    PROVE  SynInv(c, up, dn, Listening(s.port))
<1>1. ~Live(Listening(s.port)) /\ Listening(s.port).port = s.port
  BY DEF Live, Listening
<1>2. QED
  BY <1>1 DEF SynInv

(* The node repeats its SYN.                                                 *)
LEMMA SynRepeat ==
    ASSUME NEW c, NEW up \in Seq(PeerFrames), NEW dn, NEW s, SynInv(c, up, dn, s),
           NEW f \in Syns(c), f.seq = 0
    PROVE  SynInv(c, Append(up, f), dn, s)
<1> DEFINE more == Append(up, f)
<1>1. f \in PeerFrames /\ f \notin Foreign(c)
  BY DEF Syns, Foreign
<1>2. \A g \in Frames(more) : g \in Frames(up) \/ g = f
  BY <1>1, PushFrame
<1>3. \A S : None(more, S) <=> None(up, S) /\ f \notin S
  BY <1>1, PushFrame DEF None
<1>4. Sorted(up, Foreign(c), Owns(c)) => Sorted(more, Foreign(c), Owns(c))
  BY <1>1, PushSorted
<1> HIDE DEF more
<1>5. QED
  BY <1>1, <1>2, <1>3, <1>4 DEF SynInv, more

LEMMA LastUp ==
    ASSUME NEW c, NEW up \in Seq(PeerFrames), NEW dn, NEW s, LastInv(c, up, dn, s),
           NEW f \in PeerFrames, f.flags # {"SYN"}
    PROVE  LastInv(c, Append(up, f), dn, s)
<1>1. None(Append(up, f), Syns(c))
  BY PushFrame DEF LastInv, None, Syns
<1>2. QED
  BY <1>1 DEF LastInv

LEMMA LastDown ==
    ASSUME NEW c, NEW up, NEW dn \in Seq(NodeFrames), NEW s, LastInv(c, up, dn, s),
           NEW f \in NodeFrames, f.port = c.port /\ Counted(f) => f.seq # c.rcv
    PROVE  LastInv(c, up, Append(dn, f), s)
<1>1. f \notin NewSeq(c)
  BY DEF NewSeq, Mine
<1>2. None(Append(dn, f), NewSeq(c))
  BY <1>1, PushFrame DEF LastInv, None
<1>3. QED
  BY <1>2 DEF LastInv

-----------------------------------------------------------------------------
(* What the broker sends                                                     *)

(* An answer is one of two, and a CONNACK is there only for a CONNECT.       *)
LEMMA ReplyFacts ==
    ASSUME NEW data \in Seq(Unit), NEW replies \in Replies(data)
    PROVE  /\ replies \in Seq(Answer)
           /\ Has(replies) => Greets(data)
<1> DEFINE Complete(i) == data[i] \in {Connect[Len(Connect)], Ping[Len(Ping)]}
           Reply(u) == IF u = Ping[Len(Ping)] THEN "PINGRESP" ELSE "CONNACK_OK"
           places == {i \in DOMAIN data : Complete(i)}
<1>1. PICK s \in InOrder(places, Len(data)) : replies = [i \in DOMAIN s |-> Reply(data[s[i]])]
  BY DEF Replies
<1>2. PICK m \in 0 .. Len(data) : s \in [1 .. m -> places]
  BY <1>1 DEF InOrder
<1>3. m \in Nat
  BY <1>2, LenProperties
<1>4. DOMAIN s = 1 .. m
  BY <1>2
<1>5. replies = [i \in 1 .. m |-> Reply(data[s[i]])]
  BY <1>1, <1>4
<1>6. \A i \in 1 .. m : Reply(data[s[i]]) \in Answer
  BY DEF Answer
<1>7. replies \in [1 .. m -> Answer]
  BY <1>5, <1>6
<1>8. replies \in Seq(Answer)
  BY <1>3, <1>7, SeqDef
<1>9. ASSUME Has(replies) PROVE Greets(data)
  <2>1. PICK i \in 1 .. m : replies[i] = "CONNACK_OK"
    BY <1>5, <1>9 DEF Has
  <2>2. data[s[i]] # Ping[Len(Ping)]
    BY <1>5, <2>1
  <2>3. s[i] \in DOMAIN data /\ Complete(s[i])
    BY <1>2, <2>1
  <2>4. data[s[i]] = Connect[Len(Connect)]
    BY <2>2, <2>3
  <2>5. QED
    BY <2>3, <2>4 DEF Greets
<1>10. QED
  BY <1>8, <1>9

LEMMA SegType ==
    ASSUME NEW s \in Brokers, NEW seq \in SeqNo, NEW data \in Seq(Answer),
           NEW flags \in {{"SYN", "ACK"}, {"ACK"}, {"FIN", "ACK"}, {"RST"}},
           data # <<>> => flags = {"ACK"}
    PROVE  Seg(s, flags, seq, data) \in NodeFrames
BY DEF Seg, Brokers, NodeFrames

LEMMA SendOne ==
    ASSUME toNode \in Seq(NodeFrames), NEW f \in NodeFrames, Send(<<f>>)
    PROVE  toNode' \in {toNode, Append(toNode, f)}
<1>1. toNode \o <<f>> = Append(toNode, f)
  BY AppendIsConcat
<1>2. QED
  BY <1>1 DEF Send

LEMMA SendNone ==
    ASSUME toNode \in Seq(NodeFrames), Send(<<>>)
    PROVE  toNode' = toNode
<1>1. toNode \o <<>> = toNode
  BY ConcatEmptySeq
<1>2. QED
  BY <1>1 DEF Send

\* What the broker and the network leave behind when the frames of `up' are on
\* their way to the broker.
NetNext(up) ==
    /\ toNode' \in Seq(NodeFrames) /\ srv' \in Brokers
    /\ Link(tcpState, Conn, up, toNode', srv', received')

(* The broker may repeat what is not acknowledged in every state.            *)
LEMMA LinkRepeat ==
    ASSUME NEW state, NEW c \in Ends, NEW up, NEW dn \in Seq(NodeFrames), NEW s \in Brokers,
           NEW got, Link(state, c, up, dn, s, got), NEW f, InFlight(s) = <<f>>
    PROVE  Link(state, c, up, Append(dn, f), s, got)
<1>1. /\ Live(s) /\ f \in NodeFrames /\ f.port = s.port /\ f.seq = s.snd /\ f.ack = s.rcv
      /\ s.state = "SYN_RCVD" => f.flags = {"SYN", "ACK"}
  BY InFlightFacts
<1>2. ASSUME s = Greeted(c.port) PROVE f \in SynAcks(c)
  <2>1. s.state = "SYN_RCVD" /\ s.port = c.port /\ s.snd = 0 /\ s.rcv = Bump(0)
    BY <1>2 DEF Greeted, Listening
  <2>2. QED
    BY <1>1, <2>1 DEF SynAcks, Mine
<1>3. ASSUME SynInv(c, up, dn, s)
      PROVE  SynInv(c, up, Append(dn, f), s)
  <2>1. f \in Mine(c) => s = Greeted(c.port) /\ s.port = c.port /\ None(up, Foreign(c))
    BY <1>1, <1>3 DEF SynInv, Mine
  <2>2. QED
    BY <1>1, <1>2, <1>3, <2>1, SynAnswer
<1>4. ASSUME EstInv(c, up, dn, s, got)
      PROVE  EstInv(c, up, Append(dn, f), s, got)
  <2>1. None(up, Syns(c)) \/ s = Greeted(c.port)
    BY <1>1, <1>4 DEF EstInv, HelloInv, Live
  <2>2. QED
    BY <1>1, <1>2, <1>4, <2>1, SendDown
<1>5. ASSUME LastInv(c, up, dn, s)
      PROVE  LastInv(c, up, Append(dn, f), s)
  <2>1. s.snd \in SeqNo /\ Bump(s.snd) # s.snd
    BY BumpFacts DEF Brokers
  <2>2. f.port = c.port => f.seq # c.rcv
    BY <1>1, <1>5, <2>1 DEF LastInv
  <2>3. QED
    BY <1>1, <1>5, <2>2, LastDown
<1>6. QED
  BY <1>3, <1>4, <1>5 DEF Link

(* It may send an acknowledgement or a reset, except during the handshake.   *)
LEMMA LinkAnswer ==
    ASSUME NEW state, NEW c \in Ends, NEW up, NEW dn \in Seq(NodeFrames), NEW s \in Brokers,
           NEW got, Link(state, c, up, dn, s, got), NEW f \in NodeFrames, ~Counted(f),
           state = "SYN_SENT" => f.port # c.port,
           state = "ESTABLISHED" => /\ f.port = c.port /\ None(up, Syns(c))
                                    /\ "ACK" \in f.flags => Live(s) /\ f.ack = s.rcv
    PROVE  Link(state, c, up, Append(dn, f), s, got)
<1>1. CASE state = "SYN_SENT"
  <2>1. f \notin Mine(c)
    BY <1>1 DEF Mine
  <2>2. QED
    BY <1>1, <2>1, SynAnswer DEF Link
<1>2. CASE state = "ESTABLISHED"
  <2>1. s.port = c.port
    BY <1>2 DEF Link, EstInv, HelloInv
  <2>2. QED
    BY <1>2, <2>1, SendDown DEF Link
<1>3. CASE state = "LAST_ACK"
  BY <1>3, LastDown DEF Link
<1>4. QED
  BY <1>1, <1>2, <1>3 DEF Link

LEMMA ListeningType ==
    ASSUME NEW port \in Ports
    PROVE  /\ Listening(port) \in Brokers /\ Listening(port).port = port
           /\ ~Live(Listening(port)) /\ Forgotten(Listening(port))
<1>1. Listening(port) \in Brokers
  BY EmptySeq, BumpFacts DEF Listening, Brokers
<1>2. Listening(port).port = port /\ ~Live(Listening(port))
  BY DEF Listening, Live
<1>3. QED
  BY <1>1, <1>2 DEF Forgotten

LEMMA PeerFrameType ==
    ASSUME NEW f \in PeerFrames
    PROVE  /\ f.port \in Ports /\ f.seq \in SeqNo /\ f.ack \in SeqNo /\ f.data \in Seq(Unit)
           /\ f.flags \in {{"SYN"}, {"ACK"}, {"FIN", "ACK"}, {"RST", "ACK"}}
           /\ f.data # <<>> => f.flags = {"ACK"}
BY DEF PeerFrames

LEMMA ConnType ==
    ASSUME NodeInv
    PROVE  /\ Conn \in Ends
           /\ tcpState \in {"CLOSED", "SYN_SENT", "ESTABLISHED", "LAST_ACK"}
BY EmptySeq DEF NodeInv, NodeTypeOK, TcpTypeOK, ClientTypeOK, Conn, Ends, SeqNo

(* The kinds of frames that can reach the broker.                            *)
LEMMA OnTheWay ==
    ASSUME NEW c \in Ends, NEW up \in Seq(PeerFrames), up # <<>>, NEW dn, NEW s, NEW got, NEW state,
           Link(state, c, up, dn, s, got), NEW f, f = Head(up), "RST" \notin f.flags
    PROVE  /\ state = "SYN_SENT" =>
                 IF f.port = c.port THEN f \in Syns(c) /\ f.seq = 0
                                    ELSE ~None(up, Foreign(c))
           /\ state = "ESTABLISHED" =>
                 f.port = c.port /\ (f \in Acks(c) \/ (f \in Syns(c) /\ f.seq = 0))
           /\ state = "LAST_ACK" => f \notin Syns(c)
<1>1. f \in Frames(up) /\ f \in PeerFrames
  BY PopFrame
<1>2. f.port = c.port => f \in Owns(c)
  BY <1>1 DEF Owns
<1>3. f.port # c.port => ~None(up, Foreign(c))
  BY <1>1 DEF Foreign, None
<1>4. state = "SYN_SENT" => IF f.port = c.port THEN f \in Syns(c) /\ f.seq = 0
                                               ELSE ~None(up, Foreign(c))
  BY <1>1, <1>2, <1>3 DEF Link, SynInv
<1>5. state = "ESTABLISHED" =>
        f.port = c.port /\ (f \in Acks(c) \/ (f \in Syns(c) /\ f.seq = 0))
  BY <1>1, <1>2, <1>3 DEF Link, EstInv, HelloInv
<1>6. state = "LAST_ACK" => f \notin Syns(c)
  BY <1>1 DEF Link, LastInv, None
<1>7. QED
  BY <1>4, <1>5, <1>6

-----------------------------------------------------------------------------
(* The broker's actions                                                      *)

LEMMA SynStep ==
    ASSUME SystemInv, toPeer # <<>>, BrokerSyn(Head(toPeer))
    PROVE  NetNext(Tail(toPeer))
<1> DEFINE f == Head(toPeer)
           rest == Tail(toPeer)
           c == Conn
<1>1. c \in Ends /\ toPeer \in Seq(PeerFrames) /\ toNode \in Seq(NodeFrames) /\ srv \in Brokers
  BY ConnType DEF SystemInv, NetTypeOK
<1>2. Link(tcpState, c, toPeer, toNode, srv, received)
  BY DEF SystemInv, NetInv
<1>3. f \in PeerFrames /\ f.port \in Ports /\ f.seq \in SeqNo
  BY <1>1, PopFrame, PeerFrameType
<1>4. /\ f.flags = {"SYN"} /\ received' = received
      /\ srv' = [Listening(f.port) EXCEPT !.state = "SYN_RCVD", !.rcv = Bump(f.seq)]
      /\ Send(InFlight(srv'))
  BY DEF BrokerSyn
<1>5. srv' \in Brokers /\ Live(srv') /\ srv'.port = f.port /\ srv'.state = "SYN_RCVD"
  <2>1. Bump(f.seq) \in SeqNo /\ 0 \in SeqNo
    BY <1>3, BumpFacts
  <2>2. srv' = [state |-> "SYN_RCVD", port |-> f.port, snd |-> 0, rcv |-> Bump(f.seq),
                out |-> <<>>, todo |-> <<>>, up |-> FALSE]
    BY <1>4 DEF Listening
  <2>3. QED
    BY <1>3, <2>1, <2>2, EmptySeq DEF Brokers, Live
<1>6. f.seq = 0 => srv' = Greeted(f.port)
  BY <1>4 DEF Greeted
<1>7. "RST" \notin f.flags /\ {"SYN"} # {"ACK"}
  BY <1>4
<1> HIDE DEF f, c
<1>8. Link(tcpState, c, rest, toNode, srv', received)
  <2>1. ASSUME tcpState = "SYN_SENT" PROVE c.snd = 0 /\ SynInv(c, rest, toNode, srv')
    <3>1. CASE f.port = c.port
      BY <1>1, <1>2, <1>6, <1>7, <2>1, <3>1, OnTheWay, SynTaken DEF Link, f
    <3>2. CASE f.port # c.port
      <4>1. SynInv(c, toPeer, toNode, srv')
        BY <1>1, <1>2, <1>5, <1>7, <2>1, <3>2, OnTheWay, SynElsewhere DEF Link, f
      <4>2. QED
        BY <1>1, <1>2, <2>1, <4>1, DropUp DEF Link
    <3>3. QED
      BY <3>1, <3>2
  <2>2. ASSUME tcpState = "ESTABLISHED" PROVE EstInv(c, rest, toNode, srv', received)
    <3>1. f \in Syns(c) /\ f.seq = 0 /\ f.port = c.port
      <4>1. f \notin Acks(c)
        BY <1>4, <1>7 DEF Acks
      <4>2. QED
        BY <1>1, <1>2, <1>7, <2>2, <4>1, OnTheWay DEF f
    <3>2. QED
      BY <1>1, <1>2, <1>6, <2>2, <3>1, TakeSyn DEF Link, f
  <2>3. ASSUME tcpState = "LAST_ACK" PROVE LastInv(c, rest, toNode, srv')
    <3>1. f.port # c.port
      <4>1. f \notin Syns(c)
        BY <1>1, <1>2, <1>7, <2>3, OnTheWay DEF f
      <4>2. QED
        BY <1>3, <1>4, <4>1 DEF Syns
    <3>2. LastInv(c, rest, toNode, srv)
      BY <1>1, <1>2, <2>3, DropUp DEF Link
    <3>3. QED
      BY <1>5, <3>1, <3>2 DEF LastInv
  <2>4. QED
    BY <1>5, <2>1, <2>2, <2>3 DEF Link, Forgotten
<1>9. PICK g : InFlight(srv') = <<g>> /\ g \in NodeFrames
  <2>1. InFlight(srv') = <<Seg(srv', {"SYN", "ACK"}, srv'.snd, <<>>)>>
    BY <1>5 DEF InFlight
  <2>2. QED
    BY <1>5, <2>1, InFlightFacts
<1>10. toNode' \in {toNode, Append(toNode, g)}
  BY <1>1, <1>4, <1>9, SendOne
<1>11. Link(tcpState, c, rest, Append(toNode, g), srv', received)
  BY <1>1, <1>5, <1>8, <1>9, LinkRepeat
<1>12. Append(toNode, g) \in Seq(NodeFrames)
  BY <1>1, <1>9, PushFrame
<1>13. QED
  BY <1>1, <1>4, <1>5, <1>8, <1>10, <1>11, <1>12 DEF NetNext, c

LEMMA ResetStep ==
    ASSUME SystemInv, toPeer # <<>>, BrokerReset(Head(toPeer))
    PROVE  NetNext(Tail(toPeer))
<1> DEFINE f == Head(toPeer)
           rest == Tail(toPeer)
           c == Conn
<1>1. c \in Ends /\ toPeer \in Seq(PeerFrames) /\ toNode \in Seq(NodeFrames) /\ srv \in Brokers
  BY ConnType DEF SystemInv, NetTypeOK
<1>2. Link(tcpState, c, toPeer, toNode, srv, received)
  BY DEF SystemInv, NetInv
<1>3. f \in PeerFrames /\ f \in Frames(toPeer) /\ f.port \in Ports
  BY <1>1, PopFrame, PeerFrameType
<1>4. /\ "RST" \in f.flags /\ toNode' = toNode /\ received' = received
      /\ srv' = IF Known(f) THEN Listening(f.port) ELSE srv
  BY DEF BrokerReset
<1> HIDE DEF f, c
<1>5. Link(tcpState, c, rest, toNode, srv, received)
  BY <1>1, <1>2, DropUp DEF Link
<1>6. CASE Known(f)
  <2>1. srv' = Listening(srv.port) /\ srv.port = f.port /\ srv.port \in Ports
    BY <1>3, <1>4, <1>6 DEF Known
  <2>2. tcpState = "SYN_SENT" => SynInv(c, rest, toNode, srv')
    BY <1>5, <2>1, SynForget DEF Link
  <2>3. tcpState = "ESTABLISHED" => EstInv(c, rest, toNode, srv', received)
    BY <1>5, <2>1, Forget DEF Link
  <2>4. tcpState = "LAST_ACK" => LastInv(c, rest, toNode, srv')
    BY <1>5, <2>1, ListeningType DEF Link, LastInv
  <2>5. srv' \in Brokers /\ Forgotten(srv')
    BY <2>1, ListeningType
  <2>6. QED
    BY <1>1, <1>4, <1>5, <2>2, <2>3, <2>4, <2>5 DEF NetNext, Link, c
<1>7. CASE ~Known(f)
  BY <1>1, <1>4, <1>5, <1>7 DEF NetNext, c
<1>8. QED
  BY <1>6, <1>7

LEMMA StrayStep ==
    ASSUME SystemInv, toPeer # <<>>, BrokerStray(Head(toPeer))
    PROVE  NetNext(Tail(toPeer))
<1> DEFINE f == Head(toPeer)
           rest == Tail(toPeer)
           c == Conn
           g == [port |-> f.port, flags |-> {"RST"}, seq |-> f.ack, ack |-> 0,
                 data |-> <<>>, mss |-> TcpMss]
<1>1. c \in Ends /\ toPeer \in Seq(PeerFrames) /\ toNode \in Seq(NodeFrames) /\ srv \in Brokers
  BY ConnType DEF SystemInv, NetTypeOK
<1>2. Link(tcpState, c, toPeer, toNode, srv, received)
  BY DEF SystemInv, NetInv
<1>3. f \in PeerFrames /\ f.port \in Ports /\ f.ack \in SeqNo
  BY <1>1, PopFrame, PeerFrameType
<1>4. /\ f.flags \cap {"SYN", "RST"} = {} /\ Send(<<g>>)
      /\ srv' = srv /\ received' = received
  BY DEF BrokerStray
<1>5. "RST" \notin f.flags /\ f.flags # {"SYN"}
  BY <1>4
<1> HIDE DEF f, c
<1>6. /\ g \in NodeFrames /\ g.port = f.port /\ "ACK" \notin g.flags /\ ~Counted(g)
  <2>1. "SYN" # "RST" /\ "FIN" # "RST" /\ "ACK" # "RST"
    OBVIOUS
  <2>2. g \in NodeFrames
    BY <1>3, BumpFacts, EmptySeq DEF NodeFrames
  <2>3. g.port = f.port /\ g.flags = {"RST"} /\ g.data = <<>>
    OBVIOUS
  <2> HIDE DEF g
  <2>4. QED
    BY <2>1, <2>2, <2>3 DEF Counted
<1> HIDE DEF g
<1>7. Link(tcpState, c, rest, toNode, srv, received)
  BY <1>1, <1>2, DropUp DEF Link
<1>8. tcpState = "SYN_SENT" => g.port # c.port
  <2>1. f \notin Syns(c)
    BY <1>5 DEF Syns
  <2>2. QED
    BY <1>1, <1>2, <1>5, <1>6, <2>1, OnTheWay DEF f
<1>9. tcpState = "ESTABLISHED" => g.port = c.port /\ None(rest, Syns(c))
  <2>1. SUFFICES ASSUME tcpState = "ESTABLISHED" PROVE g.port = c.port /\ None(rest, Syns(c))
    OBVIOUS
  <2>2. f.port = c.port /\ f \in Acks(c)
    BY <1>1, <1>2, <1>5, <2>1, OnTheWay DEF f, Syns
  <2>3. Sorted(toPeer, Syns(c), Acks(c))
    BY <1>2, <2>1 DEF Link, EstInv, HelloInv
  <2>4. QED
    BY <1>1, <1>6, <2>2, <2>3, PopSorted DEF f
<1>10. Link(tcpState, c, rest, Append(toNode, g), srv, received)
  BY <1>1, <1>6, <1>7, <1>8, <1>9, LinkAnswer
<1>11. toNode' \in {toNode, Append(toNode, g)}
  BY <1>1, <1>4, <1>6, SendOne
<1>12. Append(toNode, g) \in Seq(NodeFrames)
  BY <1>1, <1>6, PushFrame
<1>13. QED
  BY <1>1, <1>4, <1>7, <1>10, <1>11, <1>12 DEF NetNext, c

LEMMA FinStep ==
    ASSUME SystemInv, toPeer # <<>>, BrokerFin(Head(toPeer))
    PROVE  NetNext(Tail(toPeer))
<1> DEFINE f == Head(toPeer)
           rest == Tail(toPeer)
           c == Conn
           t == [srv EXCEPT !.rcv = Bump(f.seq)]
           g == Seg(t, {"ACK"}, Bump(srv.snd), <<>>)
<1>1. c \in Ends /\ toPeer \in Seq(PeerFrames) /\ toNode \in Seq(NodeFrames) /\ srv \in Brokers
  BY ConnType DEF SystemInv, NetTypeOK
<1>2. Link(tcpState, c, toPeer, toNode, srv, received)
  BY DEF SystemInv, NetInv
<1>3. f \in PeerFrames /\ f.port \in Ports /\ f.seq \in SeqNo
  BY <1>1, PopFrame, PeerFrameType
<1>4. /\ f.flags = {"FIN", "ACK"} /\ srv.port = f.port /\ Send(<<g>>)
      /\ srv' = Listening(f.port) /\ received' = received
  BY DEF BrokerFin, Known
<1>5. "RST" \notin f.flags /\ f.flags # {"SYN"} /\ f.flags # {"ACK"}
  <2>1. "FIN" # "RST" /\ "ACK" # "RST" /\ "FIN" # "SYN" /\ "FIN" # "ACK"
    OBVIOUS
  <2>2. QED
    BY <1>4, <2>1
<1> HIDE DEF f, c
<1>6. g \in NodeFrames /\ g.port = f.port /\ ~Counted(g)
  <2>1. t \in Brokers /\ t.port = srv.port /\ Bump(srv.snd) \in SeqNo
    BY <1>1, <1>3, BumpFacts DEF Brokers
  <2> HIDE DEF t
  <2>2. g \in NodeFrames
    BY <2>1, EmptySeq, SegType
  <2>3. g.port = f.port /\ g.flags = {"ACK"} /\ g.data = <<>>
    BY <1>4, <2>1 DEF Seg
  <2>4. "FIN" # "ACK" /\ "SYN" # "ACK"
    OBVIOUS
  <2> HIDE DEF g
  <2>5. QED
    BY <2>2, <2>3, <2>4 DEF Counted
<1> HIDE DEF g
<1>7. Link(tcpState, c, rest, toNode, srv, received)
  BY <1>1, <1>2, DropUp DEF Link
<1>8. tcpState # "ESTABLISHED"
  <2>1. f \notin Syns(c) /\ f \notin Acks(c)
    BY <1>5 DEF Syns, Acks
  <2>2. QED
    BY <1>1, <1>2, <1>5, <2>1, OnTheWay DEF f
<1>9. tcpState = "SYN_SENT" => f.port # c.port
  BY <1>1, <1>2, <1>5, OnTheWay DEF f, Syns
<1>10. Link(tcpState, c, rest, toNode, srv', received)
  <2>1. srv' = Listening(srv.port) /\ srv.port \in Ports
    BY <1>3, <1>4
  <2>2. tcpState = "SYN_SENT" => SynInv(c, rest, toNode, srv')
    BY <1>7, <2>1, SynForget DEF Link
  <2>3. tcpState = "LAST_ACK" => LastInv(c, rest, toNode, srv')
    BY <1>7, <2>1, ListeningType DEF Link, LastInv
  <2>4. srv' \in Brokers /\ Forgotten(srv')
    BY <2>1, ListeningType
  <2>5. QED
    BY <1>7, <1>8, <2>2, <2>3, <2>4 DEF Link
<1>11. srv' \in Brokers
  BY <1>3, <1>4, ListeningType
<1>12. Link(tcpState, c, rest, Append(toNode, g), srv', received)
  BY <1>1, <1>6, <1>8, <1>9, <1>10, <1>11, LinkAnswer
<1>13. toNode' \in {toNode, Append(toNode, g)}
  BY <1>1, <1>4, <1>6, SendOne
<1>14. Append(toNode, g) \in Seq(NodeFrames)
  BY <1>1, <1>6, PushFrame
<1>15. QED
  BY <1>1, <1>4, <1>10, <1>11, <1>12, <1>13, <1>14 DEF NetNext, c

\* BrokerData taken apart: `s' is the connection after the acknowledgement, `t'
\* after the data.
New(s, f) == f.data # <<>> /\ f.seq = s.rcv
Refused(s, f) == New(s, f) /\ (s.state = "FIN_SENT" \/ ProtocolError(s.up, f.data))

AfterData(s, f, replies) ==
    IF ~New(s, f) THEN s
    ELSE [s EXCEPT !.rcv = Bump(s.rcv), !.up = @ \/ Greets(f.data), !.todo = @ \o replies]

Loaded(t) == [t EXCEPT !.out = t.todo, !.todo = <<>>]
AckOf(t) == Seg(t, {"ACK"}, IF InFlight(t) = <<>> THEN t.snd ELSE Bump(t.snd), <<>>)
ResetOf(t) == Seg(t, {"RST"}, t.snd, <<>>)

DataOutcome(f, s, t) ==
    /\ f.flags = {"ACK"} /\ Known(f)
    /\ received' = IF New(s, f) THEN [port |-> f.port, seq |-> f.seq, data |-> f.data]
                   ELSE received
    /\ \/ Refused(s, f) /\ srv' = Listening(f.port) /\ Send(<<ResetOf(t)>>)
       \/ ~Refused(s, f) /\ srv' = t /\ (Send(<<>>) \/ Send(<<AckOf(t)>>))
       \/ /\ ~Refused(s, f) /\ t.out = <<>> /\ t.todo # <<>>
          /\ srv' = Loaded(t) /\ Send(InFlight(Loaded(t)))

LEMMA DataCases ==
    ASSUME NEW f, BrokerData(f)
    PROVE  \E replies \in Replies(f.data) :
             DataOutcome(f, Acked(f), AfterData(Acked(f), f, replies))
<1> DEFINE s == Acked(f)
<1>1. PICK replies \in Replies(f.data) :
        LET t == AfterData(s, f, replies)
        IN  /\ f.flags = {"ACK"}
            /\ Known(f)
            /\ received' = IF New(s, f) THEN [port |-> f.port, seq |-> f.seq, data |-> f.data]
                           ELSE received
            /\ IF New(s, f) /\ (s.state = "FIN_SENT" \/ ProtocolError(s.up, f.data))
               THEN srv' = Listening(f.port) /\ Send(<<ResetOf(t)>>)
               ELSE \/ srv' = t /\ Send(IF f.data = <<>> THEN <<>> ELSE <<AckOf(t)>>)
                    \/ /\ Piggyback /\ f.data # <<>> /\ t.out = <<>> /\ t.todo # <<>>
                       /\ srv' = Loaded(t) /\ Send(InFlight(srv'))
  BY DEF BrokerData, AfterData, New, AckOf, ResetOf, Loaded
<1> HIDE DEF s
<1>2. DataOutcome(f, s, AfterData(s, f, replies))
  BY <1>1 DEF DataOutcome, Refused
<1>3. QED
  BY <1>2 DEF s

LEMMA ConfirmedType ==
    ASSUME NEW s \in Brokers, NEW n \in SeqNo, NEW t,
           t = [s EXCEPT !.snd = n, !.state = "ESTABLISHED", !.out = <<>>]
    PROVE  t \in Brokers /\ t.port = s.port /\ t.rcv = s.rcv /\ t.state = "ESTABLISHED"
<1>1. <<>> \in Seq(Answer)
  BY EmptySeq
<1>2. QED
  BY <1>1 DEF Brokers

LEMMA AckedType ==
    ASSUME srv \in Brokers, NEW f, Known(f)
    PROVE  /\ Acked(f) \in Brokers /\ Acked(f).port = f.port /\ Acked(f).rcv = srv.rcv
           /\ Live(Acked(f))
           /\ srv.state = "FIN_SENT" => Acked(f) = srv
<1>1. Bump(srv.snd) \in SeqNo
  BY BumpFacts DEF Brokers
<1>2. CASE Acked(f) = srv
  BY <1>2 DEF Known, Live
<1>3. CASE Acked(f) # srv
  <2>1. /\ Acked(f) = [srv EXCEPT !.snd = Bump(srv.snd), !.state = "ESTABLISHED", !.out = <<>>]
        /\ srv.state # "FIN_SENT"
    BY <1>3 DEF Acked
  <2>2. /\ Acked(f) \in Brokers /\ Acked(f).port = srv.port /\ Acked(f).rcv = srv.rcv
        /\ Acked(f).state = "ESTABLISHED"
    BY <1>1, <2>1, ConfirmedType
  <2>3. QED
    BY <2>1, <2>2 DEF Known, Live
<1>4. QED
  BY <1>2, <1>3

LEMMA AfterDataType ==
    ASSUME NEW s \in Brokers, NEW f \in PeerFrames, NEW replies \in Replies(f.data)
    PROVE  /\ AfterData(s, f, replies) \in Brokers
           /\ AfterData(s, f, replies).port = s.port
           /\ AfterData(s, f, replies).state = s.state
           /\ AfterData(s, f, replies).snd = s.snd
<1>1. CASE ~New(s, f)
  BY <1>1 DEF AfterData
<1>2. CASE New(s, f)
  <2>1. replies \in Seq(Answer)
    BY ReplyFacts, PeerFrameType
  <2>2. s.todo \in Seq(Answer) /\ s.up \in BOOLEAN /\ Bump(s.rcv) \in SeqNo
    BY BumpFacts DEF Brokers
  <2>3. s.todo \o replies \in Seq(Answer)
    BY <2>1, <2>2, ConcatProperties
  <2>4. (s.up \/ Greets(f.data)) \in BOOLEAN
    OBVIOUS
  <2>5. AfterData(s, f, replies) = [s EXCEPT !.rcv = Bump(s.rcv), !.up = @ \/ Greets(f.data),
                                             !.todo = @ \o replies]
    BY <1>2 DEF AfterData
  <2>6. AfterData(s, f, replies) = [s EXCEPT !.rcv = Bump(s.rcv), !.up = s.up \/ Greets(f.data),
                                             !.todo = s.todo \o replies]
    BY <2>5 DEF Brokers
  <2> HIDE DEF AfterData
  <2>7. QED
    BY <2>2, <2>3, <2>4, <2>6 DEF Brokers
<1>3. QED
  BY <1>1, <1>2

LEMMA LoadedType ==
    ASSUME NEW t \in Brokers
    PROVE  /\ Loaded(t) \in Brokers /\ Loaded(t).port = t.port /\ Loaded(t).state = t.state
           /\ Loaded(t).snd = t.snd
BY EmptySeq DEF Loaded, Brokers

LEMMA AnswerType ==
    ASSUME NEW t \in Brokers
    PROVE  /\ AckOf(t) \in NodeFrames /\ AckOf(t).port = t.port /\ ~Counted(AckOf(t))
           /\ AckOf(t).ack = t.rcv
           /\ ResetOf(t) \in NodeFrames /\ ResetOf(t).port = t.port /\ ~Counted(ResetOf(t))
           /\ "ACK" \notin ResetOf(t).flags
<1>1. t.snd \in SeqNo /\ Bump(t.snd) \in SeqNo
  BY BumpFacts DEF Brokers
<1>2. AckOf(t) \in NodeFrames /\ ResetOf(t) \in NodeFrames
  BY <1>1, EmptySeq, SegType DEF AckOf, ResetOf
<1>3. /\ AckOf(t).port = t.port /\ AckOf(t).ack = t.rcv /\ AckOf(t).flags = {"ACK"}
      /\ AckOf(t).data = <<>>
      /\ ResetOf(t).port = t.port /\ ResetOf(t).flags = {"RST"} /\ ResetOf(t).data = <<>>
  BY DEF AckOf, ResetOf, Seg
<1>4. "FIN" # "ACK" /\ "SYN" # "ACK" /\ "RST" # "ACK"
  OBVIOUS
<1>5. QED
  BY <1>2, <1>3, <1>4 DEF Counted

(* The connection that is open: the frame is the node's own.                 *)
LEMMA DataLink ==
    ASSUME NEW c \in Ends, NEW up \in Seq(PeerFrames), up # <<>>,
           srv \in Brokers, EstInv(c, up, toNode, srv, received),
           NEW f, f = Head(up), f \in Acks(c), NEW replies \in Replies(f.data),
           DataOutcome(f, Acked(f), AfterData(Acked(f), f, replies))
    PROVE  EstInv(c, Tail(up), toNode, srv', received')
<1> DEFINE s == Acked(f)
           t == AfterData(s, f, replies)
           rest == Tail(up)
<1>1. f \in PeerFrames /\ f.port = c.port
  BY DEF Acks
<1>2. Live(srv)
  BY DEF DataOutcome, Known, Live
<1>3. s \in Brokers /\ s.rcv = srv.rcv /\ s.port = c.port /\ t \in Brokers
  BY <1>1, AckedType, AfterDataType DEF DataOutcome
<1>4. EstInv(c, rest, toNode, s, received) /\ s.state \in {"ESTABLISHED", "FIN_SENT"}
  <2>1. s = AfterAck(srv, Head(up))
    BY DEF Acked, AfterAck
  <2>2. Head(up) \in Acks(c)
    OBVIOUS
  <2>3. s \in Brokers
    BY <1>3
  <2> HIDE DEF s
  <2>4. QED
    BY <1>2, <2>1, <2>2, <2>3, TakeAck
<1>5. New(s, f) => /\ s.rcv = c.snd /\ f.seq = c.snd /\ f.data = c.data /\ c.data # <<>>
                   /\ None(rest, OldData(c)) /\ None(toNode, Confirming(c))
  BY <1>2, <1>3, DataIsNew DEF New
<1>6. received' = IF New(s, f) THEN [port |-> c.port, seq |-> c.snd, data |-> c.data]
                  ELSE received
  BY <1>1, <1>5 DEF DataOutcome
<1>7. ~Refused(s, f) => EstInv(c, rest, toNode, t, received')
  <2>1. CASE ~New(s, f)
    BY <1>4, <1>6, <2>1 DEF AfterData
  <2>2. CASE New(s, f) /\ ~Refused(s, f)
    <3>1. s.state = "ESTABLISHED" /\ (s.up => ~Greets(f.data))
      BY <1>4, <2>2 DEF Refused, ProtocolError
    <3>2. replies \in Seq(Answer) /\ (Has(replies) => Greets(f.data))
      BY <1>1, PeerFrameType, ReplyFacts
    <3>3. Greets(f.data) \in BOOLEAN
      BY DEF Greets
    <3>4. t = [s EXCEPT !.rcv = Bump(s.rcv), !.up = @ \/ Greets(f.data), !.todo = @ \o replies]
      BY <2>2 DEF AfterData
    <3> HIDE DEF t, s
    <3>5. EstInv(c, rest, toNode, t, [port |-> c.port, seq |-> c.snd, data |-> c.data])
      BY <1>3, <1>4, <1>5, <2>2, <3>1, <3>2, <3>3, <3>4, TakeData
    <3>6. QED
      BY <1>6, <2>2, <3>5
  <2>3. QED
    BY <2>1, <2>2
<1> HIDE DEF t, s
<1>8. CASE Refused(s, f)
  <2>1. srv' = Listening(s.port)
    BY <1>1, <1>3, <1>8 DEF DataOutcome, s, t
  <2>2. None(toNode, Confirming(c))
    BY <1>5, <1>8 DEF Refused
  <2>3. QED
    BY <1>4, <2>1, <2>2, GiveUp
<1>9. CASE ~Refused(s, f) /\ srv' = t
  BY <1>7, <1>9
<1>10. CASE ~Refused(s, f) /\ t.out = <<>> /\ t.todo # <<>> /\ srv' = Loaded(t)
  <2>1. t.state = "ESTABLISHED"
    BY <1>7, <1>10 DEF EstInv, TalkInv
  <2>2. Loaded(t) \in Brokers /\ Loaded(t) = [t EXCEPT !.out = t.todo, !.todo = <<>>]
    BY <1>3, LoadedType DEF Loaded
  <2>3. QED
    BY <1>3, <1>7, <1>10, <2>1, <2>2, Load
<1>11. QED
  BY <1>8, <1>9, <1>10 DEF DataOutcome, s, t

LEMMA InFlightShape ==
    ASSUME NEW s \in Brokers
    PROVE  InFlight(s) = <<>> \/ \E g \in NodeFrames : InFlight(s) = <<g>>
<1>1. InFlight(s) = <<>> \/ \E g : InFlight(s) = <<g>>
  BY DEF InFlight
<1>2. QED
  BY <1>1, InFlightFacts

LEMMA DataStep ==
    ASSUME SystemInv, toPeer # <<>>, BrokerData(Head(toPeer))
    PROVE  NetNext(Tail(toPeer))
<1> DEFINE f == Head(toPeer)
           rest == Tail(toPeer)
           c == Conn
           s == Acked(f)
<1>1. c \in Ends /\ toPeer \in Seq(PeerFrames) /\ toNode \in Seq(NodeFrames) /\ srv \in Brokers
  BY ConnType DEF SystemInv, NetTypeOK
<1>2. Link(tcpState, c, toPeer, toNode, srv, received)
  BY DEF SystemInv, NetInv
<1>3. f \in PeerFrames /\ f.port \in Ports
  BY <1>1, PopFrame, PeerFrameType
<1>4. PICK replies \in Replies(f.data) : DataOutcome(f, s, AfterData(s, f, replies))
  BY DataCases
<1> DEFINE t == AfterData(s, f, replies)
<1>5. f.flags = {"ACK"} /\ Known(f) /\ srv.port = f.port
  BY <1>4 DEF DataOutcome, Known
<1>6. /\ s \in Brokers /\ Live(s) /\ t \in Brokers /\ t.port = f.port /\ Live(t)
      /\ srv.state = "FIN_SENT" => t.state = "FIN_SENT" /\ t.snd = srv.snd
  BY <1>1, <1>3, <1>5, AckedType, AfterDataType DEF Live
<1>7. \/ srv' = Listening(f.port) /\ Send(<<ResetOf(t)>>)
      \/ srv' = t /\ (Send(<<>>) \/ Send(<<AckOf(t)>>))
      \/ srv' = Loaded(t) /\ Send(InFlight(srv'))
  BY <1>4 DEF DataOutcome
<1>8. "RST" \notin f.flags /\ f \notin Syns(c)
  <2>1. "RST" # "ACK" /\ {"SYN"} # {"ACK"}
    OBVIOUS
  <2>2. QED
    BY <1>5, <2>1 DEF Syns
<1> HIDE DEF f, c, s, t
<1>9. tcpState = "SYN_SENT" => f.port # c.port /\ ~None(toPeer, Foreign(c))
  BY <1>1, <1>2, <1>8, OnTheWay DEF f
<1>10. tcpState = "ESTABLISHED" => f.port = c.port /\ f \in Acks(c) /\ None(rest, Syns(c))
  <2>1. SUFFICES ASSUME tcpState = "ESTABLISHED"
                 PROVE  f.port = c.port /\ f \in Acks(c) /\ None(rest, Syns(c))
    OBVIOUS
  <2>2. f.port = c.port /\ f \in Acks(c)
    BY <1>1, <1>2, <1>8, <2>1, OnTheWay DEF f
  <2>3. Sorted(toPeer, Syns(c), Acks(c))
    BY <1>2, <2>1 DEF Link, EstInv, HelloInv
  <2>4. QED
    BY <1>1, <2>2, <2>3, PopSorted DEF f
<1>11. /\ srv' \in Brokers /\ srv'.port = f.port
       /\ Forgotten(srv')
       /\ srv' = Listening(f.port)
            \/ (Live(srv') /\ srv'.state = t.state /\ srv'.snd = t.snd)
  BY <1>3, <1>6, <1>7, LoadedType, ListeningType DEF Live, Forgotten
<1>12. Link(tcpState, c, rest, toNode, srv', received')
  <2>1. ASSUME tcpState = "SYN_SENT" PROVE c.snd = 0 /\ SynInv(c, rest, toNode, srv')
    <3>1. SynInv(c, toPeer, toNode, srv')
      BY <1>2, <1>9, <1>11, <2>1, SynElsewhere DEF Link
    <3>2. QED
      BY <1>1, <1>2, <2>1, <3>1, DropUp DEF Link
  <2>2. ASSUME tcpState = "ESTABLISHED" PROVE EstInv(c, rest, toNode, srv', received')
    BY <1>1, <1>2, <1>4, <1>10, <2>2, DataLink DEF Link, f, s
  <2>3. ASSUME tcpState = "LAST_ACK" PROVE LastInv(c, rest, toNode, srv')
    <3>1. LastInv(c, rest, toNode, srv)
      BY <1>1, <1>2, <2>3, DropUp DEF Link
    <3>2. CASE f.port # c.port
      BY <1>11, <3>1, <3>2 DEF LastInv
    <3>3. CASE f.port = c.port
      <4>1. srv.state = "FIN_SENT" /\ Bump(srv.snd) = c.rcv
        BY <1>5, <3>1, <3>3 DEF LastInv, Known, Live
      <4>2. Live(srv') => srv'.state = "FIN_SENT" /\ srv'.snd = srv.snd
        BY <1>3, <1>6, <1>11, <4>1, ListeningType
      <4>3. QED
        BY <3>1, <4>1, <4>2 DEF LastInv
    <3>4. QED
      BY <3>2, <3>3
  <2>4. QED
    BY <1>11, <2>1, <2>2, <2>3 DEF Link
<1>13. ASSUME NEW g \in NodeFrames, Link(tcpState, c, rest, Append(toNode, g), srv', received'),
              Send(<<g>>)
       PROVE  NetNext(rest)
  <2>1. toNode' \in {toNode, Append(toNode, g)}
    BY <1>1, <1>13, SendOne
  <2>2. Append(toNode, g) \in Seq(NodeFrames)
    BY <1>1, PushFrame
  <2>3. QED
    BY <1>1, <1>11, <1>12, <1>13, <2>1, <2>2 DEF NetNext, c
<1>14. CASE srv' = Listening(f.port) /\ Send(<<ResetOf(t)>>)
  <2>1. /\ ResetOf(t) \in NodeFrames /\ ResetOf(t).port = f.port /\ ~Counted(ResetOf(t))
        /\ "ACK" \notin ResetOf(t).flags
    BY <1>6, AnswerType
  <2>2. Link(tcpState, c, rest, Append(toNode, ResetOf(t)), srv', received')
    BY <1>1, <1>9, <1>10, <1>11, <1>12, <2>1, LinkAnswer
  <2>3. QED
    BY <1>13, <1>14, <2>1, <2>2
<1>15. CASE srv' = t /\ Send(<<AckOf(t)>>)
  <2>1. /\ AckOf(t) \in NodeFrames /\ AckOf(t).port = f.port /\ ~Counted(AckOf(t))
        /\ AckOf(t).ack = t.rcv
    BY <1>6, AnswerType
  <2>2. Link(tcpState, c, rest, Append(toNode, AckOf(t)), srv', received')
    BY <1>1, <1>6, <1>9, <1>10, <1>11, <1>12, <1>15, <2>1, LinkAnswer
  <2>3. QED
    BY <1>13, <1>15, <2>1, <2>2
<1>16. CASE Send(<<>>)
  BY <1>1, <1>11, <1>12, <1>16, SendNone DEF NetNext, c
<1>17. CASE Send(InFlight(srv'))
  <2>1. CASE InFlight(srv') = <<>>
    BY <1>16, <1>17, <2>1
  <2>2. ASSUME NEW g \in NodeFrames, InFlight(srv') = <<g>>
        PROVE  NetNext(rest)
    <3>1. Link(tcpState, c, rest, Append(toNode, g), srv', received')
      BY <1>1, <1>11, <1>12, <2>2, LinkRepeat
    <3>2. QED
      BY <1>13, <1>17, <2>2, <3>1
  <2>3. QED
    BY <1>11, <2>1, <2>2, InFlightShape
<1>18. QED
  BY <1>7, <1>14, <1>15, <1>16, <1>17

LEMMA TakeStep ==
    ASSUME SystemInv, BrokerTake
    PROVE  NetTypeOK' /\ NetInv'
<1>1. toPeer # <<>> /\ toPeer' = Tail(toPeer)
  BY DEF BrokerTake
<1>2. NetNext(Tail(toPeer))
  BY SynStep, ResetStep, StrayStep, DataStep, FinStep DEF BrokerTake
<1>3. tcpState' = tcpState /\ Conn' = Conn
  BY DEF BrokerTake, Conn, clientVars, Outstanding
<1>4. Tail(toPeer) \in Seq(PeerFrames)
  BY <1>1, PopFrame DEF SystemInv, NetTypeOK
<1>5. QED
  BY <1>1, <1>2, <1>3, <1>4 DEF NetNext, NetTypeOK, NetInv

(* The broker sends what it has in flight.                                   *)
LEMMA FlightStep ==
    ASSUME SystemInv, srv' \in Brokers, NEW up,
           Link(tcpState, Conn, up, toNode, srv', received'), Send(InFlight(srv'))
    PROVE  NetNext(up)
<1>1. Conn \in Ends /\ toNode \in Seq(NodeFrames)
  BY ConnType DEF SystemInv, NetTypeOK
<1>2. CASE InFlight(srv') = <<>>
  BY <1>1, <1>2, SendNone DEF NetNext
<1>3. ASSUME NEW g \in NodeFrames, InFlight(srv') = <<g>>
      PROVE  NetNext(up)
  <2>1. toNode' \in {toNode, Append(toNode, g)}
    BY <1>1, <1>3, SendOne
  <2>2. Append(toNode, g) \in Seq(NodeFrames)
    BY <1>1, PushFrame
  <2>3. Link(tcpState, Conn, up, Append(toNode, g), srv', received')
    BY <1>1, <1>3, LinkRepeat
  <2>4. QED
    BY <1>1, <2>1, <2>2, <2>3 DEF NetNext
<1>4. QED
  BY <1>2, <1>3, InFlightShape

(* What an established connection of the broker's turns into is no concern   *)
(* of a node that is opening or closing one.                                 *)
LEMMA LinkElsewhere ==
    ASSUME NEW state, NEW c, NEW up, NEW dn, NEW s, NEW got, Link(state, c, up, dn, s, got),
           s.state = "ESTABLISHED", NEW t, t.port = s.port, Live(t),
           state = "ESTABLISHED" => EstInv(c, up, dn, t, got)
    PROVE  Link(state, c, up, dn, t, got)
<1>1. Live(s) /\ Greeted(c.port).state = "SYN_RCVD"
  BY DEF Live, Greeted, Listening
<1>2. ASSUME SynInv(c, up, dn, s)
      PROVE  SynInv(c, up, dn, t)
  <2>1. s.port # c.port
    BY <1>1, <1>2 DEF SynInv
  <2>2. QED
    BY <1>2, <2>1, SynElsewhere
<1>3. LastInv(c, up, dn, s) => LastInv(c, up, dn, t)
  BY <1>1 DEF LastInv
<1>4. QED
  BY <1>2, <1>3 DEF Link, Forgotten

LEMMA SendStep ==
    ASSUME SystemInv, srv.state = "ESTABLISHED", srv.out = <<>>, srv.todo # <<>>,
           srv' = Loaded(srv), Send(InFlight(srv')), UNCHANGED received
    PROVE  NetNext(toPeer)
<1>1. srv \in Brokers /\ Conn \in Ends /\ Link(tcpState, Conn, toPeer, toNode, srv, received)
  BY ConnType DEF SystemInv, NetTypeOK, NetInv
<1>2. srv' \in Brokers /\ srv'.port = srv.port /\ srv'.state = srv.state
  BY <1>1, LoadedType
<1>3. tcpState = "ESTABLISHED" => EstInv(Conn, toPeer, toNode, srv', received)
  <2>1. srv' = [srv EXCEPT !.out = srv.todo, !.todo = <<>>]
    BY DEF Loaded
  <2>2. QED
    BY <1>1, <1>2, <2>1, Load DEF Link
<1>4. Link(tcpState, Conn, toPeer, toNode, srv', received)
  BY <1>1, <1>2, <1>3, LinkElsewhere DEF Live
<1>5. QED
  BY <1>2, <1>4, FlightStep

LEMMA ShutdownStep ==
    ASSUME SystemInv, Shutdown, UNCHANGED received
    PROVE  NetNext(toPeer)
<1>1. srv \in Brokers /\ Conn \in Ends /\ Link(tcpState, Conn, toPeer, toNode, srv, received)
  BY ConnType DEF SystemInv, NetTypeOK, NetInv
<1>2. /\ srv.state = "ESTABLISHED" /\ srv.out = <<>> /\ Send(InFlight(srv'))
      /\ srv' = [srv EXCEPT !.state = "FIN_SENT", !.todo = <<>>, !.up = FALSE]
  BY DEF Shutdown
<1>3. srv' \in Brokers /\ srv'.port = srv.port /\ srv'.state = "FIN_SENT"
  BY <1>1, <1>2, EmptySeq DEF Brokers
<1>4. tcpState = "ESTABLISHED" => EstInv(Conn, toPeer, toNode, srv', received)
  BY <1>1, <1>2, <1>3, CloseDown DEF Link
<1>5. Link(tcpState, Conn, toPeer, toNode, srv', received)
  BY <1>1, <1>2, <1>3, <1>4, LinkElsewhere DEF Live
<1>6. QED
  BY <1>2, <1>3, <1>5, FlightStep

LEMMA RepeatStep ==
    ASSUME SystemInv, Send(InFlight(srv)), UNCHANGED <<srv, received>>
    PROVE  NetNext(toPeer)
<1>1. srv' \in Brokers /\ Link(tcpState, Conn, toPeer, toNode, srv', received')
  BY DEF SystemInv, NetTypeOK, NetInv
<1>2. Send(InFlight(srv'))
  <2>1. srv' = srv
    OBVIOUS
  <2>2. InFlight(srv') = InFlight(srv)
    BY <2>1
  <2>3. QED
    BY <2>2
<1>3. QED
  BY <1>1, <1>2, FlightStep

LEMMA CrashStep ==
    ASSUME SystemInv, BrokerCrash, UNCHANGED received
    PROVE  NetNext(toPeer)
<1>1. srv.port \in Ports /\ Link(tcpState, Conn, toPeer, toNode, srv, received)
  BY DEF SystemInv, NetTypeOK, NetInv, Brokers
<1>2. srv' = Listening(srv.port) /\ toNode' = toNode
  BY DEF BrokerCrash
<1>3. Link(tcpState, Conn, toPeer, toNode, srv', received')
  BY <1>1, <1>2, SynForget, Forget, ListeningType DEF Link, LastInv
<1>4. QED
  BY <1>1, <1>2, <1>3, ListeningType DEF SystemInv, NetTypeOK, NetNext

(* The broker and the network do not touch the node.                         *)
LEMMA OutsideStep ==
    ASSUME SystemInv, BrokerSend \/ BrokerRepeat \/ BrokerExpire \/ Fault
    PROVE  NetTypeOK' /\ NetInv'
<1>1. ASSUME NetNext(toPeer), UNCHANGED nodeVars
      PROVE  NetTypeOK' /\ NetInv'
  <2>1. tcpState' = tcpState /\ Conn' = Conn /\ toPeer' = toPeer
    BY <1>1 DEF nodeVars, tcpVars, clientVars, Conn, Outstanding
  <2>2. QED
    BY <1>1, <2>1 DEF NetNext, NetTypeOK, NetInv, SystemInv
<1>2. CASE BrokerSend
  <2>1. NetNext(toPeer)
    BY <1>2, SendStep DEF BrokerSend, Loaded
  <2>2. QED
    BY <1>1, <1>2, <2>1 DEF BrokerSend
<1>3. CASE BrokerRepeat
  BY <1>1, <1>3, RepeatStep DEF BrokerRepeat
<1>4. CASE BrokerExpire
  BY <1>1, <1>4, ShutdownStep DEF BrokerExpire
<1>5. CASE Fault
  <2>1. CASE Shutdown /\ UNCHANGED nodeVars
    BY <1>1, <1>5, <2>1, ShutdownStep DEF Fault
  <2>2. CASE BrokerCrash
    BY <1>1, <1>5, <2>2, CrashStep DEF Fault, BrokerCrash
  <2>3. CASE Lose
    <3>0. /\ toPeer \in Seq(PeerFrames) /\ toNode \in Seq(NodeFrames) /\ srv \in Brokers
          /\ Link(tcpState, Conn, toPeer, toNode, srv, received) /\ received' = received
      BY <1>5 DEF Fault, SystemInv, NetTypeOK, NetInv
    <3>1. CASE toNode # <<>> /\ toNode' = Tail(toNode) /\ UNCHANGED <<nodeVars, srv>>
      <4>1. Tail(toNode) \in Seq(NodeFrames)
        BY <3>0, <3>1, PopFrame
      <4>2. Link(tcpState, Conn, toPeer, Tail(toNode), srv, received)
        BY <3>0, <3>1, DropDn DEF Link
      <4>3. QED
        BY <1>1, <3>0, <3>1, <4>1, <4>2 DEF NetNext
    <3>2. CASE /\ toPeer # <<>> /\ toPeer' = Tail(toPeer)
               /\ UNCHANGED <<tcpState, lport, sndNxt, rcvNxt, len, mss, nrtx, rtxTimer, rto,
                              clientVars, pc, due, inflight, toNode, srv>>
      <4>1. Tail(toPeer) \in Seq(PeerFrames)
        BY <3>0, <3>2, PopFrame
      <4>2. Link(tcpState, Conn, Tail(toPeer), toNode, srv, received)
        BY <3>0, <3>2, DropUp DEF Link
      <4>3. Conn' = Conn
        BY <3>2 DEF Conn, Outstanding, clientVars
      <4>4. QED
        BY <3>0, <3>2, <4>1, <4>2, <4>3 DEF NetTypeOK, NetInv
    <3>3. QED
      BY <2>3, <3>1, <3>2 DEF Lose
  <2>4. QED
    BY <1>5, <2>1, <2>2, <2>3 DEF Fault
<1>6. QED
  BY <1>2, <1>3, <1>4, <1>5

-----------------------------------------------------------------------------
(* What reaches the node                                                     *)

LEMMA NodeFrameType ==
    ASSUME NEW f \in NodeFrames
    PROVE  /\ f.port \in Ports /\ f.seq \in SeqNo /\ f.ack \in SeqNo /\ f.data \in Seq(Answer)
           /\ f.flags \in {{"SYN", "ACK"}, {"ACK"}, {"FIN", "ACK"}, {"RST"}}
           /\ f.mss = TcpMss
           /\ f.data # <<>> => f.flags = {"ACK"}
           /\ Header(f)
<1>1. TcpMss \in Windows
  BY SystemAssumption
<1>2. QED
  BY <1>1 DEF NodeFrames, Header, SeqNo

(* The broker is the peer that the node needs.                               *)
LEMMA HeadHarmless ==
    ASSUME SystemInv, toNode # <<>>
    PROVE  Harmless(Head(toNode))
<1> DEFINE f == Head(toNode)
           c == Conn
<1>1. toNode \in Seq(NodeFrames) /\ Link(tcpState, c, toPeer, toNode, srv, received)
  BY DEF SystemInv, NetTypeOK, NetInv
<1>2. f \in NodeFrames /\ f \in Frames(toNode)
  BY <1>1, PopFrame
<1>3. c.port = lport /\ c.rcv = rcvNxt /\ c.phase = mqttState
  BY DEF Conn
<1>4. tcpState \in {"CLOSED", "SYN_SENT", "ESTABLISHED", "LAST_ACK"}
  BY ConnType DEF SystemInv
<1> HIDE DEF f, c
<1>5. SUFFICES ASSUME Found(f), ~OutOfOrder(f) PROVE Conforming(f)
  BY DEF Harmless, f
<1>6. f.data # <<>> => f.flags = {"ACK"}
  BY <1>2, NodeFrameType
<1>7. f \in Mine(c)
  BY <1>2, <1>3, <1>5 DEF Found, Mine
<1>8. f.data # <<>> => tcpState # "SYN_SENT"
  <2>1. SUFFICES ASSUME f.data # <<>>, tcpState = "SYN_SENT" PROVE FALSE
    OBVIOUS
  <2>2. f.flags = {"SYN", "ACK"}
    BY <1>1, <1>2, <1>7, <2>1 DEF Link, SynInv, SynAcks
  <2>3. "SYN" # "ACK"
    OBVIOUS
  <2>4. QED
    BY <1>6, <2>1, <2>2, <2>3
<1>9. f.data # <<>> => f \in NewSeq(c)
  BY <1>3, <1>5, <1>7, <1>8 DEF OutOfOrder, NewSeq, Counted
<1>10. f.data # <<>> => tcpState # "LAST_ACK"
  BY <1>1, <1>2, <1>9 DEF Link, LastInv, None
<1>11. Has(f.data) => mqttState = "CONNECTING"
  <2>1. SUFFICES ASSUME Has(f.data) PROVE mqttState = "CONNECTING"
    OBVIOUS
  <2>2. f.data # <<>>
    BY <2>1 DEF Has
  <2>3. tcpState = "ESTABLISHED"
    BY <1>4, <1>5, <1>8, <1>10, <2>2 DEF Found
  <2>4. ~None(toNode, Verdicts(c))
    BY <1>2, <1>9, <2>1, <2>2 DEF None, Verdicts
  <2>5. QED
    BY <1>1, <1>3, <2>3, <2>4 DEF Link, EstInv, TalkInv
<1>12. \A i \in DOMAIN f.data : f.data[i] # "PINGRESP" => f.data[i] = "CONNACK_OK"
  <2>1. f.data \in Seq(Answer)
    BY <1>2, NodeFrameType
  <2>2. \A i \in DOMAIN f.data : f.data[i] \in Answer
    BY <2>1, ElementOfSeq, LenProperties
  <2>3. QED
    BY <2>2 DEF Answer
<1>13. QED
  BY <1>6, <1>11, <1>12 DEF Conforming, Has

-----------------------------------------------------------------------------
(* The node's actions                                                        *)

LEMMA FrameType ==
    ASSUME NodeInv, NodeInv', NEW data \in Seq(Unit),
           NEW flags \in {{"SYN"}, {"ACK"}, {"FIN", "ACK"}, {"RST", "ACK"}},
           data # <<>> => flags = {"ACK"}
    PROVE  /\ Frame(flags, data) \in PeerFrames
           /\ Frame(flags, data).port = lport /\ Frame(flags, data).flags = flags
           /\ Frame(flags, data).seq = sndNxt' /\ Frame(flags, data).ack = rcvNxt'
           /\ Frame(flags, data).data = data
<1>1. lport \in Ports /\ sndNxt' \in SeqNo /\ rcvNxt' \in SeqNo
  BY DEF NodeInv, NodeTypeOK, TcpTypeOK, SeqNo
<1>2. QED
  BY <1>1 DEF Frame, PeerFrames

LEMMA TransmitStep ==
    ASSUME toPeer \in Seq(PeerFrames), NEW f \in PeerFrames, Transmit(f)
    PROVE  toPeer' \in {toPeer, Append(toPeer, f)} /\ toPeer' \in Seq(PeerFrames)
<1>1. Append(toPeer, f) \in Seq(PeerFrames)
  BY PushFrame
<1>2. QED
  BY <1>1 DEF Transmit

LEMMA ResetType ==
    ASSUME NEW seg \in NodeFrames
    PROVE  LET f == [port |-> seg.port, flags |-> {"RST", "ACK"}, seq |-> seg.ack,
                     ack |-> Bump(seg.seq), data |-> <<>>]
           IN  f \in PeerFrames
<1>1. seg.port \in Ports /\ seg.ack \in SeqNo /\ Bump(seg.seq) \in SeqNo
  BY NodeFrameType, BumpFacts
<1>2. QED
  BY <1>1, EmptySeq DEF PeerFrames

\* The node's end is left alone.
Still == UNCHANGED <<tcpState, lport, sndNxt, rcvNxt, len, mqttState>>

LEMMA StillConn ==
    ASSUME Still, Observe \/ UNCHANGED inflight
    PROVE  Conn' = Conn
<1>1. tcpState = "ESTABLISHED" /\ Outstanding => inflight' = inflight
  BY DEF Still, Observe, Outstanding
<1>2. QED
  BY <1>1 DEF Still, Conn, Outstanding

(* The node's frame joins the queue.                                         *)
LEMMA LinkUp ==
    ASSUME NEW state, NEW c \in Ends, NEW up \in Seq(PeerFrames), NEW dn, NEW s, NEW got,
           Link(state, c, up, dn, s, got), NEW f \in PeerFrames,
           state = "SYN_SENT" => f \in Syns(c) /\ f.seq = 0,
           state = "ESTABLISHED" => FromNode(c, f),
           state = "LAST_ACK" => f.flags # {"SYN"}
    PROVE  Link(state, c, Append(up, f), dn, s, got)
BY SynRepeat, SendUp, LastUp DEF Link

(* A segment that acknowledges, brings data or does both.                    *)
LEMMA Deliver ==
    ASSUME NEW c \in Ends, NEW up, NEW dn \in Seq(NodeFrames), dn # <<>>, NEW s \in Brokers,
           NEW got, EstInv(c, up, dn, s, got), NEW f, f = Head(dn), f \in Mine(c),
           NEW acks \in BOOLEAN, acks => f \in Confirming(c),
           f.data # <<>> => f \in NewSeq(c),
           NEW c2 \in Ends, c2.port = c.port,
           c2.snd = IF acks THEN Bump(c.snd) ELSE c.snd,
           c2.data = IF acks THEN <<>> ELSE c.data,
           c2.rcv = IF f.data # <<>> THEN Bump(c.rcv) ELSE c.rcv,
           c2.phase # c.phase => Has(f.data)
    PROVE  EstInv(c2, up, Tail(dn), s, got)
<1> DEFINE rest == Tail(dn)
           c1 == [port |-> c.port, snd |-> c2.snd, rcv |-> c.rcv, data |-> c2.data,
                  phase |-> c.phase]
<1>1. EstInv(c, up, rest, s, got)
  BY DropDn
<1>2. c1 \in Ends
  BY DEF Ends
<1>3. EstInv(c1, up, rest, s, got)
  <2>1. CASE acks
    <3>1. /\ c1.port = c.port /\ c1.snd = Bump(c.snd) /\ c1.rcv = c.rcv /\ c1.data = <<>>
          /\ c1.phase = c.phase
      BY <2>1
    <3>2. /\ None(rest, Stale(c)) /\ None(up, OldData(c)) /\ None(up, Syns(c))
          /\ s.state # "SYN_RCVD" /\ (Live(s) => s.rcv = Bump(c.snd))
      BY <2>1, Confirms
    <3> HIDE DEF c1, rest
    <3>3. QED
      BY <1>1, <3>1, <3>2, Advance
  <2>2. CASE ~acks
    <3>1. c1 = c
      BY <2>2 DEF Ends
    <3>2. QED
      BY <1>1, <3>1
  <2>3. QED
    BY <2>1, <2>2
<1>4. CASE f.data = <<>>
  <2>1. ~Has(f.data)
    BY <1>4 DEF Has
  <2>2. c1 = c2
    BY <1>4, <2>1 DEF Ends
  <2>3. QED
    BY <1>3, <2>2
<1>5. CASE f.data # <<>>
  <2>1. /\ None(rest, OldSeq(c)) /\ None(up, OldAcks(c)) /\ None(up, Syns(c))
        /\ s.state # "SYN_RCVD"
        /\ Live(s) => InFlight(s) # <<>> /\ s.snd = c.rcv
        /\ Has(f.data) => (s.state = "ESTABLISHED" => s.up) /\ ~Has(s.todo)
    BY <1>5, IsNext
  <2>2. /\ c1.port = c.port /\ c1.snd = c2.snd /\ c1.rcv = c.rcv /\ c1.data = c2.data
        /\ c1.phase = c.phase
    OBVIOUS
  <2> HIDE DEF c1, rest
  <2>3. /\ OldSeq(c1) = OldSeq(c) /\ OldAcks(c1) = OldAcks(c) /\ Syns(c1) = Syns(c)
    BY <2>2 DEF OldSeq, OldAcks, Syns, Mine, Acks
  <2>4. c2.port = c1.port /\ c2.rcv = Bump(c1.rcv)
    BY <1>5, <2>2
  <2>5. c2.phase # c1.phase => (s.state = "ESTABLISHED" => s.up) /\ ~Has(s.todo)
    BY <2>1, <2>2
  <2>6. QED
    BY <1>2, <1>3, <2>1, <2>2, <2>3, <2>4, <2>5, TakeNext DEF rest
<1>6. QED
  BY <1>4, <1>5

\* What the node leaves behind when the frames of `dn' are on their way to it.
NodeNow(dn) ==
    toPeer' \in Seq(PeerFrames) /\ Link(tcpState', Conn', toPeer', dn, srv, received)

(* A frame sent by a node that does nothing else.                            *)
LEMMA StillStep ==
    ASSUME SystemInv, NodeInv', Still, Observe \/ UNCHANGED inflight, NEW dn,
           Link(tcpState, Conn, toPeer, dn, srv, received),
           NEW f \in PeerFrames, Transmit(f) \/ UNCHANGED toPeer,
           tcpState = "SYN_SENT" => f \in Syns(Conn) /\ f.seq = 0,
           tcpState = "ESTABLISHED" => FromNode(Conn, f),
           tcpState = "LAST_ACK" => f.flags # {"SYN"}
    PROVE  NodeNow(dn)
<1>1. Conn' = Conn /\ tcpState' = tcpState /\ Conn \in Ends /\ toPeer \in Seq(PeerFrames)
  BY StillConn, ConnType DEF SystemInv, NetTypeOK, Still
<1>2. toPeer' \in {toPeer, Append(toPeer, f)} /\ toPeer' \in Seq(PeerFrames)
  BY <1>1, TransmitStep
<1>3. Link(tcpState, Conn, Append(toPeer, f), dn, srv, received)
  BY <1>1, LinkUp
<1>4. QED
  BY <1>1, <1>2, <1>3 DEF NodeNow

LEMMA SilentStep ==
    ASSUME SystemInv, Still, Observe \/ UNCHANGED inflight, NEW dn,
           Link(tcpState, Conn, toPeer, dn, srv, received), UNCHANGED toPeer
    PROVE  NodeNow(dn)
<1>1. Conn' = Conn /\ tcpState' = tcpState
  BY StillConn DEF Still
<1>2. QED
  BY <1>1 DEF NodeNow, SystemInv, NetTypeOK

(* A node that closes sends whatever it likes.                               *)
LEMMA ClosedStep ==
    ASSUME SystemInv, tcpState' = "CLOSED", NEW dn, toPeer' \in Seq(PeerFrames)
    PROVE  NodeNow(dn)
BY DEF NodeNow, Link, SystemInv, NetInv

LEMMA AckFrameFacts ==
    ASSUME NodeInv, NodeInv', NEW data \in Seq(Unit), UNCHANGED lport,
           data # <<>> => data = Conn'.data
    PROVE  /\ Frame({"ACK"}, data) \in PeerFrames
           /\ FromNode(Conn', Frame({"ACK"}, data))
           /\ Frame({"ACK"}, data).flags = {"ACK"}
<1>1. /\ Frame({"ACK"}, data) \in PeerFrames
      /\ Frame({"ACK"}, data).port = lport /\ Frame({"ACK"}, data).flags = {"ACK"}
      /\ Frame({"ACK"}, data).seq = sndNxt' /\ Frame({"ACK"}, data).ack = rcvNxt'
      /\ Frame({"ACK"}, data).data = data
  BY FrameType
<1>2. Conn'.port = lport /\ Conn'.snd = sndNxt' /\ Conn'.rcv = rcvNxt'
  BY DEF Conn
<1>3. QED
  BY <1>1, <1>2 DEF FromNode

(* The next segment, when the connection exists.                             *)
LEMMA HeadFacts ==
    ASSUME SystemInv, toNode # <<>>, NEW f, f = Head(toNode)
    PROVE  /\ f \in NodeFrames /\ Tail(toNode) \in Seq(NodeFrames)
           /\ Found(f) => f \in Mine(Conn)
           /\ Link(tcpState, Conn, toPeer, Tail(toNode), srv, received)
           /\ tcpState = "SYN_SENT" /\ Found(f) => f \in SynAcks(Conn)
<1>1. toNode \in Seq(NodeFrames) /\ Link(tcpState, Conn, toPeer, toNode, srv, received)
  BY DEF SystemInv, NetTypeOK, NetInv
<1>2. f \in NodeFrames /\ f \in Frames(toNode) /\ Tail(toNode) \in Seq(NodeFrames)
  BY <1>1, PopFrame
<1>3. Found(f) => f \in Mine(Conn)
  BY <1>2 DEF Found, Mine, Conn
<1>4. Link(tcpState, Conn, toPeer, Tail(toNode), srv, received)
  BY <1>1, DropDn DEF Link
<1>5. tcpState = "SYN_SENT" /\ Found(f) => f \in SynAcks(Conn)
  BY <1>1, <1>2, <1>3 DEF Link, SynInv
<1>6. QED
  BY <1>2, <1>3, <1>4, <1>5

LEMMA UnseenStep ==
    ASSUME SystemInv, NodeInv', toNode # <<>>, ReceiveUnseen(Head(toNode)), Observe
    PROVE  NodeNow(Tail(toNode))
<1> DEFINE f == Head(toNode)
           rest == Tail(toNode)
<1>1. /\ f \in NodeFrames /\ Link(tcpState, Conn, toPeer, rest, srv, received)
      /\ tcpState = "SYN_SENT" /\ Found(f) => f \in SynAcks(Conn)
  BY HeadFacts
<1>2. NodeInv /\ Conn \in Ends /\ Conn.port = lport /\ toPeer \in Seq(PeerFrames)
  BY ConnType DEF SystemInv, Conn, NetTypeOK
<1> HIDE DEF f, rest
<1>3. Still
  BY DEF ReceiveUnseen, RxStray, RxOutOfOrder, RxFinTooEarly, RxWindow, RxLastAckWait,
         tcpVars, clientVars, Still
<1>4. CASE RxStray(f)
  <2> DEFINE g == [port |-> f.port, flags |-> {"RST", "ACK"}, seq |-> f.ack,
                   ack |-> Bump(f.seq), data |-> <<>>]
  <2>1. g \in PeerFrames /\ g.port = f.port /\ "RST" \in g.flags
    BY <1>1, ResetType
  <2>2. UNCHANGED toPeer \/ Transmit(g)
    BY <1>4 DEF RxStray, SendReset
  <2> HIDE DEF g
  <2>3. CASE tcpState = "CLOSED"
    <3>1. toPeer' \in Seq(PeerFrames) /\ tcpState' = "CLOSED"
      BY <1>2, <1>3, <2>1, <2>2, <2>3, TransmitStep DEF Still
    <3>2. QED
      BY <3>1, ClosedStep
  <2>4. CASE tcpState # "CLOSED"
    <3>1. g.port # Conn.port
      BY <1>2, <1>4, <2>1, <2>4 DEF RxStray, Found
    <3>2. Link(tcpState, Conn, Append(toPeer, g), rest, srv, received)
      BY <1>1, <1>2, <2>1, <3>1, SendAside DEF Link
    <3>3. toPeer' \in {toPeer, Append(toPeer, g)} /\ toPeer' \in Seq(PeerFrames)
      BY <1>2, <2>1, <2>2, TransmitStep
    <3>4. Conn' = Conn /\ tcpState' = tcpState
      BY <1>3, StillConn DEF Still
    <3>5. QED
      BY <1>1, <3>2, <3>3, <3>4 DEF NodeNow, rest
  <2>5. QED
    BY <2>3, <2>4 DEF rest
<1>5. CASE RxOutOfOrder(f)
  <2> DEFINE g == Frame({"ACK"}, <<>>)
  <2>1. UNCHANGED lport /\ Conn' = Conn /\ Transmit(g)
    BY <1>3, <1>5, StillConn DEF Still, RxOutOfOrder
  <2>2. g \in PeerFrames /\ FromNode(Conn, g) /\ g.flags = {"ACK"}
    BY <1>2, <2>1, EmptySeq, AckFrameFacts
  <2> HIDE DEF g
  <2>3. tcpState # "SYN_SENT"
    BY <1>1, <1>5 DEF RxOutOfOrder, OutOfOrder, SynAcks
  <2>4. {"ACK"} # {"SYN"}
    OBVIOUS
  <2>5. QED
    BY <1>1, <1>3, <2>1, <2>2, <2>3, <2>4, StillStep DEF rest
<1>6. CASE RxFinTooEarly(f) \/ RxWindow(f) \/ RxLastAckWait(f)
  <2>1. UNCHANGED toPeer
    BY <1>6 DEF RxFinTooEarly, RxWindow, RxLastAckWait, tcpVars
  <2>2. QED
    BY <1>1, <1>3, <2>1, SilentStep DEF rest
<1>7. QED
  BY <1>4, <1>5, <1>6 DEF ReceiveUnseen, f, rest

LEMMA ErrorStep ==
    ASSUME SystemInv, NodeInv', toNode # <<>>, ReceiveError(Head(toNode))
    PROVE  NodeNow(Tail(toNode))
<1> DEFINE f == Head(toNode)
           rest == Tail(toNode)
           c == Conn
<1>1. /\ f \in NodeFrames /\ (Found(f) => f \in Mine(c))
      /\ Link(tcpState, c, toPeer, rest, srv, received)
  BY HeadFacts
<1>2. /\ NodeInv /\ c \in Ends /\ toPeer \in Seq(PeerFrames) /\ toNode \in Seq(NodeFrames)
      /\ srv \in Brokers /\ Link(tcpState, c, toPeer, toNode, srv, received)
  BY ConnType DEF SystemInv, NetTypeOK, NetInv
<1>3. c.port = lport /\ c.rcv = rcvNxt
  BY DEF Conn
<1> HIDE DEF f, rest, c
<1>4. CASE RxReset(f) \/ RxLastAck(f)
  <2>1. tcpState' = "CLOSED" /\ UNCHANGED toPeer
    BY <1>4 DEF RxReset, RxLastAck
  <2>2. QED
    BY <1>2, <2>1, ClosedStep DEF rest
<1>5. CASE RxRefused(f)
  <2> DEFINE g == [port |-> f.port, flags |-> {"RST", "ACK"}, seq |-> f.ack,
                   ack |-> Bump(f.seq), data |-> <<>>]
  <2>1. g \in PeerFrames
    BY <1>1, ResetType
  <2>2. tcpState' = "CLOSED" /\ (UNCHANGED toPeer \/ Transmit(g))
    BY <1>5 DEF RxRefused, SendReset
  <2> HIDE DEF g
  <2>3. toPeer' \in Seq(PeerFrames)
    BY <1>2, <2>1, <2>2, TransmitStep
  <2>4. QED
    BY <2>2, <2>3, ClosedStep DEF rest
<1>6. CASE RxFin(f)
  <2>1. /\ tcpState = "ESTABLISHED" /\ tcpState' = "LAST_ACK" /\ Found(f) /\ "FIN" \in f.flags
        /\ ~OutOfOrder(f) /\ rcvNxt' = Bump(rcvNxt) /\ lport' = lport
        /\ Transmit(Frame({"FIN", "ACK"}, <<>>))
    BY <1>6 DEF RxFin, Accepted, SendFinAck
  <2>2. f.flags = {"FIN", "ACK"}
    <3>1. "FIN" # "SYN" /\ "FIN" # "ACK" /\ "FIN" # "RST"
      OBVIOUS
    <3>2. QED
      BY <1>1, <2>1, <3>1, NodeFrameType
  <2>3. f \in NewSeq(c)
    <3>1. f.seq = rcvNxt
      BY <2>1 DEF OutOfOrder
    <3>2. QED
      BY <1>1, <1>3, <2>1, <2>2, <3>1 DEF NewSeq, Counted
  <2>4. /\ None(rest, OldSeq(c)) /\ None(toPeer, Syns(c))
        /\ srv.state \in {"LISTEN", "FIN_SENT"} /\ (Live(srv) => srv.snd = c.rcv)
    BY <1>2, <2>1, <2>2, <2>3, IsNext DEF Link, f, rest
  <2>5. Conn'.port = c.port /\ Conn'.rcv = Bump(c.rcv)
    BY <1>3, <2>1 DEF Conn
  <2>6. LastInv(Conn', toPeer, rest, srv)
    BY <1>1, <1>2, <2>1, <2>4, <2>5, Closing DEF Link
  <2> DEFINE g == Frame({"FIN", "ACK"}, <<>>)
  <2>7. g \in PeerFrames /\ g.flags # {"SYN"}
    <3>1. {"FIN", "ACK"} # {"SYN"}
      OBVIOUS
    <3>2. QED
      BY <1>2, <3>1, EmptySeq, FrameType
  <2>8. Transmit(g)
    BY <2>1
  <2> HIDE DEF g
  <2>9. toPeer' \in {toPeer, Append(toPeer, g)} /\ toPeer' \in Seq(PeerFrames)
    BY <1>2, <2>7, <2>8, TransmitStep
  <2>10. LastInv(Conn', Append(toPeer, g), rest, srv)
    BY <1>2, <2>6, <2>7, LastUp
  <2>11. QED
    BY <1>1, <2>1, <2>6, <2>9, <2>10 DEF NodeNow, Link, rest
<1>7. QED
  BY <1>4, <1>5, <1>6 DEF ReceiveError, f, rest

(* A node with nothing in flight sends a chunk, of which a segment may take  *)
(* the first part only.                                                      *)
LEMMA LoadStep ==
    ASSUME SystemInv, NodeInv', NEW dn, NEW c, EstInv(c, toPeer, dn, srv, received),
           c.data = <<>>, c.port = lport, c.snd = sndNxt', c.rcv = rcvNxt',
           c.phase = mqttState', UNCHANGED lport,
           tcpState # "ESTABLISHED" \/ ~Outstanding,
           NEW data \in Seq(Unit), NEW newdata, AppSend(data, 0, newdata),
           sendBuf' = data, Observe
    PROVE  NodeNow(dn)
<1> DEFINE size == IF Len(data) > mss' THEN mss' ELSE Len(data)
           part == SubSeq(data, 1, size)
<1>1. /\ NodeInv /\ toPeer \in Seq(PeerFrames) /\ Conn' \in Ends
      /\ Link(tcpState, Conn, toPeer, toNode, srv, received)
  <2>1. Conn' \in Ends
    BY EmptySeq DEF NodeInv, NodeTypeOK, TcpTypeOK, ClientTypeOK, Conn, Ends, SeqNo
  <2>2. QED
    BY <2>1 DEF SystemInv, NetTypeOK, NetInv
<1>2. Len(data) \in Nat /\ mss' \in Nat
  BY LenProperties, TcpAssumption DEF NodeInv, NodeTypeOK, TcpTypeOK
<1>3. size \in Nat /\ size <= Len(data)
  BY <1>2
<1>4. /\ tcpState' = "ESTABLISHED"
      /\ len' = IF data = <<>> THEN 0 ELSE size
      /\ IF data # <<>> THEN Transmit(Frame({"ACK"}, part))
         ELSE Transmit(Frame({"ACK"}, <<>>)) \/ UNCHANGED toPeer
  BY DEF AppSend
<1> HIDE DEF size
<1>5. part \in Seq(Unit) /\ (size = 0 => part = <<>>)
  <2>1. \A i \in 1 .. size : data[i] \in Unit
    BY <1>3, ElementOfSeq
  <2>2. /\ part \in Seq(Unit)
        /\ Len(part) = IF 1 <= size THEN size - 1 + 1 ELSE 0
    BY <1>3, <2>1, SubSeqProperties
  <2>3. QED
    BY <2>2, EmptySeq
<1>6. part # <<>> /\ data # <<>> => part = Conn'.data
  <2>1. SUFFICES ASSUME part # <<>>, data # <<>> PROVE part = Conn'.data
    OBVIOUS
  <2>2. len' = size /\ size > 0
    BY <1>3, <1>4, <1>5, <2>1
  <2>3. inflight' = part
    BY <1>4, <2>2 DEF Observe
  <2>4. QED
    BY <1>4, <2>2, <2>3 DEF Conn, Outstanding
<1> HIDE DEF part
<1>7. EstInv(Conn', toPeer, dn, srv, received)
  <2>1. /\ Conn'.port = c.port /\ Conn'.snd = c.snd /\ Conn'.rcv = c.rcv
        /\ Conn'.phase = c.phase
    BY DEF Conn
  <2>2. QED
    BY <1>1, <2>1, LoadNode
<1>8. ASSUME NEW d \in Seq(Unit), d # <<>> => d = Conn'.data, Transmit(Frame({"ACK"}, d))
      PROVE  toPeer' \in Seq(PeerFrames) /\ EstInv(Conn', toPeer', dn, srv, received)
  <2> DEFINE g == Frame({"ACK"}, d)
  <2>1. g \in PeerFrames /\ FromNode(Conn', g)
    BY <1>1, <1>8, AckFrameFacts
  <2>2. Transmit(g)
    BY <1>8
  <2> HIDE DEF g
  <2>3. toPeer' \in {toPeer, Append(toPeer, g)} /\ toPeer' \in Seq(PeerFrames)
    BY <1>1, <2>1, <2>2, TransmitStep
  <2>4. EstInv(Conn', Append(toPeer, g), dn, srv, received)
    BY <1>1, <1>7, <2>1, SendUp
  <2>5. QED
    BY <1>7, <2>3, <2>4
<1>9. toPeer' \in Seq(PeerFrames) /\ EstInv(Conn', toPeer', dn, srv, received)
  BY <1>1, <1>4, <1>5, <1>6, <1>7, <1>8, EmptySeq
<1>10. QED
  BY <1>1, <1>4, <1>9 DEF NodeNow, Link

(* The handshake completes.                                                  *)
LEMMA ConnectedStep ==
    ASSUME SystemInv, NodeInv', toNode # <<>>, ReceiveConnected(Head(toNode)), Observe
    PROVE  NodeNow(Tail(toNode))
<1> DEFINE f == Head(toNode)
           buf == Push(txbuff, Connect)
           data == Chunk(buf)
           c == [port |-> lport, snd |-> Bump(0), rcv |-> Bump(0), data |-> <<>>,
                 phase |-> "CONNECTING"]
<1>1. /\ (Found(f) => f \in Mine(Conn))
      /\ (tcpState = "SYN_SENT" /\ Found(f) => f \in SynAcks(Conn))
  BY HeadFacts
<1>2. /\ NodeInv /\ Conn \in Ends /\ toPeer \in Seq(PeerFrames) /\ toNode \in Seq(NodeFrames)
      /\ srv \in Brokers /\ Link(tcpState, Conn, toPeer, toNode, srv, received)
  BY ConnType DEF SystemInv, NetTypeOK, NetInv
<1>3. Conn.port = lport /\ Conn.snd = sndNxt
  BY DEF Conn
<1>4. buf \in Seq(Unit) /\ Len(buf) <= TxSize
  BY <1>2, PushType, PacketType DEF NodeInv, NodeTypeOK, ClientTypeOK
<1>5. data \in Seq(Unit)
  BY <1>4, TransferType
<1>6. RxConnected(f, "send", data) /\ ClientConnected(data)
  BY DEF ReceiveConnected, UmqttConnect
<1>7. mqttState' = "CONNECTING" /\ sendBuf' = data
  BY <1>6 DEF ClientConnected, TransferBuffer
<1> HIDE DEF f, buf, data
<1>8. /\ tcpState = "SYN_SENT" /\ Found(f) /\ AckData(f) /\ lport' = lport
      /\ sndNxt' = Bump(sndNxt) /\ rcvNxt' = Bump(f.seq) /\ AppSend(data, 0, TRUE)
  BY <1>6 DEF RxConnected, Accepted, ProcessAck, AckSndNxt, AppReturn
<1>9. f \in Mine(Conn) /\ f.seq = 0 /\ Conn.snd = 0
  BY <1>1, <1>2, <1>8 DEF Link, SynAcks
<1>10. c \in Ends
  <2>1. lport \in Ports /\ Bump(0) \in SeqNo
    BY <1>2, BumpFacts DEF NodeInv, NodeTypeOK, TcpTypeOK
  <2>2. QED
    BY <2>1, EmptySeq DEF Ends, MqttStates
<1>11. /\ c.port = lport /\ c.snd = Bump(0) /\ c.rcv = Bump(0) /\ c.data = <<>>
       /\ c.phase = "CONNECTING"
  OBVIOUS
<1> HIDE DEF c
<1>12. EstInv(c, toPeer, Tail(toNode), srv, received)
  BY <1>2, <1>3, <1>8, <1>9, <1>10, <1>11, Established DEF Link, f
<1>13. c.snd = sndNxt' /\ c.rcv = rcvNxt' /\ c.phase = mqttState'
  BY <1>3, <1>7, <1>8, <1>9, <1>11
<1>14. QED
  BY <1>5, <1>7, <1>8, <1>11, <1>12, <1>13, LoadStep

(* Data or an acknowledgement arrives.                                       *)
LEMMA DataArrives ==
    ASSUME SystemInv, NodeInv', toNode # <<>>, ReceiveData(Head(toNode)), Observe
    PROVE  NodeNow(Tail(toNode))
<1> DEFINE f == Head(toNode)
           acks == AckData(f)
<1>1. f \in NodeFrames /\ (Found(f) => f \in Mine(Conn))
  BY HeadFacts
<1>2. /\ NodeInv /\ Conn \in Ends /\ toPeer \in Seq(PeerFrames) /\ toNode \in Seq(NodeFrames)
      /\ srv \in Brokers /\ Link(tcpState, Conn, toPeer, toNode, srv, received)
  BY ConnType DEF SystemInv, NetTypeOK, NetInv
<1>3. Conn.port = lport /\ Conn.snd = sndNxt /\ Conn.rcv = rcvNxt /\ Conn.phase = mqttState
  BY DEF Conn
<1>4. Conn' \in Ends
  BY EmptySeq DEF NodeInv, NodeTypeOK, TcpTypeOK, ClientTypeOK, Conn, Ends, SeqNo
<1>5. RxDeliver(f, "send", <<>>)
  BY DEF ReceiveData
<1>6. IF f.data # <<>> THEN ClientNewData(f.data) ELSE ClientAcked
  BY DEF ReceiveData
<1> HIDE DEF f
<1>7. /\ tcpState = "ESTABLISHED" /\ tcpState' = "ESTABLISHED" /\ Found(f) /\ ~OutOfOrder(f)
      /\ sndNxt' = IF acks THEN Bump(sndNxt) ELSE sndNxt
      /\ rcvNxt' = IF f.data # <<>> THEN Bump(rcvNxt) ELSE rcvNxt
      /\ len' = LenAfterAck(f) /\ lport' = lport
      /\ IF f.data # <<>> THEN Transmit(Frame({"ACK"}, <<>>)) ELSE UNCHANGED toPeer
  BY <1>5 DEF RxDeliver, Accepted, ProcessAck, AckSndNxt, AppReturn, AppSend
<1>8. f \in Mine(Conn)
  BY <1>1, <1>7
<1>9. acks => f \in Confirming(Conn) /\ Outstanding
  BY <1>3, <1>8 DEF AckData, Confirming
<1>10. f.data # <<>> => f \in NewSeq(Conn)
  BY <1>3, <1>7, <1>8 DEF OutOfOrder, NewSeq, Counted
<1>11. mqttState' # mqttState => Has(f.data)
  <2>1. SUFFICES ASSUME mqttState' # mqttState PROVE Has(f.data)
    OBVIOUS
  <2>2. mqttState' = StateAfter(f.data)
    BY <1>6, <2>1 DEF ClientNewData, ClientAcked
  <2>3. PICK i \in DOMAIN f.data : f.data[i] # "PINGRESP"
    BY <2>1, <2>2 DEF StateAfter
  <2>4. f.data \in Seq(Answer)
    BY <1>1, NodeFrameType
  <2>5. f.data[i] \in Answer
    BY <2>3, <2>4, ElementOfSeq, LenProperties
  <2>6. QED
    BY <2>3, <2>5 DEF Answer, Has
<1>12. Conn'.data = IF acks THEN <<>> ELSE Conn.data
  <2>1. CASE acks
    BY <1>7, <2>1, TcpAssumption DEF Conn, LenAfterAck, Outstanding
  <2>2. CASE ~acks
    <3>1. len' = len
      BY <1>7, <2>2 DEF LenAfterAck
    <3>2. Outstanding => inflight' = inflight
      BY <1>7, <3>1 DEF Observe, Outstanding
    <3>3. QED
      BY <1>7, <2>2, <3>1, <3>2 DEF Conn, Outstanding
  <2>3. QED
    BY <2>1, <2>2
<1>13. /\ Conn'.port = Conn.port
       /\ Conn'.snd = IF acks THEN Bump(Conn.snd) ELSE Conn.snd
       /\ Conn'.rcv = IF f.data # <<>> THEN Bump(Conn.rcv) ELSE Conn.rcv
       /\ Conn'.phase # Conn.phase => Has(f.data)
  BY <1>7, <1>11 DEF Conn
<1>14. EstInv(Conn, toPeer, toNode, srv, received)
  BY <1>2, <1>7 DEF Link
<1> DEFINE c == Conn
           c2 == Conn'
<1>15. acks \in BOOLEAN
  BY DEF AckData
<1> HIDE DEF acks, c, c2
<1>16. EstInv(c2, toPeer, Tail(toNode), srv, received)
  <2>1. f = Head(toNode) /\ c2 \in Ends /\ c \in Ends
    BY <1>2, <1>4 DEF f, c, c2
  <2>2. /\ EstInv(c, toPeer, toNode, srv, received) /\ f \in Mine(c)
        /\ (acks => f \in Confirming(c)) /\ (f.data # <<>> => f \in NewSeq(c))
    BY <1>8, <1>9, <1>10, <1>14 DEF c
  <2>3. /\ c2.port = c.port
        /\ c2.snd = IF acks THEN Bump(c.snd) ELSE c.snd
        /\ c2.data = IF acks THEN <<>> ELSE c.data
        /\ c2.rcv = IF f.data # <<>> THEN Bump(c.rcv) ELSE c.rcv
        /\ c2.phase # c.phase => Has(f.data)
    BY <1>12, <1>13 DEF c, c2
  <2>4. QED
    BY <1>2, <1>15, <2>1, <2>2, <2>3, Deliver
<1> DEFINE g == Frame({"ACK"}, <<>>)
<1>17. g \in PeerFrames /\ FromNode(Conn', g)
  BY <1>2, <1>7, EmptySeq, AckFrameFacts
<1>18. Transmit(g) \/ UNCHANGED toPeer
  BY <1>7
<1> HIDE DEF g
<1>19. toPeer' \in {toPeer, Append(toPeer, g)} /\ toPeer' \in Seq(PeerFrames)
  BY <1>2, <1>17, <1>18, TransmitStep
<1>20. EstInv(Conn', Append(toPeer, g), Tail(toNode), srv, received)
  BY <1>2, <1>4, <1>16, <1>17, SendUp DEF c2
<1>21. QED
  BY <1>2, <1>7, <1>16, <1>19, <1>20 DEF NodeNow, Link, c2

LEMMA ReceiveStep ==
    ASSUME SystemInv, NodeInv', toNode # <<>>, Receive(Head(toNode)), Observe
    PROVE  NodeNow(Tail(toNode))
BY UnseenStep, ConnectedStep, ErrorStep, DataArrives DEF Receive

LEMMA GiveUpStep ==
    ASSUME SystemInv, NodeInv', TimerGiveUp
    PROVE  NodeNow(toNode)
<1> DEFINE g == Frame({"RST", "ACK"}, <<>>)
<1>1. NodeInv /\ toPeer \in Seq(PeerFrames)
  BY DEF SystemInv, NetTypeOK
<1>2. g \in PeerFrames
  BY <1>1, EmptySeq, FrameType
<1>3. tcpState' = "CLOSED" /\ Transmit(g)
  BY DEF TimerGiveUp
<1> HIDE DEF g
<1>4. toPeer' \in Seq(PeerFrames)
  BY <1>1, <1>2, <1>3, TransmitStep
<1>5. QED
  BY <1>3, <1>4, ClosedStep

(* What is repeated is what was sent.                                        *)
LEMMA RexmitStep ==
    ASSUME SystemInv, NodeInv', Observe, UNCHANGED mqttState,
           NEW data, data = IF tcpState = "ESTABLISHED" THEN sendBuf ELSE <<>>,
           TimerRexmit(data)
    PROVE  NodeNow(toNode)
<1>1. /\ NodeInv /\ toPeer \in Seq(PeerFrames) /\ Conn \in Ends
      /\ Link(tcpState, Conn, toPeer, toNode, srv, received)
  BY ConnType DEF SystemInv, NetTypeOK, NetInv
<1>2. Still /\ tcpState # "CLOSED" /\ Outstanding
  BY DEF TimerRexmit, TimerArmed, Still
<1>3. Conn' = Conn
  BY <1>2, StillConn
<1>4. sndNxt' = sndNxt /\ lport' = lport /\ rcvNxt' = rcvNxt
  BY <1>2 DEF Still
<1>5. tcpState \in {"CLOSED", "SYN_SENT", "ESTABLISHED", "LAST_ACK"}
  BY <1>1, ConnType
<1>6. CASE tcpState = "SYN_SENT"
  <2> DEFINE g == Frame({"SYN"}, <<>>)
  <2>1. /\ g \in PeerFrames /\ g.port = lport /\ g.flags = {"SYN"} /\ g.seq = sndNxt'
    BY <1>1, EmptySeq, FrameType
  <2>2. Transmit(g)
    BY <1>6 DEF TimerRexmit
  <2> HIDE DEF g
  <2>3. Conn.port = lport /\ Conn.snd = sndNxt /\ Conn.snd = 0
    BY <1>1, <1>6 DEF Conn, Link
  <2>4. g \in Syns(Conn) /\ g.seq = 0
    BY <1>4, <2>1, <2>3 DEF Syns
  <2>5. QED
    BY <1>1, <1>2, <1>6, <2>1, <2>2, <2>4, StillStep
<1>7. CASE tcpState = "LAST_ACK"
  <2> DEFINE g == Frame({"FIN", "ACK"}, <<>>)
  <2>1. g \in PeerFrames /\ g.flags = {"FIN", "ACK"}
    BY <1>1, EmptySeq, FrameType
  <2>2. Transmit(g)
    BY <1>7 DEF TimerRexmit, SendFinAck
  <2> HIDE DEF g
  <2>3. g.flags # {"SYN"}
    <3>1. {"FIN", "ACK"} # {"SYN"}
      OBVIOUS
    <3>2. QED
      BY <2>1, <3>1
  <2>4. QED
    BY <1>1, <1>2, <1>7, <2>1, <2>2, <2>3, StillStep
<1>8. CASE tcpState = "ESTABLISHED"
  <2> DEFINE part == SubSeq(sendBuf, 1, len)
             g == Frame({"ACK"}, part)
  <2>1. part = inflight /\ part \in Seq(Unit)
    BY <1>1, <1>2, <1>8 DEF NodeInv, RetransmitSafe, NodeTypeOK
  <2>2. part = Conn'.data
    BY <1>2, <1>3, <1>8, <2>1 DEF Conn
  <2>3. Transmit(g) \/ UNCHANGED toPeer
    BY <1>8 DEF TimerRexmit
  <2> HIDE DEF part
  <2>4. g \in PeerFrames /\ FromNode(Conn, g)
    BY <1>1, <1>3, <1>4, <2>1, <2>2, AckFrameFacts
  <2> HIDE DEF g
  <2>5. QED
    BY <1>1, <1>2, <1>8, <2>3, <2>4, StillStep
<1>9. QED
  BY <1>2, <1>5, <1>6, <1>7, <1>8

LEMMA PollStep ==
    ASSUME SystemInv, NodeInv', Observe, TimerPoll("send", Chunk(txbuff)), ClientPoll(Chunk(txbuff))
    PROVE  NodeNow(toNode)
<1> DEFINE data == Chunk(txbuff)
           c == Conn
<1>1. NodeInv /\ Link(tcpState, c, toPeer, toNode, srv, received)
  BY DEF SystemInv, NetInv
<1>2. data \in Seq(Unit)
  BY <1>1, TransferType DEF NodeInv, NodeTypeOK, ClientTypeOK
<1>3. TimerPoll("send", data) /\ ClientPoll(data)
  OBVIOUS
<1> HIDE DEF data
<1>4. /\ tcpState = "ESTABLISHED" /\ ~Outstanding /\ UNCHANGED <<lport, sndNxt, rcvNxt>>
      /\ AppSend(data, 0, FALSE) /\ sendBuf' = data /\ mqttState' = mqttState
  BY <1>3 DEF TimerPoll, AppReturn, ClientPoll, TransferBuffer
<1>5. /\ c.data = <<>> /\ c.port = lport /\ c.snd = sndNxt' /\ c.rcv = rcvNxt'
      /\ c.phase = mqttState'
  BY <1>4 DEF Conn
<1> HIDE DEF c
<1>6. EstInv(c, toPeer, toNode, srv, received)
  BY <1>1, <1>4 DEF Link
<1>7. QED
  BY <1>2, <1>4, <1>5, <1>6, LoadStep

LEMMA PeriodicStep ==
    ASSUME SystemInv, NodeInv', PeriodicStage
    PROVE  NodeNow(toNode)
<1>1. Link(tcpState, Conn, toPeer, toNode, srv, received)
  BY DEF SystemInv, NetInv
<1>2. Observe
  BY DEF PeriodicStage
<1>3. CASE UNCHANGED <<tcpVars, clientVars>>
  <2>1. Still /\ UNCHANGED toPeer
    BY <1>3 DEF Still, tcpVars, clientVars
  <2>2. QED
    BY <1>1, <1>2, <2>1, SilentStep
<1>4. CASE TimerCountDown /\ UNCHANGED clientVars
  <2>1. Still /\ UNCHANGED toPeer
    BY <1>4 DEF Still, TimerCountDown, clientVars
  <2>2. QED
    BY <1>1, <1>2, <2>1, SilentStep
<1>5. CASE tcpState = "ESTABLISHED" /\ TimerRexmit(sendBuf) /\ ClientRexmit(sendBuf)
  <2>1. mqttState' = mqttState
    BY <1>5 DEF ClientRexmit
  <2>2. QED
    BY <1>2, <1>5, <2>1, RexmitStep
<1>6. CASE tcpState # "ESTABLISHED" /\ TimerRexmit(<<>>) /\ UNCHANGED clientVars
  <2>1. mqttState' = mqttState
    BY <1>6 DEF clientVars
  <2>2. QED
    BY <1>2, <1>6, <2>1, RexmitStep
<1>7. QED
  BY <1>2, <1>3, <1>4, <1>5, <1>6, GiveUpStep, PollStep
     DEF PeriodicStage, PeriodicTcp, TimerIdle

(* uip_connect takes a port of which nothing is left in the network.         *)
LEMMA ConnectStep ==
    ASSUME SystemInv, NodeInv', UipConnect, lport' \notin BusyPorts
    PROVE  NodeNow(toNode)
<1> DEFINE c == Conn'
<1>1. /\ toPeer \in Seq(PeerFrames) /\ toNode \in Seq(NodeFrames)
      /\ Forgotten(srv) /\ tcpState' = "SYN_SENT" /\ UNCHANGED toPeer
  BY DEF SystemInv, NetTypeOK, NetInv, Link, UipConnect
<1>2. c.port = lport' /\ c.snd = 0
  BY DEF Conn, UipConnect
<1> HIDE DEF c
<1>3. \A f \in Frames(toPeer) : f.port # c.port
  BY <1>2 DEF Frames, BusyPorts
<1>4. \A f \in Frames(toNode) : f.port # c.port
  BY <1>2 DEF Frames, BusyPorts
<1>5. ~(Live(srv) /\ srv.port = c.port)
  <2>1. SUFFICES ASSUME Live(srv), srv.port = c.port PROVE FALSE
    OBVIOUS
  <2>2. srv # Listening(srv.port)
    <3>1. Listening(srv.port).state = "LISTEN"
      BY DEF Listening
    <3>2. QED
      BY <2>1, <3>1 DEF Live
  <2>3. srv.port \in BusyPorts
    BY <2>2 DEF BusyPorts
  <2>4. QED
    BY <1>2, <2>1, <2>3
<1>6. None(toPeer, Owns(c)) /\ None(toNode, Mine(c))
  BY <1>3, <1>4 DEF None, Owns, Mine
<1>7. SynInv(c, toPeer, toNode, srv)
  <2>1. Sorted(toPeer, Foreign(c), Owns(c))
    BY <1>6, SortedNone
  <2>2. QED
    BY <1>5, <1>6, <2>1 DEF SynInv, None
<1>8. Link("SYN_SENT", c, toPeer, toNode, srv, received)
  BY <1>1, <1>2, <1>7 DEF Link
<1>9. QED
  BY <1>1, <1>8 DEF NodeNow, c

LEMMA ProcessStep ==
    ASSUME SystemInv, NodeInv', ProcessStage, lport' # lport => lport' \notin BusyPorts
    PROVE  NodeNow(toNode)
<1>1. Link(tcpState, Conn, toPeer, toNode, srv, received) /\ Observe
  BY DEF SystemInv, NetInv, ProcessStage
<1>2. mqttState' = mqttState
  BY DEF ProcessStage, BrokerConnect, ProcessConnect, ProcessPing, ProcessMeasure, ProcessIdle
<1>3. CASE UNCHANGED tcpVars
  <2>1. Still /\ UNCHANGED toPeer
    BY <1>2, <1>3 DEF Still, tcpVars
  <2>2. QED
    BY <1>1, <2>1, SilentStep
<1>4. CASE UipConnect
  <2>1. lport' # lport
    BY <1>4 DEF UipConnect
  <2>2. QED
    BY <1>4, <2>1, ConnectStep
<1>5. QED
  BY <1>3, <1>4 DEF ProcessStage, BrokerConnect

LEMMA IdleStep ==
    ASSUME SystemInv, RxNothing \/ Tick
    PROVE  NodeNow(toNode)
<1>1. Link(tcpState, Conn, toPeer, toNode, srv, received)
  BY DEF SystemInv, NetInv
<1>2. Still /\ UNCHANGED toPeer /\ UNCHANGED inflight
  BY DEF RxNothing, NoPacket, Tick, ClientTick, tcpVars, clientVars, Still
<1>3. QED
  BY <1>1, <1>2, SilentStep

-----------------------------------------------------------------------------
(* The node's own invariant                                                  *)

(* The broker's steps leave the node alone.                                  *)
LEMMA NodeUntouched ==
    ASSUME NodeInv,
           UNCHANGED <<tcpState, lport, sndNxt, rcvNxt, len, mss, nrtx, rtxTimer, rto,
                       clientVars, pc, due, inflight>>
    PROVE  NodeInv'
BY DEF NodeInv, NodeTypeOK, TcpTypeOK, ClientTypeOK, HandshakeArmed, RetryBound, Waiting,
       Outstanding, SessionMatchesTransport, SessionPhase, LedShowsNormal, RetransmitSafe,
       clientVars, actsigVars

LEMMA NodeInSystem ==
    ASSUME SystemInv, SystemNext
    PROVE  NodeInv'
<1>1. NodeInv /\ toNode \in Seq(NodeFrames)
  BY DEF SystemInv, NetTypeOK
<1>2. CASE SystemRx
  <2>1. Header(Head(toNode)) /\ Harmless(Head(toNode)) /\ RxStage(Head(toNode))
    <3>1. toNode # <<>> /\ RxStage(Head(toNode))
      BY <1>2 DEF SystemRx
    <3>2. Head(toNode) \in NodeFrames
      BY <1>1, <3>1, PopFrame
    <3>3. QED
      BY <3>1, <3>2, NodeFrameType, HeadHarmless
  <2>2. OpenNext
    BY <2>1 DEF OpenNext
  <2>3. QED
    BY <1>1, <2>2, OpenStepInv
<1>3. CASE SystemRxNothing \/ SystemLoop \/ SystemTick
  <2>1. OpenNext
    BY <1>3 DEF SystemRxNothing, SystemLoop, SystemTick, OpenNext, MainLoop
  <2>2. QED
    BY <1>1, <2>1, OpenStepInv
<1>4. CASE BrokerTake \/ BrokerSend \/ BrokerRepeat \/ BrokerExpire \/ Fault
  <2>1. UNCHANGED <<tcpState, lport, sndNxt, rcvNxt, len, mss, nrtx, rtxTimer, rto,
                    clientVars, pc, due, inflight>>
    BY <1>4 DEF BrokerTake, BrokerSend, BrokerRepeat, BrokerExpire, Fault, Lose, BrokerCrash,
                nodeVars, tcpVars
  <2>2. QED
    BY <1>1, <2>1, NodeUntouched
<1>5. QED
  BY <1>2, <1>3, <1>4 DEF SystemNext

-----------------------------------------------------------------------------
(* The system                                                                *)

LEMMA SystemInitInv == SystemInit => SystemInv
<1> SUFFICES ASSUME SystemInit PROVE SystemInv
  OBVIOUS
<1>1. NodeInv
  BY NodeInitInv DEF SystemInit
<1>2. /\ toPeer = <<>> /\ toNode = <<>> /\ srv = Listening(lport) /\ tcpState = "CLOSED"
      /\ lport \in Ports
  BY DEF SystemInit, NodeInit, TcpInit
<1>3. NetTypeOK
  BY <1>2, EmptySeq, ListeningType DEF NetTypeOK
<1>4. NetInv
  <2>1. srv.port = lport
    BY <1>2 DEF Listening
  <2>2. QED
    BY <1>2, <2>1 DEF NetInv, Link, Forgotten
<1>5. QED
  BY <1>1, <1>3, <1>4 DEF SystemInv

LEMMA SystemStepInv == SystemInv /\ [SystemNext]_systemVars => SystemInv'
<1> SUFFICES ASSUME SystemInv, [SystemNext]_systemVars PROVE SystemInv'
  OBVIOUS
<1>0. SystemNext => NodeInv'
  BY NodeInSystem
<1>1. ASSUME NodeInv', NodeNow(toNode'), srv' = srv, received' = received,
             toNode' \in Seq(NodeFrames)
      PROVE  SystemInv'
  BY <1>1 DEF NodeNow, SystemInv, NetTypeOK, NetInv
<1>2. CASE SystemRx
  <2>1. /\ toNode # <<>> /\ Receive(Head(toNode)) /\ Observe /\ toNode' = Tail(toNode)
        /\ srv' = srv /\ received' = received
    BY <1>2 DEF SystemRx, RxStage
  <2>2. NodeInv' /\ toNode' \in Seq(NodeFrames)
    BY <1>0, <1>2, <2>1, HeadFacts DEF SystemNext
  <2>3. NodeNow(Tail(toNode))
    BY <2>1, <2>2, ReceiveStep
  <2>4. QED
    BY <1>1, <2>1, <2>2, <2>3
<1>3. CASE SystemRxNothing \/ SystemLoop \/ SystemTick
  <2>1. /\ toNode' = toNode /\ srv' = srv /\ received' = received
        /\ toNode' \in Seq(NodeFrames)
    BY <1>3 DEF SystemRxNothing, SystemLoop, SystemTick, SystemInv, NetTypeOK
  <2>2. NodeInv'
    BY <1>0, <1>3 DEF SystemNext
  <2>3. NodeNow(toNode)
    BY <1>3, <2>2, IdleStep, PeriodicStep, ProcessStep
       DEF SystemRxNothing, SystemLoop, SystemTick
  <2>4. QED
    BY <1>1, <2>1, <2>2, <2>3
<1>4. CASE BrokerTake
  BY <1>0, <1>4, TakeStep DEF SystemNext, SystemInv
<1>5. CASE BrokerSend \/ BrokerRepeat \/ BrokerExpire \/ Fault
  BY <1>0, <1>5, OutsideStep DEF SystemNext, SystemInv
<1>6. CASE UNCHANGED systemVars
  <2>1. NodeInv'
    BY <1>6, NodeUntouched DEF SystemInv, systemVars, nodeVars, tcpVars
  <2>2. Still /\ UNCHANGED <<toPeer, toNode, inflight, srv, received>>
    BY <1>6 DEF systemVars, nodeVars, tcpVars, clientVars, Still
  <2>3. NodeNow(toNode) /\ toNode \in Seq(NodeFrames)
    BY <2>2, SilentStep DEF SystemInv, NetInv, NetTypeOK
  <2>4. QED
    BY <1>1, <2>1, <2>2, <2>3
<1>7. QED
  BY <1>2, <1>3, <1>4, <1>5, <1>6 DEF SystemNext

(* What the node, the network and the broker agree on: the node's invariant, *)
(* the types of the frames, and the agreement of the two ends (Link).        *)
THEOREM SystemInvariant == SystemSpec => []SystemInv
<1>1. QED
  BY SystemInitInv, SystemStepInv, PTL DEF SystemSpec

(* MqttNode assumes that the packets that get past the sequence number check *)
(* conform; this broker's do, whatever is lost, repeated or late, across     *)
(* reconnections and restarts of the broker.                                 *)
THEOREM BrokerAlwaysConforms == SystemSpec => []BrokerConforms
<1>1. SystemInv => BrokerConforms
  <2>1. SUFFICES ASSUME SystemInv, NEW seg \in {toNode[i] : i \in DOMAIN toNode \cap {1}}
                 PROVE  Found(seg) /\ ~OutOfOrder(seg) => Conforming(seg)
    BY DEF BrokerConforms
  <2>2. toNode \in Seq(NodeFrames) /\ 1 \in DOMAIN toNode /\ seg = toNode[1]
    BY <2>1 DEF SystemInv, NetTypeOK
  <2>3. toNode # <<>> /\ seg = Head(toNode)
    BY <2>2, EmptySeq, HeadTailProperties, LenProperties
  <2>4. QED
    BY <2>1, <2>3, HeadHarmless DEF Harmless
<1>2. QED
  BY <1>1, SystemInvariant, PTL

(* A client that is connected is known to the broker's end of this very      *)
(* connection, as long as that end is open.  A broker that closed or crashed *)
(* has no such end, and the theorem says nothing of it.                      *)
THEOREM ConnectedStaysKnown == SystemSpec => []ConnectedIsKnown
<1>1. SystemInv => ConnectedIsKnown
  <2>1. SUFFICES ASSUME SystemInv, mqttState = "CONNECTED", srv.state = "ESTABLISHED"
                 PROVE  srv.up
    BY DEF ConnectedIsKnown
  <2>2. tcpState = "ESTABLISHED"
    BY <2>1 DEF SystemInv, NodeInv, SessionPhase, SessionMatchesTransport
  <2>3. Conn.phase = "CONNECTED"
    BY <2>1 DEF Conn
  <2>4. QED
    BY <2>1, <2>2, <2>3 DEF SystemInv, NetInv, Link, EstInv, TalkInv
<1>2. QED
  BY <1>1, SystemInvariant, PTL

(* uIP throws a segment away when its acknowledgement arrives, and the       *)
(* client forgets the units: the broker has taken exactly these.             *)
THEOREM AckedWasTaken == SystemSpec => AckedWasReceived
<1> DEFINE Step == /\ tcpState = "ESTABLISHED" /\ Outstanding /\ tcpState' = "ESTABLISHED"
                   /\ sndNxt' # sndNxt
                   => received = [port |-> lport, seq |-> sndNxt, data |-> inflight]
<1>1. SystemInv /\ [SystemNext]_systemVars => [Step]_systemVars
  <2>1. SUFFICES ASSUME SystemInv, SystemNext, tcpState = "ESTABLISHED", Outstanding,
                        tcpState' = "ESTABLISHED", sndNxt' # sndNxt
                 PROVE  received = [port |-> lport, seq |-> sndNxt, data |-> inflight]
    OBVIOUS
  <2>2. toNode # <<>> /\ ReceiveData(Head(toNode))
    <3>1. CASE SystemRx
      <4>1. Receive(Head(toNode)) /\ toNode # <<>>
        BY <3>1 DEF SystemRx, RxStage
      <4>2. ~ReceiveUnseen(Head(toNode))
        BY <2>1 DEF ReceiveUnseen, RxStray, RxOutOfOrder, RxFinTooEarly, RxWindow,
                    RxLastAckWait, tcpVars
      <4>3. ~ReceiveConnected(Head(toNode))
        BY <2>1 DEF ReceiveConnected, RxConnected, Accepted
      <4>4. ~ReceiveError(Head(toNode))
        BY <2>1 DEF ReceiveError, RxReset, RxRefused, RxFin, RxLastAck
      <4>5. QED
        BY <4>1, <4>2, <4>3, <4>4 DEF Receive
    <3>2. CASE SystemRxNothing \/ SystemTick
      BY <2>1, <3>2 DEF SystemRxNothing, SystemTick, RxNothing, NoPacket, Tick, tcpVars
    <3>3. CASE SystemLoop
      <4>1. CASE PeriodicStage
        BY <2>1, <4>1 DEF PeriodicStage, PeriodicTcp, TimerIdle, TimerCountDown, TimerGiveUp,
                          TimerRexmit, TimerPoll, tcpVars
      <4>2. CASE ProcessStage
        BY <2>1, <4>2 DEF ProcessStage, BrokerConnect, UipConnect, tcpVars
      <4>3. QED
        BY <3>3, <4>1, <4>2 DEF SystemLoop
    <3>4. CASE BrokerTake \/ BrokerSend \/ BrokerRepeat \/ BrokerExpire \/ Fault
      BY <2>1, <3>4 DEF BrokerTake, BrokerSend, BrokerRepeat, BrokerExpire, Fault, Lose,
                        BrokerCrash, nodeVars, tcpVars
    <3>5. QED
      BY <2>1, <3>1, <3>2, <3>3, <3>4 DEF SystemNext
  <2>3. Found(Head(toNode)) /\ AckData(Head(toNode))
    BY <2>1, <2>2 DEF ReceiveData, RxDeliver, Accepted, ProcessAck, AckSndNxt
  <2>4. /\ Conn.port = lport /\ Conn.snd = sndNxt /\ Conn.data = inflight
    BY <2>1 DEF Conn
  <2>5. Head(toNode) \in Confirming(Conn)
    <3>1. Head(toNode) \in Mine(Conn)
      BY <2>1, <2>2, <2>3, HeadFacts
    <3>2. QED
      BY <2>3, <2>4, <3>1 DEF Confirming, AckData
  <2>6. /\ Conn \in Ends /\ toNode \in Seq(NodeFrames)
        /\ EstInv(Conn, toPeer, toNode, srv, received)
    BY <2>1, ConnType DEF SystemInv, NetTypeOK, NetInv, Link
  <2>7. received = [port |-> Conn.port, seq |-> Conn.snd, data |-> Conn.data]
    BY <2>2, <2>5, <2>6, Confirms
  <2>8. QED
    BY <2>4, <2>7
<1>2. QED
  BY <1>1, SystemInvariant, PTL DEF SystemSpec, AckedWasReceived

(* What is proved of the node among arbitrary peers holds of the node among  *)
(* these: client and connection agree on the session, and a retransmission   *)
(* carries the units first sent.                                             *)
THEOREM SystemNode == SystemSpec => [](SessionMatchesTransport /\ SessionPhase /\ RetransmitSafe)
<1>1. SystemInv => SessionMatchesTransport /\ SessionPhase /\ RetransmitSafe
  BY DEF SystemInv, NodeInv
<1>2. QED
  BY <1>1, SystemInvariant, PTL

=============================================================================
