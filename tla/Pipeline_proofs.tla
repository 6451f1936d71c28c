--------------------------- MODULE Pipeline_proofs ---------------------------
(***************************************************************************)
(* Proofs about Pipeline, for any number of packets, any size of the       *)
(* queues and of the batch.                                                *)
(***************************************************************************)
EXTENDS Pipeline, SequenceTheorems, TLAPS

(***************************************************************************)
(* Types.  The type invariant needs to know where SSDDetection is in its   *)
(* batch.                                                                  *)
(***************************************************************************)
InBatch ==
    /\ detect = "send" => passed < Len(batch)
    /\ detect # "send" => passed = 0
    /\ detect = "infer" => batch # <<>>

\* Engine::SendData keeps a queue a queue of messages that fits.
LEMMA SentType ==
  ASSUME NEW q, IsQueue(q), NEW m \in Message
  PROVE  IsQueue(Sent(q, m)) /\ Refused(q, m) \subseteq Packet
<1> USE DEF IsQueue
<1>1. Append(q, m) \in Seq(Message) /\ Len(Append(q, m)) = Len(q) + 1
  OBVIOUS
<1>2. Len(Sent(q, m)) <= QueueSize
  BY <1>1, QueueAssumption, LenProperties DEF Sent
<1>3. m.num \in 0..MaxPacket
  BY DEF Message
<1> QED
  BY <1>1, <1>2, <1>3, PacketAssumption DEF Sent, Refused, Packet

\* What is taken from a queue is a message, and a queue is left.
LEMMA HeadType ==
  ASSUME NEW S, NEW q \in Seq(S), q # <<>>
  PROVE  /\ Head(q) \in S
         /\ Tail(q) \in Seq(S)
         /\ Len(Tail(q)) = Len(q) - 1
         /\ Len(q) \in Nat \ {0}
  OBVIOUS

\* Engine: a message leaves its input queue.
LEMMA TakeType ==
  ASSUME NEW q, IsQueue(q), q # <<>>
  PROVE  Head(q) \in Message /\ IsQueue(Tail(q))
BY HeadType, QueueAssumption DEF IsQueue

\* The messages that engines make.
LEMMA FreshType ==
  /\ \A n \in Packet : Fresh(n) \in Message
  /\ End \in Message
<1>1. \A n \in Packet : Fresh(n) \in Message
  BY PacketAssumption DEF Fresh, Message, Packet
<1>2. Fresh(0) \in [num : 0..MaxPacket, isEOS : BOOLEAN, looked : BOOLEAN, jpeg : BOOLEAN]
  BY PacketAssumption DEF Fresh
<1>3. End \in Message
  BY <1>2 DEF End, Fresh, Message
<1> QED
  BY <1>1, <1>3

\* The marks that SSDDetection and JpegEncode leave on a frame.
LEMMA MarkType ==
  ASSUME NEW m \in Message, NEW b \in BOOLEAN
  PROVE  [m EXCEPT !.looked = b] \in Message /\ [m EXCEPT !.jpeg = b] \in Message
BY DEF Message

\* SSDDetection: the network has looked at some frames of the batch.
LEMMA LookedType ==
  ASSUME NEW q \in Seq(Message),
         NEW r, r = [j \in DOMAIN q |-> [q[j] EXCEPT !.looked = j <= BatchSize]]
  PROVE  /\ r \in Seq(Message) /\ Len(r) = Len(q)
         /\ \A j \in DOMAIN q : r[j].num = q[j].num /\ r[j].isEOS = q[j].isEOS
<1>1. DOMAIN q = 1..Len(q) /\ Len(q) \in Nat
  BY LenProperties
<1>2. \A j \in DOMAIN q : r[j] \in Message
  <2> SUFFICES ASSUME NEW j \in DOMAIN q PROVE r[j] \in Message
    OBVIOUS
  <2>1. q[j] \in Message /\ (j <= BatchSize) \in BOOLEAN
    BY <1>1, ElementOfSeq
  <2>2. r[j] = [q[j] EXCEPT !.looked = j <= BatchSize]
    OBVIOUS
  <2> QED
    BY <2>1, <2>2, MarkType
<1>3. r \in [1..Len(q) -> Message]
  BY <1>1, <1>2
<1>4. r \in Seq(Message)
  BY <1>1, <1>3, SeqDef
<1>5. Len(r) = Len(q)
  BY <1>1, <1>3, <1>4, LenProperties
<1>6. \A j \in DOMAIN q : q[j] \in Message
  BY <1>1, ElementOfSeq
<1>7. \A j \in DOMAIN q : r[j].num = q[j].num /\ r[j].isEOS = q[j].isEOS
  BY <1>6 DEF Message
<1> QED
  BY <1>4, <1>5, <1>7

\* A message is a frame of the camera, or the end of the stream.
LEMMA NumType ==
  ASSUME NEW m \in Message
  PROVE  /\ m.isEOS \in BOOLEAN
         /\ m.num \in 0..MaxPacket
         /\ m.isEOS <=> m.num = 0
         /\ ~m.isEOS => m.num \in Packet
         /\ {m.num} \ {0} \subseteq Packet
BY PacketAssumption DEF Message, Packet

LEMMA TypeInit == Init => TypeOK /\ InBatch
<1> SUFFICES ASSUME Init PROVE TypeOK /\ InBatch
  OBVIOUS
<1>1. <<>> \in Seq(Message) /\ <<>> \in Seq(Packet) /\ Len(<<>>) = 0
  BY EmptySeq
<1>2. <<>> \in Seq(Message) /\ Len(<<>>) <= QueueSize
  BY <1>1, QueueAssumption
<1>3. read \in 0..MaxPacket /\ passed \in 0..Len(batch)
  BY <1>1, PacketAssumption DEF Init
<1>4. TypeOK
  <2>1. /\ IsQueue(toDecoder) /\ IsQueue(toDetect) /\ IsQueue(toEncode) /\ IsQueue(toDst)
        /\ input \in Seq(Message) /\ Len(input) <= 1
        /\ batch \in Seq(Message) /\ seen \in Seq(Message) /\ decoding \in Seq(Packet)
    BY <1>1, <1>2 DEF Init, IsQueue
  <2> QED
    BY <1>3, <2>1 DEF Init, TypeOK
<1> QED
  BY <1>4 DEF Init, InBatch

\* Every action keeps the types, whatever fails (the engines' Process, the
\* decoder's callback, the loop of StreamPuller).
LEMMA TypeStep == TypeOK /\ InBatch /\ [Next]_vars => TypeOK' /\ InBatch'
<1> SUFFICES ASSUME TypeOK, InBatch, [Next]_vars PROVE TypeOK' /\ InBatch'
  OBVIOUS
<1>1. CASE Start
  BY <1>1 DEF Start, TypeOK, InBatch, pulling, vdec, ssd, dst
<1>2. CASE Puller
  <2>1. read < MaxPacket => read + 1 \in Packet /\ read + 1 \in 0..MaxPacket
    BY PacketAssumption DEF TypeOK, Packet
  <2>2. CASE ReadPacket
    <3>1. IsQueue(toDecoder') /\ lost' \subseteq Packet /\ read' \in 0..MaxPacket
      BY <2>1, <2>2, SentType, FreshType DEF ReadPacket, TypeOK
    <3> QED
      BY <2>2, <3>1 DEF ReadPacket, TypeOK, InBatch, vdec, ssd, dst
  <2>3. CASE SkipPacket \/ AllocFails
    BY <2>1, <2>3 DEF SkipPacket, AllocFails, TypeOK, InBatch, vdec, ssd, dst
  <2>4. CASE SendEnd
    <3>1. IsQueue(toDecoder')
      BY <2>4, SentType, FreshType DEF SendEnd, TypeOK
    <3> QED
      BY <2>4, <3>1 DEF SendEnd, TypeOK, InBatch, vdec, ssd, dst
  <2> QED
    BY <1>2, <2>2, <2>3, <2>4 DEF Puller
<1>3. CASE VDec
  <2>1. CASE TakeInput
    <3>1. Head(toDecoder) \in Message /\ IsQueue(toDecoder')
      BY <2>1, TakeType DEF TakeInput, TypeOK
    <3>2. input' \in Seq(Message) /\ Len(input') <= 1
      BY <2>1, <3>1 DEF TakeInput
    <3>3. inputEOS' \in BOOLEAN
      BY <2>1, <3>1, NumType, Zenon DEF TakeInput
    <3> QED
      BY <2>1, <3>1, <3>2, <3>3 DEF TakeInput, TypeOK, InBatch, pulling, ssd, dst
  <2>2. CASE Submit \/ SubmitFails
    <3>1. input[1] \in Message
      BY <2>2 DEF TypeOK, Submit, SubmitFails
    <3>2. input' \in Seq(Message) /\ Len(input') <= 1
      <4>1. <<>> \in Seq(Message) /\ Len(<<>>) = 0
        BY EmptySeq
      <4> QED
        <5>1. input' = <<>>
          BY <2>2, Zenon DEF Submit, SubmitFails
        <5> QED
          BY <4>1, <5>1
    <3>3. decoding' \in Seq(Packet) /\ lost' \subseteq Packet
      <4>1. /\ ~input[1].isEOS => input[1].num \in Packet
            /\ {input[1].num} \ {0} \subseteq Packet
        BY <3>1, NumType
      <4>2. CASE Submit
        BY <4>1, <4>2 DEF Submit, TypeOK
      <4>3. CASE SubmitFails
        BY <4>1, <4>3 DEF SubmitFails, TypeOK
      <4> QED
        BY <2>2, <4>2, <4>3
    <3> QED
      BY <2>2, <3>2, <3>3 DEF Submit, SubmitFails, TypeOK, InBatch, pulling, ssd, dst
  <2> QED
    BY <1>3, <2>1, <2>2 DEF VDec
<1>4. CASE Decoder
  <2>1. decoding # <<>> => Head(decoding) \in Packet /\ Tail(decoding) \in Seq(Packet)
    BY HeadType DEF TypeOK
  <2>2. CASE Undecodable
    BY <2>1, <2>2 DEF Undecodable, TypeOK, InBatch, pulling, ssd, dst
  <2>3. CASE ConvertFails
    BY <2>3 DEF ConvertFails, TypeOK, InBatch, pulling, vdec, ssd, dst
  <2>4. CASE FrameCallback
    <3>1. IsQueue(toDetect') /\ lost' \subseteq Packet
      BY <2>1, <2>4, SentType, FreshType DEF FrameCallback, TypeOK
    <3> QED
      BY <2>1, <2>4, <3>1 DEF FrameCallback, TypeOK, InBatch, pulling, ssd, dst
  <2> QED
    BY <1>4, <2>2, <2>3, <2>4 DEF Decoder
<1>5. CASE Detection
  <2> USE DEF pulling, vdec, dst
  <2>1. CASE Collect
    <3>1. Head(toDetect) \in Message /\ IsQueue(toDetect')
      BY <2>1, TakeType DEF Collect, TypeOK
    <3>2. batch' \in Seq(Message) /\ batch' # <<>> /\ 0 \in 0..Len(batch')
      BY <2>1, <3>1 DEF Collect, TypeOK
    <3> QED
      BY <2>1, <3>1, <3>2 DEF Collect, TypeOK, InBatch
  <2>2. CASE Overrun
    BY <2>2 DEF Overrun, TypeOK, InBatch, ssd
  <2>3. CASE InferFails
    BY <2>3 DEF InferFails, TypeOK, InBatch
  <2>4. CASE Infer
    <3>1. batch' \in Seq(Message) /\ Len(batch') = Len(batch)
      BY <2>4, LookedType DEF Infer, TypeOK
    <3> QED
      BY <2>4, <3>1 DEF Infer, TypeOK, InBatch
  <2>5. CASE PassOn
    <3>1. batch[passed + 1] \in Message /\ passed + 1 \in 1..Len(batch)
      BY <2>5, ElementOfSeq DEF PassOn, TypeOK, InBatch
    <3>2. IsQueue(toEncode') /\ lost' \subseteq Packet
      BY <2>5, <3>1, SentType DEF PassOn, TypeOK
    <3>3. /\ batch' \in Seq(Message) /\ passed' \in 0..Len(batch')
          /\ InBatch'
      BY <2>5, <3>1, EmptySeq DEF PassOn, TypeOK, InBatch
    <3> QED
      BY <2>5, <3>2, <3>3 DEF PassOn, TypeOK
  <2> QED
    BY <1>5, <2>1, <2>2, <2>3, <2>4, <2>5 DEF Detection
<1>6. CASE Encoder
  <2> USE DEF pulling, vdec, ssd, dst, InBatch
  <2>1. toEncode # <<>> /\ IsQueue(Tail(toEncode)) /\ Head(toEncode) \in Message
    BY <1>6, TakeType DEF Encoder, Encode, EncodeFails, TypeOK
  <2>2. CASE Encode
    <3>1. IsQueue(toDst') /\ lost' \subseteq Packet
      BY <2>1, <2>2, SentType, MarkType DEF Encode, TypeOK
    <3> QED
      BY <2>1, <2>2, <3>1 DEF Encode, TypeOK
  <2>3. CASE EncodeFails
    <3>1. lost' \subseteq Packet
      BY <2>1, <2>3, NumType DEF EncodeFails, TypeOK
    <3> QED
      BY <2>1, <2>3, <3>1 DEF EncodeFails, TypeOK
  <2> QED
    BY <1>6, <2>2, <2>3 DEF Encoder
<1>7. CASE Finish
  <2>1. Head(toDst) \in Message /\ IsQueue(toDst')
    BY <1>7, TakeType DEF Finish, TypeOK
  <2>2. seen' \in Seq(Message) /\ told' \in BOOLEAN
    BY <1>7, <2>1, NumType DEF Finish, TypeOK
  <2> QED
    BY <1>7, <2>1, <2>2 DEF Finish, TypeOK, InBatch, pulling, vdec, ssd
<1>8. CASE UNCHANGED vars
  BY <1>8 DEF vars, TypeOK, InBatch, pulling, vdec, ssd, dst
<1> QED
  BY <1>1, <1>2, <1>3, <1>4, <1>5, <1>6, <1>7, <1>8 DEF Next

(* Every variable of the pipeline keeps its type, and no message is both a *)
(* frame and the end of the stream (VDecEngine::frameCallback).            *)
THEOREM TypeCorrect == Spec => [](TypeOK /\ InBatch)
BY TypeInit, TypeStep, PTL DEF Spec

-----------------------------------------------------------------------------
(***************************************************************************)
(* Order.  A frame in an engine is newer than every frame in an engine     *)
(* after it, and older than every frame in an engine before it.  Between   *)
(* two engines there is a number that separates them, and a step that      *)
(* moves a frame moves one such number.                                    *)
(***************************************************************************)

\* The frames of q from place "from" on rise, above lo and up to hi.
Rises(q, from, lo, hi) ==
    /\ \A j \in DOMAIN q : j >= from =>
          q[j].isEOS \/ (lo < q[j].num /\ q[j].num <= hi)
    /\ \A j, k \in DOMAIN q : j >= from /\ j < k =>
          q[j].isEOS \/ q[k].isEOS \/ q[j].num < q[k].num

\* The same for the numbers of packets in the decoder.
Climbs(q, lo, hi) ==
    /\ \A j \in DOMAIN q : lo < q[j] /\ q[j] <= hi
    /\ \A j, k \in DOMAIN q : j < k => q[j] < q[k]

\* c separates the frames in the places of the pipeline.
Separates(c) ==
    /\ c \in [1..7 -> Nat]
    /\ \A n \in 1..6 : c[n] <= c[n + 1]
    /\ c[7] <= read
    /\ \A j \in DOMAIN seen : ~seen[j].isEOS
    /\ Rises(seen, 1, 0, c[1])
    /\ Rises(toDst, 1, c[1], c[2])
    /\ Rises(toEncode, 1, c[2], c[3])
    /\ Rises(batch, passed + 1, c[3], c[4])
    /\ Rises(toDetect, 1, c[4], c[5])
    /\ Climbs(decoding, c[5], c[6])
    /\ Rises(input, 1, c[6], c[7])
    /\ Rises(toDecoder, 1, c[7], read)

InOrder == \E c : Separates(c)

\* A message newer than those of q joins them.
LEMMA AppendRises ==
  ASSUME NEW q \in Seq(Message), NEW m \in Message, NEW from \in Nat \ {0},
         NEW lo \in Nat, NEW mid \in Nat, NEW hi \in Nat, lo <= mid, mid <= hi,
         Rises(q, from, lo, mid), m.isEOS \/ (mid < m.num /\ m.num <= hi)
  PROVE  Rises(Append(q, m), from, lo, hi)
<1>1. /\ Append(q, m) \in Seq(Message) /\ Len(Append(q, m)) = Len(q) + 1
      /\ DOMAIN Append(q, m) = 1..(Len(q) + 1) /\ DOMAIN q = 1..Len(q)
      /\ Len(q) \in Nat
      /\ \A j \in 1..Len(q) : Append(q, m)[j] = q[j]
      /\ Append(q, m)[Len(q) + 1] = m
  OBVIOUS
<1>2. \A j \in 1..Len(q) : q[j].num \in Nat
  BY NumType, ElementOfSeq, PacketAssumption
<1>3. m.num \in Nat
  BY NumType, PacketAssumption
<1> DEFINE r == Append(q, m)
<1>4. /\ \A j \in 1..Len(q) : j >= from => q[j].isEOS \/ (lo < q[j].num /\ q[j].num <= mid)
      /\ \A j, k \in 1..Len(q) : j >= from /\ j < k =>
            q[j].isEOS \/ q[k].isEOS \/ q[j].num < q[k].num
  BY <1>1 DEF Rises
<1>5. r[Len(q) + 1] = m
  BY <1>1
<1>6. \A j \in 1..Len(q) : r[j].isEOS = q[j].isEOS /\ r[j].num = q[j].num
  BY <1>1
<1> HIDE DEF r
<1>8. \A j \in 1..(Len(q) + 1) : j >= from => r[j].isEOS \/ (lo < r[j].num /\ r[j].num <= hi)
  <2> SUFFICES ASSUME NEW j \in 1..(Len(q) + 1), j >= from
               PROVE  r[j].isEOS \/ (lo < r[j].num /\ r[j].num <= hi)
    OBVIOUS
  <2>1. CASE j = Len(q) + 1
    <3>1. m.isEOS \/ (lo < m.num /\ m.num <= hi)
      BY <1>3
    <3> QED
      BY <2>1, <3>1, <1>5, Zenon
  <2>2. CASE j \in 1..Len(q)
    BY <2>2, <1>2, <1>4, <1>6
  <2> QED
    BY <1>1, <2>1, <2>2
<1>9. \A j, k \in 1..(Len(q) + 1) : j >= from /\ j < k =>
         r[j].isEOS \/ r[k].isEOS \/ r[j].num < r[k].num
  <2> SUFFICES ASSUME NEW j \in 1..(Len(q) + 1), NEW k \in 1..(Len(q) + 1), j >= from, j < k
               PROVE  r[j].isEOS \/ r[k].isEOS \/ r[j].num < r[k].num
    OBVIOUS
  <2>1. j \in 1..Len(q)
    BY <1>1
  <2>2. CASE k = Len(q) + 1
    BY <2>1, <2>2, <1>2, <1>3, <1>4, <1>5, <1>6
  <2>3. CASE k \in 1..Len(q)
    BY <2>1, <2>3, <1>4, <1>6
  <2> QED
    BY <1>1, <2>2, <2>3
<1> QED
  BY <1>1, <1>8, <1>9 DEF Rises, r

\* The bounds of a sequence may be wider.
LEMMA Wider ==
  ASSUME NEW q \in Seq(Message), NEW from \in Nat \ {0},
         NEW lo \in Nat, NEW hi \in Nat, NEW low \in Nat, NEW high \in Nat,
         low <= lo, hi <= high, Rises(q, from, lo, hi)
  PROVE  Rises(q, from, low, high)
<1>1. \A j \in DOMAIN q : q[j].num \in Nat
  BY NumType, ElementOfSeq, LenProperties, PacketAssumption
<1> QED
  BY <1>1 DEF Rises

\* Engine::SendData: a newer message is sent to q, or dropped.
LEMMA SentRises ==
  ASSUME NEW q \in Seq(Message), NEW m \in Message,
         NEW lo \in Nat, NEW mid \in Nat, NEW hi \in Nat, lo <= mid, mid <= hi,
         Rises(q, 1, lo, mid), m.isEOS \/ (mid < m.num /\ m.num <= hi)
  PROVE  Rises(Sent(q, m), 1, lo, hi)
<1>1. Rises(Append(q, m), 1, lo, hi)
  BY AppendRises
<1>2. Rises(q, 1, lo, hi)
  BY Wider
<1> QED
  BY <1>1, <1>2 DEF Sent

\* The first message leaves q: the others are newer.
LEMMA TailRises ==
  ASSUME NEW q \in Seq(Message), q # <<>>, NEW lo \in Nat, NEW hi \in Nat,
         Rises(q, 1, lo, hi)
  PROVE  /\ Head(q).isEOS \/ (lo < Head(q).num /\ Head(q).num <= hi)
         /\ Rises(Tail(q), 1, lo, hi)
         /\ ~Head(q).isEOS => Rises(Tail(q), 1, Head(q).num, hi)
<1>1. /\ Len(q) \in Nat \ {0} /\ DOMAIN q = 1..Len(q)
      /\ Head(q) = q[1]
      /\ DOMAIN Tail(q) = 1..(Len(q) - 1)
      /\ \A j \in 1..(Len(q) - 1) : Tail(q)[j] = q[j + 1]
  OBVIOUS
<1>2. \A j \in 1..Len(q) : q[j].num \in Nat
  BY NumType, ElementOfSeq, PacketAssumption
<1>3. Head(q).isEOS \/ (lo < Head(q).num /\ Head(q).num <= hi)
  BY <1>1 DEF Rises
<1>4. Rises(Tail(q), 1, lo, hi)
  BY <1>1, <1>2, SMTT(30) DEF Rises
<1>5. ASSUME ~Head(q).isEOS PROVE Rises(Tail(q), 1, Head(q).num, hi)
  <2>1. \A j \in 2..Len(q) : q[j].isEOS \/ (q[1].num < q[j].num /\ q[j].num <= hi)
    BY <1>1, <1>2, <1>5 DEF Rises
  <2>2. \A j, k \in 2..Len(q) : j < k => q[j].isEOS \/ q[k].isEOS \/ q[j].num < q[k].num
    BY <1>1 DEF Rises
  <2> QED
    BY <1>1, <2>1, <2>2, SMTT(30) DEF Rises
<1> QED
  BY <1>3, <1>4, <1>5

\* The same two for the decoder.
LEMMA AppendClimbs ==
  ASSUME NEW q \in Seq(Packet), NEW n \in Packet,
         NEW lo \in Nat, NEW mid \in Nat, NEW hi \in Nat, lo <= mid, mid <= hi,
         Climbs(q, lo, mid), mid < n, n <= hi
  PROVE  Climbs(Append(q, n), lo, hi)
<1>1. /\ DOMAIN Append(q, n) = 1..(Len(q) + 1) /\ DOMAIN q = 1..Len(q)
      /\ Len(q) \in Nat
      /\ \A j \in 1..Len(q) : Append(q, n)[j] = q[j] /\ q[j] \in Nat
      /\ Append(q, n)[Len(q) + 1] = n
      /\ n \in Nat
  BY ElementOfSeq, PacketAssumption DEF Packet
<1> QED
  BY <1>1 DEF Climbs

LEMMA TailClimbs ==
  ASSUME NEW q \in Seq(Packet), q # <<>>, NEW lo \in Nat, NEW hi \in Nat,
         Climbs(q, lo, hi)
  PROVE  /\ lo < Head(q) /\ Head(q) <= hi
         /\ Climbs(Tail(q), Head(q), hi) /\ Climbs(Tail(q), lo, hi)
<1>1. /\ Len(q) \in Nat \ {0} /\ DOMAIN q = 1..Len(q)
      /\ Head(q) = q[1]
      /\ DOMAIN Tail(q) = 1..(Len(q) - 1)
      /\ \A j \in 1..(Len(q) - 1) : Tail(q)[j] = q[j + 1]
  OBVIOUS
<1> QED
  BY <1>1, SMTT(30) DEF Climbs

\* A sequence without messages rises.
LEMMA EmptyRises == \A from, lo, hi : Rises(<<>>, from, lo, hi)
BY DEF Rises

\* SSDDetection::postProcessDetection: the next frame of the batch is sent on.
LEMMA NextRises ==
  ASSUME NEW q \in Seq(Message), NEW from \in 1..Len(q), NEW lo \in Nat, NEW hi \in Nat,
         Rises(q, from, lo, hi)
  PROVE  /\ q[from].isEOS \/ (lo < q[from].num /\ q[from].num <= hi)
         /\ Rises(q, from + 1, lo, hi)
         /\ ~q[from].isEOS => Rises(q, from + 1, q[from].num, hi)
<1>1. DOMAIN q = 1..Len(q) /\ Len(q) \in Nat
  BY LenProperties
<1> QED
  BY <1>1 DEF Rises

\* A number that separates two engines moves up.
LEMMA Move ==
  ASSUME NEW c \in [1..7 -> Nat], \A j \in 1..6 : c[j] <= c[j + 1],
         NEW k \in 1..7, NEW n \in Nat, c[k] <= n, k < 7 => n <= c[k + 1],
         NEW d, d = [c EXCEPT ![k] = n]
  PROVE  /\ d \in [1..7 -> Nat]
         /\ \A j \in 1..6 : d[j] <= d[j + 1]
         /\ d[k] = n
         /\ \A j \in 1..7 \ {k} : d[j] = c[j]
<1>1. d \in [1..7 -> Nat] /\ d[k] = n /\ \A j \in 1..7 \ {k} : d[j] = c[j]
  OBVIOUS
<1>2. ASSUME NEW j \in 1..6 PROVE d[j] <= d[j + 1]
  BY <1>1
<1> QED
  BY <1>1, <1>2

LEMMA OrderInit == Init => InOrder
<1> SUFFICES ASSUME Init PROVE InOrder
  OBVIOUS
<1> DEFINE c == [n \in 1..7 |-> 0]
<1>1. /\ seen = <<>> /\ toDst = <<>> /\ toEncode = <<>> /\ batch = <<>>
      /\ toDetect = <<>> /\ decoding = <<>> /\ input = <<>> /\ toDecoder = <<>>
      /\ read = 0
  BY DEF Init
<1>2. Climbs(decoding, c[5], c[6])
  BY <1>1 DEF Climbs
<1>3. Separates(c)
  BY <1>1, <1>2, EmptyRises DEF Separates
<1> QED
  BY <1>3 DEF InOrder

\* StreamPuller: a packet is newer than all before it.
LEMMA OrderPuller ==
  ASSUME TypeOK, NEW c, Separates(c), Puller
  PROVE  InOrder'
<1> USE DEF vdec, ssd, dst
<1>1. /\ toDecoder \in Seq(Message) /\ read \in Nat /\ c[7] \in Nat /\ c[7] <= read
      /\ Rises(toDecoder, 1, c[7], read)
  BY PacketAssumption DEF TypeOK, IsQueue, Separates
<1>2. CASE ReadPacket
  <2> DEFINE m == Fresh(read + 1)
  <2>1. m \in Message /\ m.num = read + 1
    BY <1>2, FreshType, PacketAssumption DEF ReadPacket, TypeOK, Packet, Fresh
  <2>2. Rises(toDecoder', 1, c[7], read')
    BY <1>1, <1>2, <2>1, SentRises DEF ReadPacket
  <2> QED
    BY <1>1, <1>2, <2>2, SMTT(30) DEF ReadPacket, Separates, InOrder
<1>3. CASE SkipPacket \/ AllocFails
  <2>1. Rises(toDecoder', 1, c[7], read')
    BY <1>1, <1>3, Wider DEF SkipPacket, AllocFails
  <2> QED
    <3>1. /\ c[7] <= read'
          /\ UNCHANGED <<toDst, toEncode, batch, passed, toDetect, decoding, input, seen>>
      BY <1>1, <1>3 DEF SkipPacket, AllocFails
    <3>2. Separates(c)'
      BY <2>1, <3>1 DEF Separates
    <3> QED
      BY <3>2 DEF InOrder
<1>4. CASE SendEnd
  <2>1. Rises(toDecoder', 1, c[7], read)
    BY <1>1, <1>4, SentRises, FreshType DEF SendEnd, End, Fresh
  <2> QED
    BY <1>1, <1>4, <2>1 DEF SendEnd, Separates, InOrder
<1> QED
  BY <1>2, <1>3, <1>4 DEF Puller

\* VDecEngine::Process: a packet passes from the queue to the decoder.
LEMMA OrderVDec ==
  ASSUME TypeOK, NEW c, Separates(c), VDec
  PROVE  InOrder'
<1> USE DEF pulling, ssd, dst
<1>1. /\ c \in [1..7 -> Nat] /\ \A n \in 1..6 : c[n] <= c[n + 1]
      /\ c[7] <= read /\ read \in Nat
  BY PacketAssumption DEF TypeOK, Separates
<1>2. CASE TakeInput
  <2>1. PICK m \in Message : m = Head(toDecoder)
    BY <1>2, TakeType DEF TakeInput, TypeOK
  <2>2. /\ m.isEOS \/ (c[7] < m.num /\ m.num <= read)
        /\ Rises(toDecoder', 1, c[7], read)
        /\ ~m.isEOS => Rises(toDecoder', 1, m.num, read)
    <3>1. /\ toDecoder \in Seq(Message) /\ toDecoder # <<>> /\ toDecoder' = Tail(toDecoder)
          /\ Rises(toDecoder, 1, c[7], read) /\ c[7] \in Nat
      BY <1>1, <1>2 DEF TakeInput, TypeOK, IsQueue, Separates
    <3> QED
      BY <1>1, <2>1, <3>1, TailRises
  <2>3. input' = <<m>> /\ UNCHANGED <<read, decoding, toDetect, batch, passed, toEncode, toDst, seen>>
    BY <1>2, <2>1 DEF TakeInput
  <2>4. CASE m.isEOS
    <3>1. Rises(input', 1, c[6], c[7])
      BY <2>3, <2>4 DEF Rises
    <3> QED
      BY <2>2, <2>3, <3>1 DEF Separates, InOrder
  <2>5. CASE ~m.isEOS
    <3> DEFINE d == [c EXCEPT ![7] = m.num]
    <3>1. m.num \in Nat /\ c[7] <= m.num
      BY <1>1, <2>2, <2>5, NumType
    <3>2. /\ d \in [1..7 -> Nat] /\ \A j \in 1..6 : d[j] <= d[j + 1]
          /\ d[7] = m.num /\ \A j \in 1..7 \ {7} : d[j] = c[j]
      BY <1>1, <3>1, Move
    <3> HIDE DEF d
    <3>3. Rises(input', 1, d[6], d[7])
      BY <1>1, <2>2, <2>3, <2>5, <3>1, <3>2 DEF Rises
    <3>4. Separates(d)'
      BY <2>2, <2>3, <2>5, <3>2, <3>3 DEF Separates
    <3> QED
      BY <3>4 DEF InOrder
  <2> QED
    BY <2>4, <2>5
<1>3. CASE Submit \/ SubmitFails
  <2>1. PICK m \in Message : m = input[1]
    BY <1>3, ElementOfSeq DEF TypeOK, Submit, SubmitFails
  <2>2. m.isEOS \/ (c[6] < m.num /\ m.num <= c[7])
    BY <1>3, <2>1, SMTT(30) DEF TypeOK, Submit, SubmitFails, Separates, Rises
  <2>3. /\ Rises(input', 1, c[6], c[7]) /\ \A lo, hi : Rises(input', 1, lo, hi)
        /\ UNCHANGED <<read, toDecoder, toDetect, batch, passed, toEncode, toDst, seen>>
    BY <1>3, EmptyRises DEF Submit, SubmitFails
  <2>4. CASE Submit /\ ~m.isEOS
    <3>1. /\ decoding \in Seq(Packet) /\ decoding' = Append(decoding, m.num)
          /\ Climbs(decoding, c[5], c[6]) /\ m.num \in Packet /\ m.num \in Nat
      <4>1. m.num \in Packet /\ m.num \in Nat
        BY <2>4, NumType, PacketAssumption
      <4>2. decoding' = Append(decoding, m.num)
        BY <2>1, <2>4 DEF Submit
      <4> QED
        BY <4>1, <4>2 DEF TypeOK, Separates
    <3> DEFINE d == [c EXCEPT ![6] = m.num]
    <3>2. /\ d \in [1..7 -> Nat] /\ \A j \in 1..6 : d[j] <= d[j + 1]
          /\ d[6] = m.num /\ \A j \in 1..7 \ {6} : d[j] = c[j]
      <4>1. c[6] <= m.num /\ m.num <= c[6 + 1]
        BY <1>1, <2>2, <2>4, <3>1, SMTT(30)
      <4> QED
        BY <1>1, <3>1, <4>1, Move, SMTT(30)
    <3> HIDE DEF d
    <3>3. Climbs(decoding', c[5], m.num)
      <4>1. /\ c[5] \in Nat /\ c[6] \in Nat /\ c[5] <= c[6] /\ c[6] <= m.num
            /\ c[6] < m.num /\ m.num <= m.num
        BY <1>1, <2>2, <2>4, <3>1, SMTT(30)
      <4>2. Climbs(Append(decoding, m.num), c[5], m.num)
        BY <3>1, <4>1, AppendClimbs
      <4> QED
        BY <3>1, <4>2
    <3>4. Separates(d)'
      BY <1>1, <2>3, <3>2, <3>3 DEF Separates
    <3> QED
      BY <3>4 DEF InOrder
  <2>5. CASE SubmitFails \/ m.isEOS
    <3>1. decoding' = decoding
      BY <1>3, <2>1, <2>5 DEF Submit, SubmitFails
    <3> QED
      BY <2>3, <3>1 DEF Separates, InOrder
  <2> QED
    BY <1>3, <2>4, <2>5
<1> QED
  BY <1>2, <1>3 DEF VDec

\* VDecEngine::frameCallback: a frame passes from the decoder to SSDDetection.
LEMMA OrderDecoder ==
  ASSUME TypeOK, NEW c, Separates(c), Decoder
  PROVE  InOrder'
<1> USE DEF pulling, ssd, dst
<1>1. /\ c \in [1..7 -> Nat] /\ \A n \in 1..6 : c[n] <= c[n + 1]
      /\ c[4] \in Nat /\ c[5] \in Nat /\ c[6] \in Nat /\ c[4] <= c[5]
  BY DEF Separates
<1>2. CASE ConvertFails
  <2>1. UNCHANGED <<read, toDecoder, input, decoding, toDetect, batch, passed,
                    toEncode, toDst, seen>>
    BY <1>2 DEF ConvertFails, vdec
  <2> QED
    BY <2>1 DEF Separates, InOrder
<1>3. CASE Undecodable \/ FrameCallback
  <2>1. decoding # <<>> /\ decoding' = Tail(decoding) /\ decoding \in Seq(Packet)
    BY <1>3 DEF Undecodable, FrameCallback, TypeOK
  <2>2. PICK p \in Packet : p = Head(decoding)
    BY <2>1, HeadType
  <2>3. /\ c[5] < p /\ p <= c[6] /\ p \in Nat
        /\ Climbs(decoding', p, c[6]) /\ Climbs(decoding', c[5], c[6])
    <3>1. Climbs(decoding, c[5], c[6])
      BY DEF Separates
    <3>2. /\ c[5] < p /\ p <= c[6]
          /\ Climbs(Tail(decoding), p, c[6]) /\ Climbs(Tail(decoding), c[5], c[6])
      BY <1>1, <2>1, <2>2, <3>1, TailClimbs
    <3>3. p \in Nat
      BY PacketAssumption DEF Packet
    <3> QED
      BY <2>1, <3>2, <3>3
  <2>4. UNCHANGED <<read, toDecoder, input, batch, passed, toEncode, toDst, seen>>
    BY <1>3 DEF Undecodable, FrameCallback
  <2>5. CASE Undecodable
    <3>1. toDetect' = toDetect
      BY <2>5 DEF Undecodable
    <3> QED
      BY <2>3, <2>4, <3>1 DEF Separates, InOrder
  <2>6. CASE FrameCallback
    <3> DEFINE d == [c EXCEPT ![5] = p]
    <3>1. /\ d \in [1..7 -> Nat] /\ \A j \in 1..6 : d[j] <= d[j + 1]
          /\ d[5] = p /\ \A j \in 1..7 \ {5} : d[j] = c[j]
      BY <1>1, <2>3, Move
    <3> HIDE DEF d
    <3>2. PICK m \in Message : m = Fresh(p)
      BY FreshType
    <3>3. m.num = p
      BY <3>2 DEF Fresh
    <3>4. toDetect' = Sent(toDetect, m)
      BY <2>2, <2>6, <3>2 DEF FrameCallback
    <3>5. toDetect \in Seq(Message) /\ Rises(toDetect, 1, c[4], c[5])
      BY DEF TypeOK, IsQueue, Separates
    <3>6. Rises(toDetect', 1, c[4], p)
      BY <1>1, <2>3, <3>3, <3>4, <3>5, SentRises
    <3>7. Separates(d)'
      BY <2>3, <2>4, <3>1, <3>6 DEF Separates
    <3> QED
      BY <3>7 DEF InOrder
  <2> QED
    BY <1>3, <2>5, <2>6
<1> QED
  BY <1>2, <1>3 DEF Decoder

\* SSDDetection::Process: a frame joins the batch, the batch is looked at, and
\* its frames pass to JpegEncode.
LEMMA OrderDetection ==
  ASSUME TypeOK, InBatch, NEW c, Separates(c), Detection
  PROVE  InOrder'
<1> USE DEF pulling, vdec, dst
<1>1. /\ c \in [1..7 -> Nat] /\ \A n \in 1..6 : c[n] <= c[n + 1]
      /\ c[2] \in Nat /\ c[3] \in Nat /\ c[4] \in Nat /\ c[5] \in Nat
      /\ c[2] <= c[3] /\ c[3] <= c[4] /\ c[4] <= c[5]
  BY DEF Separates
<1>2. /\ batch \in Seq(Message) /\ toDetect \in Seq(Message) /\ toEncode \in Seq(Message)
      /\ passed \in Nat /\ Rises(batch, passed + 1, c[3], c[4])
      /\ Rises(toDetect, 1, c[4], c[5]) /\ Rises(toEncode, 1, c[2], c[3])
  BY LenProperties DEF TypeOK, IsQueue, Separates
<1>3. CASE Collect
  <2>1. PICK m \in Message : m = Head(toDetect)
    BY <1>3, TakeType DEF Collect, TypeOK
  <2>2. /\ m.isEOS \/ (c[4] < m.num /\ m.num <= c[5])
        /\ Rises(toDetect', 1, c[4], c[5])
        /\ ~m.isEOS => Rises(toDetect', 1, m.num, c[5])
    <3>1. toDetect # <<>> /\ toDetect' = Tail(toDetect)
      BY <1>3 DEF Collect
    <3> QED
      BY <1>1, <1>2, <2>1, <3>1, TailRises
  <2>3. /\ batch' = Append(batch, m)
        /\ UNCHANGED <<read, toDecoder, input, decoding, passed, toEncode, toDst, seen>>
    BY <1>3, <2>1 DEF Collect
  <2>4. m.num \in Nat
    BY NumType, PacketAssumption
  <2>5. CASE m.isEOS
    <3>1. Rises(batch', passed + 1, c[3], c[4])
      <4>1. passed + 1 \in Nat \ {0} /\ c[4] <= c[4]
        BY <1>1, <1>2, SMTT(30)
      <4>2. Rises(Append(batch, m), passed + 1, c[3], c[4])
        BY <1>1, <1>2, <2>5, <4>1, AppendRises
      <4> QED
        BY <2>3, <4>2
    <3> QED
      BY <2>2, <2>3, <3>1 DEF Separates, InOrder
  <2>6. CASE ~m.isEOS
    <3> DEFINE d == [c EXCEPT ![4] = m.num]
    <3>1. /\ d \in [1..7 -> Nat] /\ \A j \in 1..6 : d[j] <= d[j + 1]
          /\ d[4] = m.num /\ \A j \in 1..7 \ {4} : d[j] = c[j]
      BY <1>1, <2>2, <2>4, <2>6, Move
    <3> HIDE DEF d
    <3>2. Rises(batch', passed + 1, c[3], m.num)
      <4>1. passed + 1 \in Nat \ {0}
        BY <1>2
      <4>2. c[4] < m.num /\ c[4] <= m.num /\ m.num <= m.num
        BY <1>1, <2>2, <2>4, <2>6
      <4>3. Rises(Append(batch, m), passed + 1, c[3], m.num)
        BY <1>1, <1>2, <2>4, <4>1, <4>2, AppendRises
      <4> QED
        BY <2>3, <4>3
    <3>3. Separates(d)'
      BY <2>2, <2>3, <2>6, <3>1, <3>2 DEF Separates
    <3> QED
      BY <3>3 DEF InOrder
  <2> QED
    BY <2>5, <2>6
<1>4. CASE Overrun \/ InferFails
  <2>1. UNCHANGED <<read, toDecoder, input, decoding, toDetect, batch, passed,
                    toEncode, toDst, seen>>
    BY <1>4 DEF Overrun, InferFails, ssd
  <2> QED
    BY <2>1 DEF Separates, InOrder
<1>5. CASE Infer
  <2>1. PICK r : r = [j \in DOMAIN batch |-> [batch[j] EXCEPT !.looked = j <= BatchSize]]
    OBVIOUS
  <2>2. /\ batch' = r
        /\ UNCHANGED <<read, toDecoder, input, decoding, toDetect, passed,
                       toEncode, toDst, seen>>
    BY <1>5, <2>1 DEF Infer
  <2>3. /\ r \in Seq(Message) /\ Len(r) = Len(batch)
        /\ \A j \in DOMAIN batch : r[j].num = batch[j].num /\ r[j].isEOS = batch[j].isEOS
    BY <1>2, <2>1, LookedType
  <2>4. DOMAIN r = DOMAIN batch
    BY <2>1
  <2>5. Rises(r, passed + 1, c[3], c[4])
    BY <1>2, <2>3, <2>4 DEF Rises
  <2> QED
    BY <2>2, <2>5 DEF Separates, InOrder
<1>6. CASE PassOn
  <2>1. passed + 1 \in 1..Len(batch)
    BY <1>2, <1>6, LenProperties DEF PassOn, InBatch
  <2>2. PICK m \in Message : m = batch[passed + 1]
    BY <1>2, <2>1, ElementOfSeq
  <2>3. /\ m.isEOS \/ (c[3] < m.num /\ m.num <= c[4])
        /\ Rises(batch, passed + 2, c[3], c[4])
        /\ ~m.isEOS => Rises(batch, passed + 2, m.num, c[4])
    <3>1. (passed + 1) + 1 = passed + 2
      BY <1>2
    <3> QED
      BY <1>1, <1>2, <2>1, <2>2, <3>1, NextRises
  <2>4. /\ toEncode' = Sent(toEncode, m)
        /\ UNCHANGED <<read, toDecoder, input, decoding, toDetect, toDst, seen>>
    BY <1>6, <2>2 DEF PassOn
  <2>5. \/ batch' = <<>>
        \/ batch' = batch /\ passed' + 1 = passed + 2
    BY <1>2, <1>6 DEF PassOn
  <2>6. /\ Rises(batch', passed' + 1, c[3], c[4])
        /\ ~m.isEOS => Rises(batch', passed' + 1, m.num, c[4])
    <3>1. CASE batch' = <<>>
      BY <3>1, EmptyRises
    <3>2. CASE batch' = batch /\ passed' + 1 = passed + 2
      BY <2>3, <3>2
    <3> QED
      BY <2>5, <3>1, <3>2
  <2>7. m.num \in Nat
    BY NumType, PacketAssumption
  <2>8. CASE m.isEOS
    <3>1. Rises(toEncode', 1, c[2], c[3])
      BY <1>1, <1>2, <2>4, <2>8, SentRises, SMTT(30)
    <3> QED
      BY <2>4, <2>6, <3>1 DEF Separates, InOrder
  <2>9. CASE ~m.isEOS
    <3> DEFINE d == [c EXCEPT ![3] = m.num]
    <3>1. /\ d \in [1..7 -> Nat] /\ \A j \in 1..6 : d[j] <= d[j + 1]
          /\ d[3] = m.num /\ \A j \in 1..7 \ {3} : d[j] = c[j]
      BY <1>1, <2>3, <2>7, <2>9, Move
    <3> HIDE DEF d
    <3>2. Rises(toEncode', 1, c[2], m.num)
      <4>1. c[3] < m.num /\ c[3] <= m.num /\ m.num <= m.num
        BY <1>1, <2>3, <2>7, <2>9
      <4>2. Rises(Sent(toEncode, m), 1, c[2], m.num)
        BY <1>1, <1>2, <2>7, <4>1, SentRises
      <4> QED
        BY <2>4, <4>2
    <3>3. Separates(d)'
      BY <2>4, <2>6, <2>9, <3>1, <3>2 DEF Separates
    <3> QED
      BY <3>3 DEF InOrder
  <2> QED
    BY <2>8, <2>9
<1> QED
  BY <1>3, <1>4, <1>5, <1>6 DEF Detection

\* JpegEncode::Process: a frame passes to DstEngine, or is dropped.
LEMMA OrderEncoder ==
  ASSUME TypeOK, NEW c, Separates(c), Encoder
  PROVE  InOrder'
<1> USE DEF pulling, vdec, ssd, dst
<1>1. /\ c \in [1..7 -> Nat] /\ \A n \in 1..6 : c[n] <= c[n + 1]
      /\ c[1] \in Nat /\ c[2] \in Nat /\ c[3] \in Nat
      /\ c[1] <= c[2] /\ c[2] <= c[3]
  BY DEF Separates
<1>2. PICK m \in Message : m = Head(toEncode)
  BY TakeType DEF Encoder, Encode, EncodeFails, TypeOK
<1>3. /\ m.isEOS \/ (c[2] < m.num /\ m.num <= c[3])
      /\ Rises(toEncode', 1, c[2], c[3])
      /\ ~m.isEOS => Rises(toEncode', 1, m.num, c[3])
  <2>1. /\ toEncode # <<>> /\ toEncode' = Tail(toEncode)
        /\ toEncode \in Seq(Message) /\ Rises(toEncode, 1, c[2], c[3])
    BY DEF Encoder, Encode, EncodeFails, TypeOK, IsQueue, Separates
  <2> QED
    BY <1>1, <1>2, <2>1, TailRises
<1>4. UNCHANGED <<read, toDecoder, input, decoding, toDetect, batch, passed, seen>>
  BY DEF Encoder, Encode, EncodeFails
<1>5. m.num \in Nat
  BY NumType, PacketAssumption
<1>6. toDst \in Seq(Message) /\ Rises(toDst, 1, c[1], c[2])
  BY DEF TypeOK, IsQueue, Separates
<1>7. CASE EncodeFails
  <2>1. toDst' = toDst
    BY <1>7 DEF EncodeFails
  <2> QED
    BY <1>3, <1>4, <2>1 DEF Separates, InOrder
<1>8. CASE Encode
  <2>1. PICK r \in Message : r = IF m.isEOS THEN m ELSE [m EXCEPT !.jpeg = TRUE]
    BY MarkType
  <2>2. r.num = m.num /\ r.isEOS = m.isEOS
    BY <2>1 DEF Message
  <2>3. toDst' = Sent(toDst, r)
    BY <1>2, <1>8, <2>1 DEF Encode
  <2>4. CASE m.isEOS
    <3>1. Rises(toDst', 1, c[1], c[2])
      <4>1. r.isEOS /\ c[2] <= c[2]
        BY <1>1, <2>2, <2>4
      <4>2. Rises(Sent(toDst, r), 1, c[1], c[2])
        BY <1>1, <1>6, <4>1, SentRises
      <4> QED
        BY <2>3, <4>2
    <3> QED
      BY <1>3, <1>4, <3>1 DEF Separates, InOrder
  <2>5. CASE ~m.isEOS
    <3> DEFINE d == [c EXCEPT ![2] = m.num]
    <3>1. /\ d \in [1..7 -> Nat] /\ \A j \in 1..6 : d[j] <= d[j + 1]
          /\ d[2] = m.num /\ \A j \in 1..7 \ {2} : d[j] = c[j]
      BY <1>1, <1>3, <1>5, <2>5, Move
    <3> HIDE DEF d
    <3>2. Rises(toDst', 1, c[1], m.num)
      BY <1>1, <1>3, <1>5, <1>6, <2>2, <2>3, <2>5, SentRises, SMTT(30)
    <3>3. Separates(d)'
      BY <1>3, <1>4, <2>5, <3>1, <3>2 DEF Separates
    <3> QED
      BY <3>3 DEF InOrder
  <2> QED
    BY <2>4, <2>5
<1> QED
  BY <1>7, <1>8 DEF Encoder

\* DstEngine::Process: a frame is processed.
LEMMA OrderFinish ==
  ASSUME TypeOK, NEW c, Separates(c), Finish
  PROVE  InOrder'
<1> USE DEF pulling, vdec, ssd
<1>1. /\ c \in [1..7 -> Nat] /\ \A n \in 1..6 : c[n] <= c[n + 1]
      /\ c[1] \in Nat /\ c[2] \in Nat /\ c[1] <= c[2]
  BY DEF Separates
<1>2. PICK m \in Message : m = Head(toDst)
  BY TakeType DEF Finish, TypeOK
<1>3. /\ m.isEOS \/ (c[1] < m.num /\ m.num <= c[2])
      /\ Rises(toDst', 1, c[1], c[2])
      /\ ~m.isEOS => Rises(toDst', 1, m.num, c[2])
  <2>1. /\ toDst # <<>> /\ toDst' = Tail(toDst)
        /\ toDst \in Seq(Message) /\ Rises(toDst, 1, c[1], c[2])
    BY DEF Finish, TypeOK, IsQueue, Separates
  <2> QED
    BY <1>1, <1>2, <2>1, TailRises
<1>4. /\ UNCHANGED <<read, toDecoder, input, decoding, toDetect, batch, passed, toEncode>>
      /\ seen' = IF m.isEOS THEN seen ELSE Append(seen, m)
  BY <1>2 DEF Finish
<1>5. m.num \in Nat
  BY NumType, PacketAssumption
<1>6. seen \in Seq(Message) /\ Rises(seen, 1, 0, c[1]) /\ \A j \in DOMAIN seen : ~seen[j].isEOS
  BY DEF TypeOK, Separates
<1>7. CASE m.isEOS
  <2>1. seen' = seen
    BY <1>4, <1>7
  <2> QED
    BY <1>3, <1>4, <2>1 DEF Separates, InOrder
<1>8. CASE ~m.isEOS
  <2> DEFINE d == [c EXCEPT ![1] = m.num]
  <2>1. /\ d \in [1..7 -> Nat] /\ \A j \in 1..6 : d[j] <= d[j + 1]
        /\ d[1] = m.num /\ \A j \in 1..7 \ {1} : d[j] = c[j]
    BY <1>1, <1>3, <1>5, <1>8, Move
  <2> HIDE DEF d
  <2>2. seen' = Append(seen, m)
    BY <1>4, <1>8
  <2>3. Rises(seen', 1, 0, m.num)
    BY <1>1, <1>3, <1>5, <1>6, <1>8, <2>2, AppendRises, SMTT(30)
  <2>4. \A j \in DOMAIN seen' : ~seen'[j].isEOS
    BY <1>6, <1>8, <2>2
  <2>5. Separates(d)'
    BY <1>3, <1>4, <1>8, <2>1, <2>3, <2>4, SMTT(30) DEF Separates
  <2> QED
    BY <2>5 DEF InOrder
<1> QED
  BY <1>7, <1>8

LEMMA OrderStep == TypeOK /\ InBatch /\ InOrder /\ [Next]_vars => InOrder'
<1> SUFFICES ASSUME TypeOK, InBatch, InOrder, [Next]_vars PROVE InOrder'
  OBVIOUS
<1>1. PICK c : Separates(c)
  BY DEF InOrder
<1>2. CASE Start \/ UNCHANGED vars
  <2>1. UNCHANGED <<read, toDecoder, input, decoding, toDetect, batch, passed,
                    toEncode, toDst, seen>>
    BY <1>2 DEF Start, vars, pulling, vdec, ssd, dst
  <2> QED
    BY <1>1, <2>1 DEF Separates, InOrder
<1> QED
  BY <1>1, <1>2, OrderPuller, OrderVDec, OrderDecoder, OrderDetection,
     OrderEncoder, OrderFinish DEF Next

(* DstEngine processes the frames in the order the camera sent them, each  *)
(* at most once, whatever the queues, the decoder, the network and the     *)
(* encoder drop (Engine::SendData, VDecEngine::frameCallback,              *)
(* SSDDetection::Process and JpegEncode::Process).                         *)
THEOREM FramesInOrderHolds == Spec => []FramesInOrder
<1>1. TypeOK /\ InOrder => FramesInOrder
  <2> SUFFICES ASSUME TypeOK, InOrder PROVE FramesInOrder
    OBVIOUS
  <2>1. PICK c : Separates(c)
    BY DEF InOrder
  <2>2. Rises(seen, 1, 0, c[1]) /\ \A j \in DOMAIN seen : ~seen[j].isEOS
    BY <2>1 DEF Separates
  <2>3. \A j \in DOMAIN seen : j \in Nat /\ j >= 1
    BY LenProperties DEF TypeOK
  <2> QED
    BY <2>2, <2>3 DEF FramesInOrder, Rises
<1> QED
  BY <1>1, OrderInit, OrderStep, TypeInit, TypeStep, PTL DEF Spec

-----------------------------------------------------------------------------
(***************************************************************************)
(* Completeness.  Until the network fails, a batch never has more frames   *)
(* than it takes, so every frame that leaves SSDDetection was looked at;   *)
(* and what leaves JpegEncode is compressed, or is the end of the stream.  *)
(***************************************************************************)
Whole(m) == m.jpeg /\ (~inferFailed => m.looked)

Complete ==
    /\ ~inferFailed => /\ Len(batch) <= BatchSize
                       /\ detect = "idle" => Len(batch) < BatchSize
                       /\ detect = "send" => \A j \in DOMAIN batch : batch[j].looked
                       /\ \A j \in DOMAIN toEncode : toEncode[j].looked
    /\ \A j \in DOMAIN toDst : toDst[j].isEOS \/ Whole(toDst[j])
    /\ \A j \in DOMAIN seen : Whole(seen[j])

\* What holds of every message of a queue holds after one is sent, or taken.
LEMMA AppendKeeps ==
  ASSUME NEW S, NEW q \in Seq(S), NEW m \in S
  PROVE  /\ \A j \in DOMAIN Append(q, m) :
                \/ j \in DOMAIN q /\ Append(q, m)[j] = q[j]
                \/ Append(q, m)[j] = m
         /\ q # <<>> => \A j \in DOMAIN Tail(q) : j + 1 \in DOMAIN q /\ Tail(q)[j] = q[j + 1]
         /\ q # <<>> => 1 \in DOMAIN q /\ Head(q) = q[1]
  OBVIOUS

LEMMA SentKeeps ==
  ASSUME NEW q \in Seq(Message), NEW m \in Message
  PROVE  \A j \in DOMAIN Sent(q, m) :
            \/ j \in DOMAIN q /\ Sent(q, m)[j] = q[j]
            \/ Sent(q, m)[j] = m
BY AppendKeeps DEF Sent

\* Infer: the network looks at a whole batch, if it fits.
LEMMA AllLooked ==
  ASSUME NEW q \in Seq(Message), Len(q) <= BatchSize,
         NEW r, r = [j \in DOMAIN q |-> [q[j] EXCEPT !.looked = j <= BatchSize]]
  PROVE  \A j \in DOMAIN r : r[j].looked
<1> SUFFICES ASSUME NEW j \in DOMAIN r PROVE r[j].looked
  OBVIOUS
<1>1. DOMAIN r = 1..Len(q) /\ Len(q) \in Nat
  BY LenProperties
<1>2. q[j] \in Message /\ r[j] = [q[j] EXCEPT !.looked = j <= BatchSize]
  BY <1>1, ElementOfSeq
<1>3. j <= BatchSize
  BY <1>1, BatchAssumption
<1>4. r[j].looked = (j <= BatchSize)
  BY <1>2 DEF Message
<1> QED
  BY <1>3, <1>4

LEMMA CompleteInit == Init => Complete
BY BatchAssumption DEF Init, Complete

\* SSDDetection::Process: the batch is filled, looked at and sent on.
LEMMA CompleteDetection ==
  ASSUME TypeOK, InBatch, Complete, Detection
  PROVE  Complete'
<1> USE DEF pulling, vdec, dst
<1>1. /\ batch \in Seq(Message) /\ Len(batch) \in Nat
      /\ toEncode \in Seq(Message) /\ toDetect \in Seq(Message) /\ passed \in Nat
  BY LenProperties DEF TypeOK, IsQueue
<1>2. CASE Collect
  <2>1. Head(toDetect) \in Message
    BY <1>1, <1>2, HeadType DEF Collect
  <2>2. Len(batch') = Len(batch) + 1
    BY <1>1, <1>2, <2>1 DEF Collect
  <2>3. /\ detect = "idle" /\ detect' \in {"idle", "infer"}
        /\ detect' = "idle" => Len(batch) + 1 < BatchSize
        /\ UNCHANGED <<inferFailed, toEncode, toDst, seen>>
    BY <1>2 DEF Collect
  <2>4. ~inferFailed => Len(batch') <= BatchSize /\ (detect' = "idle" => Len(batch') < BatchSize)
    BY <1>1, <2>2, <2>3, BatchAssumption DEF Complete
  <2> QED
    BY <2>3, <2>4 DEF Complete, Whole
<1>3. CASE Overrun
  BY <1>3 DEF Overrun, Complete, Whole, ssd
<1>4. CASE InferFails
  BY <1>4 DEF InferFails, Complete, Whole
<1>5. CASE Infer
  <2>1. PICK r : r = [j \in DOMAIN batch |-> [batch[j] EXCEPT !.looked = j <= BatchSize]]
    OBVIOUS
  <2>2. /\ batch' = r /\ detect' = "send"
        /\ UNCHANGED <<inferFailed, toEncode, toDst, seen>>
    BY <1>5, <2>1 DEF Infer
  <2>3. Len(r) = Len(batch)
    BY <1>1, <2>1, LookedType
  <2>4. ~inferFailed => \A j \in DOMAIN r : r[j].looked
    BY <1>1, <2>1, AllLooked DEF Complete
  <2> QED
    BY <2>2, <2>3, <2>4 DEF Complete, Whole
<1>6. CASE PassOn
  <2>1. passed + 1 \in 1..Len(batch) /\ DOMAIN batch = 1..Len(batch)
    BY <1>1, <1>6, LenProperties DEF PassOn, InBatch
  <2>2. PICK m \in Message : m = batch[passed + 1]
    BY <1>1, <2>1, ElementOfSeq
  <2>3. /\ toEncode' = Sent(toEncode, m)
        /\ UNCHANGED <<inferFailed, toDst, seen>>
    BY <1>6, <2>2 DEF PassOn
  <2>4. \/ batch' = <<>> /\ detect' = "idle"
        \/ batch' = batch /\ detect' = "send"
    BY <1>6 DEF PassOn
  <2>5. ~inferFailed => m.looked
    BY <1>6, <2>1, <2>2 DEF PassOn, Complete
  <2>6. ~inferFailed => \A j \in DOMAIN toEncode' : toEncode'[j].looked
    BY <1>1, <2>3, <2>5, SentKeeps DEF Complete
  <2>7. Len(<<>>) = 0 /\ DOMAIN <<>> = {}
    OBVIOUS
  <2>8. ~inferFailed' => /\ Len(batch') <= BatchSize
                         /\ detect' = "idle" => Len(batch') < BatchSize
                         /\ detect' = "send" => \A j \in DOMAIN batch' : batch'[j].looked
    <3>1. CASE batch' = <<>> /\ detect' = "idle"
      BY <2>7, <3>1, BatchAssumption
    <3>2. CASE batch' = batch /\ detect' = "send"
      BY <1>6, <2>3, <3>2 DEF PassOn, Complete
    <3> QED
      BY <2>4, <3>1, <3>2
  <2> QED
    BY <2>3, <2>6, <2>8 DEF Complete, Whole
<1> QED
  BY <1>2, <1>3, <1>4, <1>5, <1>6 DEF Detection

\* JpegEncode::Process: a frame is compressed, or dropped.
LEMMA CompleteEncoder ==
  ASSUME TypeOK, Complete, Encoder
  PROVE  Complete'
<1> USE DEF pulling, vdec, ssd, dst
<1>1. /\ toEncode \in Seq(Message) /\ toDst \in Seq(Message) /\ toEncode # <<>>
      /\ toEncode' = Tail(toEncode)
      /\ UNCHANGED <<inferFailed, batch, detect, seen>>
  BY DEF Encoder, Encode, EncodeFails, TypeOK, IsQueue
<1>2. PICK m \in Message : m = Head(toEncode)
  BY <1>1, HeadType
<1>3. /\ ~inferFailed => m.looked
      /\ ~inferFailed => \A j \in DOMAIN toEncode' : toEncode'[j].looked
  BY <1>1, <1>2, AppendKeeps DEF Complete
<1>4. CASE EncodeFails
  BY <1>1, <1>3, <1>4 DEF EncodeFails, Complete, Whole
<1>5. CASE Encode
  <2>1. PICK r \in Message : r = IF m.isEOS THEN m ELSE [m EXCEPT !.jpeg = TRUE]
    BY MarkType
  <2>2. r.isEOS \/ Whole(r)
    BY <1>3, <2>1 DEF Message, Whole
  <2>3. toDst' = Sent(toDst, r)
    BY <1>2, <1>5, <2>1 DEF Encode
  <2>4. \A j \in DOMAIN toDst' : toDst'[j].isEOS \/ Whole(toDst'[j])
    BY <1>1, <2>2, <2>3, SentKeeps DEF Complete
  <2> QED
    BY <1>1, <1>3, <2>4 DEF Complete, Whole
<1> QED
  BY <1>4, <1>5 DEF Encoder

\* DstEngine::Process: a frame is seen.
LEMMA CompleteFinish ==
  ASSUME TypeOK, Complete, Finish
  PROVE  Complete'
<1> USE DEF pulling, vdec, ssd
<1>1. /\ toDst \in Seq(Message) /\ seen \in Seq(Message) /\ toDst # <<>>
      /\ toDst' = Tail(toDst)
      /\ UNCHANGED <<inferFailed, batch, detect, toEncode>>
  BY DEF Finish, TypeOK, IsQueue
<1>2. PICK m \in Message : m = Head(toDst)
  BY <1>1, HeadType
<1>3. /\ m.isEOS \/ Whole(m)
      /\ \A j \in DOMAIN toDst' : toDst'[j].isEOS \/ Whole(toDst'[j])
  BY <1>1, <1>2, AppendKeeps DEF Complete
<1>4. seen' = IF m.isEOS THEN seen ELSE Append(seen, m)
  BY <1>2 DEF Finish
<1>5. \A j \in DOMAIN seen' : Whole(seen'[j])
  BY <1>1, <1>3, <1>4, AppendKeeps DEF Complete
<1> QED
  BY <1>1, <1>3, <1>5 DEF Complete, Whole

LEMMA CompleteStep == TypeOK /\ InBatch /\ Complete /\ [Next]_vars => Complete'
<1> SUFFICES ASSUME TypeOK, InBatch, Complete, [Next]_vars PROVE Complete'
  OBVIOUS
<1>1. CASE \/ Start \/ Puller \/ VDec \/ Decoder \/ UNCHANGED vars
  <2>1. UNCHANGED <<inferFailed, batch, detect, toEncode, toDst, seen>>
    BY <1>1 DEF Start, Puller, ReadPacket, SkipPacket, AllocFails, SendEnd, VDec, TakeInput,
       Submit, SubmitFails, Decoder, Undecodable, ConvertFails, FrameCallback, vars, ssd, dst
  <2> QED
    BY <2>1 DEF Complete, Whole
<1> QED
  BY <1>1, CompleteDetection, CompleteEncoder, CompleteFinish DEF Next

(* DstEngine only gets frames that are compressed and, as long as the      *)
(* network has not failed, that the network has looked at                  *)
(* (SSDDetection::Process, JpegEncode::Process): it holds for any size of  *)
(* the batch, because a batch is looked at before it can outgrow it.       *)
THEOREM SeenIsCompleteHolds == Spec => []SeenIsComplete
<1>1. Complete => SeenIsComplete
  BY DEF Complete, SeenIsComplete, Whole
<1> QED
  BY <1>1, CompleteInit, CompleteStep, TypeInit, TypeStep, PTL DEF Spec

=============================================================================
