------------------------------- MODULE Pipeline -------------------------------
(***************************************************************************)
(* The engines of one graph, from the camera to DstEngine: StreamPuller    *)
(* reads packets on a thread of its own, VDecEngine hands them to the      *)
(* hardware decoder, whose callback sends the frames on, SSDDetection      *)
(* collects a batch and looks for persons, JpegEncode compresses the       *)
(* frame, DstEngine receives it.  Each engine has one thread and one input *)
(* queue (graph.config); SendData fails when the queue is full.            *)
(*                                                                         *)
(* A packet is its number, and holds one frame.  What happens to a frame   *)
(* in DstEngine is in Trails and AlarmVideo, which take from here that     *)
(* frames come in order, each at most once.                                *)
(***************************************************************************)
EXTENDS Integers, Sequences

CONSTANTS
    MaxPacket,  \* how many packets the camera sends (a bound)
    QueueSize,  \* how many messages an input queue holds
    BatchSize   \* kBatchSize: how many frames the network takes at a time

ASSUME PacketAssumption == MaxPacket \in Nat
ASSUME QueueAssumption == QueueSize \in Nat \ {0}
ASSUME BatchAssumption == BatchSize \in Nat \ {0}

Packet == 1..MaxPacket

(* A message between two engines is a frame, or the end of the stream with *)
(* num 0; looked and jpeg tell whether the network and the encoder have    *)
(* had the frame.                                                          *)
Message ==
    {m \in [num : 0..MaxPacket, isEOS : BOOLEAN, looked : BOOLEAN, jpeg : BOOLEAN] :
        m.isEOS <=> m.num = 0}
Fresh(n) == [num |-> n, isEOS |-> FALSE, looked |-> FALSE, jpeg |-> FALSE]
End == [Fresh(0) EXCEPT !.isEOS = TRUE]

VARIABLES
    puller,     \* where the thread of StreamPuller is
    read,       \* number of packets read from the camera
    toDecoder,  \* the input queue of VDecEngine
    input,      \* VDecEngine: the message being processed, if any
    inputEOS,   \* VDecEngine::inputInfo.isEOS
    decoding,   \* packets in the hardware decoder
    toDetect,   \* the input queue of SSDDetection
    detect,     \* where SSDDetection is: "idle", "infer" or "send"
    batch,      \* SSDDetection::inputArgQueue
    passed,     \* how many frames of the batch have been sent on
    toEncode,   \* the input queue of JpegEncode
    toDst,      \* the input queue of DstEngine
    told,       \* DstEngine has sent main the end of the stream
    crashed,    \* the process is gone
    (***********************************************************************)
    (* What has happened.                                                  *)
    (***********************************************************************)
    seen,       \* the frames DstEngine has processed
    lost,       \* packets and frames that were dropped, and will not be seen
    inferFailed \* the network has failed at least once

pulling == <<puller, read>>
vdec == <<input, inputEOS, decoding>>
ssd == <<detect, batch, passed, inferFailed>>
dst == <<told, seen>>
vars == <<pulling, toDecoder, vdec, toDetect, ssd, toEncode, toDst, dst,
          crashed, lost>>

IsQueue(q) == q \in Seq(Message) /\ Len(q) <= QueueSize

TypeOK ==
    /\ puller \in {"off", "on", "ending", "ended", "failed"}
    /\ read \in 0..MaxPacket
    /\ input \in Seq(Message) /\ Len(input) <= 1
    /\ inputEOS \in BOOLEAN
    /\ decoding \in Seq(Packet)
    /\ IsQueue(toDecoder) /\ IsQueue(toDetect) /\ IsQueue(toEncode) /\ IsQueue(toDst)
    /\ detect \in {"idle", "infer", "send"}
    /\ batch \in Seq(Message)
    /\ passed \in 0..Len(batch)
    /\ told \in BOOLEAN /\ crashed \in BOOLEAN /\ inferFailed \in BOOLEAN
    /\ seen \in Seq(Message)
    /\ lost \subseteq Packet

Init ==
    /\ puller = "off" /\ read = 0
    /\ toDecoder = <<>> /\ toDetect = <<>> /\ toEncode = <<>> /\ toDst = <<>>
    /\ input = <<>> /\ inputEOS = FALSE /\ decoding = <<>>
    /\ detect = "idle" /\ batch = <<>> /\ passed = 0
    /\ told = FALSE /\ crashed = FALSE
    /\ seen = <<>> /\ lost = {} /\ inferFailed = FALSE

\* Engine::SendData: the queue after a message is sent to it, and what is lost
\* when it does not fit.
Sent(q, m) == IF Len(q) < QueueSize THEN Append(q, m) ELSE q
Refused(q, m) == IF Len(q) < QueueSize THEN {} ELSE {m.num} \ {0}

-----------------------------------------------------------------------------
\* StreamPuller::Process, on the only message its graph is ever sent:
\* startStream opens the camera and starts the thread, or gives up.
Start ==
    /\ puller = "off"
    /\ puller' \in {"on", "failed"}
    /\ UNCHANGED <<read, toDecoder, vdec, toDetect, ssd, toEncode, toDst, dst,
                   crashed, lost>>

\* pullStreamDataLoop: a packet is read and sent to VDecEngine.  A failed read
\* is tried again, which changes nothing here.
ReadPacket ==
    /\ puller = "on"
    /\ read < MaxPacket
    /\ read' = read + 1
    /\ toDecoder' = Sent(toDecoder, Fresh(read + 1))
    /\ lost' = lost \union Refused(toDecoder, Fresh(read + 1))
    /\ UNCHANGED <<puller, vdec, toDetect, ssd, toEncode, toDst, dst, crashed>>

\* pullStreamDataLoop: the packet is empty and is skipped.
SkipPacket ==
    /\ puller = "on"
    /\ read < MaxPacket
    /\ read' = read + 1
    /\ lost' = lost \union {read + 1}
    /\ UNCHANGED <<puller, toDecoder, vdec, toDetect, ssd, toEncode, toDst, dst,
                   crashed>>

\* pullStreamDataLoop: no memory for the packet.  The loop ends for good.
AllocFails ==
    /\ puller = "on"
    /\ read < MaxPacket
    /\ read' = read + 1
    /\ lost' = lost \union {read + 1}
    /\ puller' = "ending"
    /\ UNCHANGED <<toDecoder, vdec, toDetect, ssd, toEncode, toDst, dst,
                   crashed>>

\* pullStreamDataLoop, after the loop: the end of the stream is sent.
SendEnd ==
    /\ puller = "ending"
    /\ puller' = "ended"
    /\ toDecoder' = Sent(toDecoder, End)
    /\ UNCHANGED <<read, vdec, toDetect, ssd, toEncode, toDst, dst, crashed,
                   lost>>

-----------------------------------------------------------------------------
\* VDecEngine::Process takes a message and sets inputInfo, which the callback
\* of the decoder's thread may read from now on.
TakeInput ==
    /\ input = <<>>
    /\ toDecoder # <<>>
    /\ input' = <<Head(toDecoder)>>
    /\ inputEOS' = Head(toDecoder).isEOS
    /\ toDecoder' = Tail(toDecoder)
    /\ UNCHANGED <<pulling, decoding, toDetect, ssd, toEncode, toDst, dst,
                   crashed, lost>>

\* Mutant of Submit: the end of the stream is decoded like a frame.
SubmitEnd ==
    /\ input # <<>>
    /\ decoding' = Append(decoding, input[1].num)
    /\ input' = <<>>
    /\ UNCHANGED <<pulling, inputEOS, toDecoder, toDetect, ssd, toEncode, toDst,
                   dst, crashed, lost>>

\* VDecEngine::Process: VdecCtl.  The end of the stream holds no frame.
Submit ==
    /\ input # <<>>
    /\ decoding' = IF input[1].isEOS THEN decoding
                   ELSE Append(decoding, input[1].num)
    /\ input' = <<>>
    /\ UNCHANGED <<pulling, inputEOS, toDecoder, toDetect, ssd, toEncode, toDst,
                   dst, crashed, lost>>

\* VDecEngine::Process: VdecCtl fails.
SubmitFails ==
    /\ input # <<>>
    /\ lost' = lost \union ({input[1].num} \ {0})
    /\ input' = <<>>
    /\ UNCHANGED <<pulling, inputEOS, decoding, toDecoder, toDetect, ssd,
                   toEncode, toDst, dst, crashed>>

\* The decoder makes no frame of a damaged packet.
Undecodable ==
    /\ decoding # <<>>
    /\ decoding' = Tail(decoding)
    /\ lost' = lost \union {Head(decoding)}
    /\ UNCHANGED <<pulling, input, inputEOS, toDecoder, toDetect, ssd, toEncode,
                   toDst, dst, crashed>>

\* VDecEngine::frameCallback: there is no memory to convert the frame, and
\* out_buffer is undefined; the callback goes on with it.  The frame that is
\* sent holds anything (the outcome FrameCallback), or the process is gone.
ConvertFails ==
    /\ decoding # <<>>
    /\ crashed' = TRUE
    /\ UNCHANGED <<pulling, toDecoder, vdec, toDetect, ssd, toEncode, toDst,
                   dst, lost>>

\* VDecEngine::frameCallback: the frame is sent on, never as the end of the
\* stream, whether or not it could be converted.
FrameCallback ==
    /\ decoding # <<>>
    /\ toDetect' = Sent(toDetect, Fresh(Head(decoding)))
    /\ lost' = lost \union Refused(toDetect, Fresh(Head(decoding)))
    /\ decoding' = Tail(decoding)
    /\ UNCHANGED <<pulling, input, inputEOS, toDecoder, ssd, toEncode, toDst,
                   dst, crashed>>

-----------------------------------------------------------------------------
\* Mutant of Collect: one frame too many is waited for.
CollectMore ==
    /\ detect = "idle"
    /\ toDetect # <<>>
    /\ batch' = Append(batch, Head(toDetect))
    /\ toDetect' = Tail(toDetect)
    /\ detect' = IF Len(batch) + 1 <= BatchSize THEN "idle" ELSE "infer"
    /\ UNCHANGED <<pulling, toDecoder, vdec, passed, inferFailed, toEncode, toDst,
                   dst, crashed, lost>>

\* SSDDetection::Process: a frame joins the batch.
Collect ==
    /\ detect = "idle"
    /\ toDetect # <<>>
    /\ batch' = Append(batch, Head(toDetect))
    /\ toDetect' = Tail(toDetect)
    /\ detect' = IF Len(batch) + 1 < BatchSize THEN "idle" ELSE "infer"
    /\ UNCHANGED <<pulling, toDecoder, vdec, passed, inferFailed, toEncode, toDst,
                   dst, crashed, lost>>

\* SSDDetection::Process: the frames are written to the input buffer of the
\* network, past its end if they are more than it takes.
Overrun ==
    /\ detect = "infer"
    /\ Len(batch) > BatchSize
    /\ crashed' = TRUE
    /\ UNCHANGED <<pulling, toDecoder, vdec, toDetect, ssd, toEncode, toDst,
                   dst, lost>>

\* SSDDetection::Process: the network fails.  The batch is not cleared.
InferFails ==
    /\ detect = "infer"
    /\ detect' = "idle"
    /\ inferFailed' = TRUE
    /\ UNCHANGED <<pulling, toDecoder, vdec, toDetect, batch, passed, toEncode, toDst,
                   dst, crashed, lost>>

\* SSDDetection::Process: the network has looked at the frames that fit.
Infer ==
    /\ detect = "infer"
    /\ detect' = "send"
    /\ batch' = [i \in DOMAIN batch |->
                    [batch[i] EXCEPT !.looked = i <= BatchSize]]
    /\ UNCHANGED <<pulling, toDecoder, vdec, toDetect, passed, inferFailed,
                   toEncode, toDst, dst, crashed, lost>>

\* Mutant of PassOn: the batch is not cleared.
PassOnKeep ==
    /\ detect = "send"
    /\ LET m == batch[passed + 1]
       IN /\ toEncode' = Sent(toEncode, m)
          /\ lost' = lost \union Refused(toEncode, m)
    /\ LET done == passed + 1 = Len(batch)
       IN /\ passed' = IF done THEN 0 ELSE passed + 1
          /\ detect' = IF done THEN "idle" ELSE "send"
    /\ UNCHANGED <<pulling, toDecoder, vdec, toDetect, batch, inferFailed,
                   toDst, dst, crashed>>

\* Mutant of PassOn: the batch is cleared after its first frame.
PassOnFirst ==
    /\ detect = "send"
    /\ toEncode' = Sent(toEncode, Head(batch))
    /\ lost' = lost \union Refused(toEncode, Head(batch))
    /\ batch' = <<>> /\ detect' = "idle"
    /\ UNCHANGED <<pulling, toDecoder, vdec, toDetect, passed, inferFailed,
                   toDst, dst, crashed>>

\* SSDDetection::postProcessDetection sends the frames on, one after the other;
\* after the last one, Process clears the batch.
PassOn ==
    /\ detect = "send"
    /\ LET m == batch[passed + 1]
       IN /\ toEncode' = Sent(toEncode, m)
          /\ lost' = lost \union Refused(toEncode, m)
    /\ LET done == passed + 1 = Len(batch)
       IN /\ passed' = IF done THEN 0 ELSE passed + 1
          /\ batch' = IF done THEN <<>> ELSE batch
          /\ detect' = IF done THEN "idle" ELSE "send"
    /\ UNCHANGED <<pulling, toDecoder, vdec, toDetect, inferFailed, toDst, dst,
                   crashed>>

-----------------------------------------------------------------------------
\* JpegEncode::Process: the end of the stream is passed on, a frame once it is
\* compressed.
Encode ==
    /\ toEncode # <<>>
    /\ toEncode' = Tail(toEncode)
    /\ LET m == Head(toEncode)
           out == IF m.isEOS THEN m ELSE [m EXCEPT !.jpeg = TRUE]
       IN /\ toDst' = Sent(toDst, out)
          /\ lost' = lost \union Refused(toDst, out)
    /\ UNCHANGED <<pulling, toDecoder, vdec, toDetect, ssd, dst, crashed>>

\* JpegEncode::Process: the encoder fails and the frame is dropped.
EncodeFails ==
    /\ toEncode # <<>>
    /\ ~Head(toEncode).isEOS
    /\ toEncode' = Tail(toEncode)
    /\ lost' = lost \union {Head(toEncode).num}
    /\ UNCHANGED <<pulling, toDecoder, vdec, toDetect, ssd, toDst, dst, crashed>>

\* DstEngine::Process: the end of the stream is told to main, a frame goes to
\* ProcessResult.
Finish ==
    /\ toDst # <<>>
    /\ toDst' = Tail(toDst)
    /\ LET m == Head(toDst)
       IN /\ told' = (told \/ m.isEOS)
          /\ seen' = IF m.isEOS THEN seen ELSE Append(seen, m)
    /\ UNCHANGED <<pulling, toDecoder, vdec, toDetect, ssd, toEncode, crashed,
                   lost>>

Decoder == Undecodable \/ ConvertFails \/ FrameCallback
VDec == TakeInput \/ Submit \/ SubmitFails
Detection == Collect \/ Overrun \/ InferFails \/ Infer \/ PassOn
Encoder == Encode \/ EncodeFails
Puller == ReadPacket \/ SkipPacket \/ AllocFails \/ SendEnd

Next ==
    /\ ~crashed
    /\ Start \/ Puller \/ VDec \/ Decoder \/ Detection \/ Encoder \/ Finish

Spec == Init /\ [][Next]_vars

\* Every engine has a thread of its own, and so has the decoder.  Nothing says
\* that the camera goes on sending, but a thread that has left its loop goes on.
Fairness ==
    /\ WF_vars(~crashed /\ SendEnd)
    /\ WF_vars(~crashed /\ VDec)
    /\ WF_vars(~crashed /\ Decoder)
    /\ WF_vars(~crashed /\ Detection)
    /\ WF_vars(~crashed /\ Encoder)
    /\ WF_vars(~crashed /\ Finish)

FairSpec == Spec /\ Fairness

-----------------------------------------------------------------------------
(* Frames reach DstEngine in the order the camera sent them, each at most  *)
(* once, through every failure on the way: a batch sent again, or an       *)
(* engine that overtakes another, would make trails jump back.             *)
FramesInOrder ==
    \A i, j \in DOMAIN seen : i < j => seen[i].num < seen[j].num

(* DstEngine only gets frames that are compressed and, as long as the      *)
(* network has not failed, that the network has looked at: no person is    *)
(* missed because a frame slipped by, or did not fit the input of the      *)
(* network.                                                                *)
SeenIsComplete ==
    \A i \in DOMAIN seen : seen[i].jpeg /\ (~inferFailed => seen[i].looked)

\* A frame waits in a batch that may never be filled.
Waiting(n) ==
    /\ detect = "idle"
    /\ \E i \in DOMAIN batch : batch[i].num = n
    /\ Len(batch) < BatchSize \/ inferFailed

Settled(n) ==
    \/ n \in lost
    \/ \E i \in DOMAIN seen : seen[i].num = n
    \/ Waiting(n)
    \/ crashed

(* Every packet read is settled: it reaches DstEngine, or some engine has  *)
(* dropped it for a reason, or it waits in a batch for frames that do not  *)
(* come.  No queue, callback or batch swallows a frame silently, nor is a   *)
(* frame taken for the end of the stream, although the callback of the     *)
(* decoder copies inputInfo, which VDecEngine::Process may just have set   *)
(* to the end while frames are still in the decoder.                       *)
EveryPacketSettles ==
    \A n \in Packet : (read >= n) ~> Settled(n)

(* DstEngine.cpp:459: "if it is the end of stream, send end signal to      *)
(* main".                                                                  *)
EndIsTold == (puller = "ended") ~> (told \/ crashed)

=============================================================================
