----------------------------- MODULE FrameCodec -----------------------------
(***************************************************************************)
(* One connection as bytes: the client's ConnectionHandler at one end, a   *)
(* connection handler of the server with its StompMsgEncDec at the other.  *)
(* Frames are put on a stream in pieces of any size, cut out of it at the  *)
(* zero bytes, and a connection may end in the middle of a frame.          *)
(*                                                                         *)
(*  - A frame is a sequence of bytes without a zero; what is in it does    *)
(*    not matter here, and every frame is answered by one that repeats it. *)
(*  - The thread-per-client server takes a byte at a time and writes whole *)
(*    frames.  The reactor server reads chunks, decodes them in tasks of   *)
(*    the pool, in order (see SerialExecutor), and writes what fits.       *)
(*  - Writing k bytes at once is k writes of one byte with nothing in      *)
(*    between.                                                             *)
(***************************************************************************)
EXTENDS Integers, SequencesExt

CONSTANTS Letter,    \* bytes that are not zero
          Frame,     \* frames the client sends
          Capacity,  \* size of the decoder's buffer, 1024 in the code
          MaxFrames, \* bound: frames sent
          MaxChunk   \* bound: bytes the reactor reads at once

ASSUME CodecAssumption ==
    /\ 0 \notin Letter
    /\ Frame \subseteq Seq(Letter)
    /\ Capacity \in Nat /\ MaxFrames \in Nat /\ MaxChunk \in Nat \ {0}

VARIABLES mode,       \* "blocking" or "reactor": which server is running
          writing,    \* bytes the client's keyboard thread has to write
          toServer,   \* bytes on their way to the server
          tasks,      \* chunks that were read and not decoded (reactor)
          byteBuffer, \* the decoder's buffer
          writeQueue, \* frames the server has to write (reactor)
          serverOpen, \* the server's end of the connection
          toClient,   \* bytes on their way to the client
          frame,      \* bytes of a frame that the client has read
          clientOpen, \* the client's end of the connection
          listening,  \* the client has not noticed the end yet
          sent,       \* frames the client has begun to send
          processed,  \* frames given to the server's protocol
          received,   \* frames getFrameAscii has returned
          overflowed  \* the buffer was too small for a frame

client  == <<writing, frame, clientOpen, listening, sent, received>>
server  == <<mode, tasks, byteBuffer, writeQueue, serverOpen, processed, overflowed>>
network == <<toServer, toClient>>
vars    == <<client, server, network>>

Delimiter == 0

Init ==
    /\ mode \in {"blocking", "reactor"}
    /\ writing = <<>> /\ frame = <<>> /\ sent = <<>> /\ received = <<>>
    /\ clientOpen = TRUE /\ listening = TRUE
    /\ tasks = <<>> /\ byteBuffer = <<>> /\ writeQueue = <<>> /\ processed = <<>>
    /\ serverOpen = TRUE /\ overflowed = FALSE
    /\ toServer = <<>> /\ toClient = <<>>

-----------------------------------------------------------------------------
(* The client.  sendFrameAscii writes the frame and then the delimiter.    *)
SendFrameAscii(f) ==
    /\ clientOpen /\ writing = <<>>
    /\ Len(sent) < MaxFrames
    /\ writing' = Append(f, Delimiter)
    /\ sent'    = Append(sent, f)
    /\ UNCHANGED <<frame, clientOpen, listening, received, server, network>>

(* sendBytes: bytes for a server that is gone are lost, or the write fails *)
(* and the rest is given up.                                               *)
SendBytes ==
    /\ writing # <<>>
    /\ \/ /\ writing'  = Tail(writing)
          /\ toServer' = IF serverOpen THEN Append(toServer, Head(writing)) ELSE toServer
       \/ /\ ~serverOpen
          /\ writing' = <<>>
          /\ UNCHANGED toServer
    /\ UNCHANGED <<frame, clientOpen, listening, sent, received, server, toClient>>

(* The keyboard thread closes; what is on its way may be lost from any     *)
(* byte on.                                                                *)
CloseClient ==
    /\ clientOpen /\ writing = <<>>
    /\ clientOpen' = FALSE
    /\ \E k \in 0 .. Len(toServer) : toServer' = SubSeq(toServer, 1, k)
    /\ toClient' = <<>>
    /\ UNCHANGED <<writing, frame, listening, sent, received, server>>

(* getFrameAscii reads byte by byte up to the zero, which it drops.        *)
GetFrameAscii ==
    /\ listening /\ clientOpen /\ toClient # <<>>
    /\ toClient' = Tail(toClient)
    /\ frame'    = IF Head(toClient) = Delimiter THEN <<>> ELSE Append(frame, Head(toClient))
    /\ received' = IF Head(toClient) = Delimiter THEN Append(received, frame) ELSE received
    /\ UNCHANGED <<writing, clientOpen, listening, sent, server, toServer>>

MutantGetBytesFails ==
    /\ listening
    /\ ~clientOpen
    /\ listening' = FALSE
    /\ frame' = <<>>
    /\ UNCHANGED <<writing, clientOpen, sent, received, server, network>>

(* getBytes fails: the client closed, or the server did and all is read.   *)
GetBytesFails ==
    /\ listening
    /\ ~clientOpen \/ (~serverOpen /\ toClient = <<>>)
    /\ listening' = FALSE
    /\ frame' = <<>>
    /\ UNCHANGED <<writing, clientOpen, sent, received, server, network>>

-----------------------------------------------------------------------------
(* The server.                                                             *)
MutantEncode(f) == f

Encode(f) == Append(f, Delimiter)

(* The protocol's answer: written at once, or queued; lost when the        *)
(* connection has ended.                                                   *)
Process(f) ==
    /\ processed' = Append(processed, f)
    /\ IF mode = "blocking"
       THEN /\ toClient' = IF serverOpen /\ clientOpen THEN toClient \o Encode(f) ELSE toClient
            /\ UNCHANGED writeQueue
       ELSE /\ writeQueue' = IF serverOpen THEN Append(writeQueue, Encode(f)) ELSE writeQueue
            /\ UNCHANGED toClient

MutantDecode(b) ==
    /\ b = Delimiter
    /\ byteBuffer' = byteBuffer
    /\ Process(byteBuffer)

(* decodeNextByte.                                                         *)
Decode(b) ==
    /\ b = Delimiter
    /\ byteBuffer' = <<>>
    /\ Process(byteBuffer)

Put(b) ==
    /\ b # Delimiter /\ Len(byteBuffer) < Capacity
    /\ byteBuffer' = Append(byteBuffer, b)
    /\ UNCHANGED <<processed, toClient, writeQueue>>

Overflows(b) == b # Delimiter /\ Len(byteBuffer) = Capacity

(* run: a byte at a time.  The exception of a full buffer is not caught:   *)
(* the socket is closed, and handleDisconnect is not called.               *)
Read ==
    /\ mode = "blocking" /\ serverOpen
    /\ toServer # <<>>
    /\ toServer' = Tail(toServer)
    /\ Decode(Head(toServer)) \/ Put(Head(toServer))
    /\ UNCHANGED <<client, mode, tasks, serverOpen, overflowed>>

(* An end that the server chose; what the client has not read may be lost  *)
(* from any byte on.                                                       *)
End ==
    /\ serverOpen
    /\ serverOpen' = FALSE
    /\ toServer' = <<>>
    /\ writeQueue' = <<>>
    /\ \E k \in 0 .. Len(toClient) : toClient' = SubSeq(toClient, 1, k)

ReadOverflow ==
    /\ mode = "blocking"
    /\ toServer # <<>> /\ Overflows(Head(toServer))
    /\ End
    /\ overflowed' = TRUE
    /\ UNCHANGED <<client, mode, tasks, byteBuffer, processed>>

MutantContinueRead ==
    /\ mode = "reactor" /\ serverOpen
    /\ \E k \in 1 .. MaxChunk :
          /\ k < Len(toServer)
          /\ tasks'    = Append(tasks, SubSeq(toServer, 1, k))
          /\ toServer' = SubSeq(toServer, k + 1, Len(toServer))
    /\ UNCHANGED <<client, mode, byteBuffer, writeQueue, serverOpen, processed, overflowed, toClient>>

(* continueRead: the selector reads what is there ...                      *)
ContinueRead ==
    /\ mode = "reactor" /\ serverOpen
    /\ \E k \in 1 .. MaxChunk :
          /\ k <= Len(toServer)
          /\ tasks'    = Append(tasks, SubSeq(toServer, 1, k))
          /\ toServer' = SubSeq(toServer, k + 1, Len(toServer))
    /\ UNCHANGED <<client, mode, byteBuffer, writeQueue, serverOpen, processed, overflowed, toClient>>

(* ... and a task of the pool decodes it, also when the connection has     *)
(* ended in the meantime.                                                  *)
DecodeTask ==
    /\ tasks # <<>>
    /\ LET b == Head(Head(tasks))
           rest == Tail(Head(tasks))
       IN  /\ Decode(b) \/ Put(b)
           /\ tasks' = IF rest = <<>> THEN Tail(tasks) ELSE [tasks EXCEPT ![1] = rest]
    /\ UNCHANGED <<client, mode, serverOpen, overflowed, toServer>>

(* A full buffer ends the task: the rest of the chunk is lost, the buffer  *)
(* stays full and the connection open.                                     *)
DecodeTaskOverflow ==
    /\ tasks # <<>> /\ Overflows(Head(Head(tasks)))
    /\ tasks' = Tail(tasks)
    /\ overflowed' = TRUE
    /\ UNCHANGED <<client, mode, byteBuffer, writeQueue, serverOpen, processed, network>>

MutantContinueWrite ==
    /\ writeQueue # <<>> /\ serverOpen
    /\ toClient' = IF clientOpen THEN Append(toClient, Head(Head(writeQueue))) ELSE toClient
    /\ writeQueue' = Tail(writeQueue)
    /\ UNCHANGED <<client, mode, tasks, byteBuffer, serverOpen, processed, overflowed, toServer>>

(* continueWrite writes what fits of the first frame.                      *)
ContinueWrite ==
    /\ writeQueue # <<>> /\ serverOpen
    /\ toClient' = IF clientOpen THEN Append(toClient, Head(Head(writeQueue))) ELSE toClient
    /\ writeQueue' = IF Len(Head(writeQueue)) = 1 THEN Tail(writeQueue)
                     ELSE [writeQueue EXCEPT ![1] = Tail(@)]
    /\ UNCHANGED <<client, mode, tasks, byteBuffer, serverOpen, processed, overflowed, toServer>>

(* End of input: a frame that is not complete is dropped.                  *)
EndOfInput ==
    /\ ~clientOpen /\ toServer = <<>>
    /\ End
    /\ UNCHANGED <<client, mode, tasks, byteBuffer, processed, overflowed>>

(* The server ends the connection after an ERROR or a DISCONNECT.          *)
CloseServer ==
    /\ processed # <<>>
    /\ mode = "reactor" => writeQueue = <<>>
    /\ End
    /\ UNCHANGED <<client, mode, tasks, byteBuffer, processed, overflowed>>

-----------------------------------------------------------------------------
(* The connection's own thread, or the selector.                           *)
Serve    == Read \/ ReadOverflow \/ ContinueRead \/ ContinueWrite \/ EndOfInput
Worker   == DecodeTask \/ DecodeTaskOverflow
Listener == GetFrameAscii \/ GetBytesFails

Next ==
    \/ \E f \in Frame : SendFrameAscii(f)
    \/ SendBytes \/ CloseClient \/ CloseServer
    \/ Serve \/ Worker \/ Listener

(* Every thread that can go on does; nobody has to send or to close.       *)
Fairness ==
    /\ WF_vars(SendBytes) /\ WF_vars(Listener)
    /\ WF_vars(Serve) /\ WF_vars(Worker)

Spec == Init /\ [][Next]_vars /\ Fairness

-----------------------------------------------------------------------------
(* Properties.                                                             *)

(* The types of the variables: the buffer is never over its size, and only *)
(* streams hold delimiters, each frame that is written exactly one.        *)
TypeOK ==
    /\ mode \in {"blocking", "reactor"}
    /\ writing \in Seq(Letter \cup {0}) /\ toServer \in Seq(Letter \cup {0})
    /\ toClient \in Seq(Letter \cup {0})
    /\ \A i \in DOMAIN tasks : tasks[i] \in Seq(Letter \cup {0}) /\ tasks[i] # <<>>
    /\ \A i \in DOMAIN writeQueue : writeQueue[i] # <<>> /\ Last(writeQueue[i]) = Delimiter
    /\ byteBuffer \in Seq(Letter) /\ frame \in Seq(Letter)
    /\ Len(byteBuffer) <= Capacity
    /\ {serverOpen, clientOpen, listening, overflowed} \subseteq BOOLEAN
    /\ mode = "blocking" => tasks = <<>> /\ writeQueue = <<>>

(* However writes and reads cut the stream, and wherever it ends, the      *)
(* protocol is given the frames that were sent, whole, in order and once,  *)
(* and the client the answers; only a reactor that met a frame longer than *)
(* its buffer may hand on pieces.  A frame that was cut off is nobody's.   *)
FramesIntact ==
    /\ mode = "blocking" \/ ~overflowed => IsPrefix(processed, sent)
    /\ IsPrefix(received, processed)

Fits(f) == Len(f) <= Capacity

(* Frames that fit never fill the buffer: an overflow is the work of a     *)
(* frame that is too long, not of the frames before it or of their cuts.   *)
OnlyLongOverflow == overflowed => \E i \in DOMAIN sent : ~Fits(sent[i])

(* While both ends stay open and frames fit, each is processed and its     *)
(* answer read.                                                            *)
AllArrive ==
    <>[](serverOpen /\ clientOpen /\ (\A i \in DOMAIN sent : Fits(sent[i])) =>
            processed = sent /\ received = sent)

(* An end of the connection, by whichever side or by an overflow, is       *)
(* noticed at the other: the client's listener ends, the server closes.    *)
EndNoticed ==
    /\ ~serverOpen ~> ~listening
    /\ ~clientOpen ~> ~serverOpen
=============================================================================
