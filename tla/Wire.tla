-------------------------------- MODULE Wire --------------------------------
(***************************************************************************)
(* The framing of net/wire.rs: send_frame on one end of a stream socket,   *)
(* recv_frame on the other.  The socket cuts frames into pieces of any     *)
(* size; a descriptor travels with the first byte of the sendmsg that      *)
(* carries it, and is lost unless the receiver picks it up with that byte. *)
(*                                                                         *)
(* A byte is known by the frame it was written for, its place in it and    *)
(* the descriptor that rides on it, and a descriptor by its frame.         *)
(***************************************************************************)
EXTENDS Integers, Sequences, SequencesExt

CONSTANTS
    HeaderLen,   \* HEADER_LEN
    MaxLen,      \* MAX_FRAME_LEN
    Slack,       \* initial capacity of the buffer beyond the header (256)
    SockCap,     \* bytes the socket buffers
    MaxFrames,   \* bound: frames sent on the connection
    Headers      \* header defects a peer may produce, and "good"

ASSUME WireAssumption ==
    /\ HeaderLen \in Nat \ {0} /\ SockCap \in Nat \ {0}
    /\ MaxLen \in Nat /\ Slack \in Nat /\ MaxFrames \in Nat
    /\ Headers \subseteq {"good", "magic", "type", "length"}

Frames == [len : 0 .. MaxLen, fd : BOOLEAN, header : Headers]

NoFd == 0

VARIABLES
    frames,     \* history: the frames sent so far
    left,       \* bytes of the last frame still to be written
    wire,       \* bytes in the socket
    sender,     \* "open", "failed" (send_frame returned Err) or "closed"
    buf,        \* recv_frame: the bytes read
    need,       \* recv_frame: the bytes wanted in all
    cap,        \* recv_frame: capacity of buf
    fd,         \* recv_frame: attached_fd, by the number of its frame
    received,   \* frames returned by recv_frame: [frame, fd]
    receiver    \* "open" or "failed" (recv_frame returned Err)

sendVars == <<frames, left, sender>>
recvVars == <<buf, need, cap, fd, received, receiver>>
vars == <<sendVars, wire, recvVars>>

Bytes == [frame : Nat, pos : Nat, fd : Nat]

TypeOK ==
    /\ frames \in Seq(Frames)
    /\ left \in 0 .. HeaderLen + MaxLen
    /\ wire \in Seq(Bytes)
    /\ sender \in {"open", "failed", "closed"}
    /\ buf \in Seq(Bytes)
    /\ need \in HeaderLen .. HeaderLen + MaxLen
    /\ cap \in Nat
    /\ fd \in 0 .. MaxFrames
    /\ received \in Seq([frame : Nat, fd : Nat])
    /\ receiver \in {"open", "failed"}

Init ==
    /\ frames = <<>> /\ left = 0 /\ wire = <<>> /\ sender = "open"
    /\ buf = <<>> /\ need = HeaderLen /\ cap = HeaderLen + Slack /\ fd = NoFd
    /\ received = <<>> /\ receiver = "open"

-----------------------------------------------------------------------------
(* The next n bytes of frame number f, of which the first `done` are out;  *)
(* a descriptor rides on the first byte of all.                            *)
Piece(f, done, n, rider) ==
    [i \in 1 .. n |-> [frame |-> f, pos |-> done + i,
                       fd |-> IF done + i = 1 THEN rider ELSE NoFd]]

(* Mutant: the header is counted twice.                                    *)
SizeTwice(frame) == 2 * HeaderLen + frame.len

Size(frame) == HeaderLen + frame.len

(* send_frame without a descriptor: write_all starts on the encoded frame. *)
SendPlain(frame) ==
    /\ sender = "open" /\ left = 0 /\ Len(frames) < MaxFrames
    /\ ~frame.fd
    /\ frames' = Append(frames, frame)
    /\ left' = Size(frame)
    /\ UNCHANGED <<sender, wire, recvVars>>

(* send_frame with a descriptor: one sendmsg on the non-blocking socket.   *)
(* It may be short; when the socket is full it fails, and so does the      *)
(* frame, with nothing written.                                            *)
SendWithFd(frame) ==
    /\ sender = "open" /\ left = 0 /\ Len(frames) < MaxFrames
    /\ frame.fd
    /\ \/ /\ Len(wire) = SockCap
          /\ sender' = "failed"
          /\ UNCHANGED <<frames, left, wire>>
       \/ \E n \in 1 .. Size(frame) :
             /\ Len(wire) + n <= SockCap
             /\ frames' = Append(frames, frame)
             /\ wire' = wire \o Piece(Len(frames) + 1, 0, n, Len(frames) + 1)
             /\ left' = Size(frame) - n
             /\ UNCHANGED sender
    /\ UNCHANGED recvVars

(* write_all goes on with the rest of the frame as the socket drains.      *)
WriteRest ==
    /\ sender = "open" /\ left > 0
    /\ \E n \in 1 .. left :
          /\ Len(wire) + n <= SockCap
          /\ wire' = wire \o Piece(Len(frames), Size(Last(frames)) - left, n, NoFd)
          /\ left' = left - n
    /\ UNCHANGED <<frames, sender, recvVars>>

(* send_frame refuses a payload beyond MAX_FRAME_LEN before it writes.     *)
SendOversized ==
    /\ sender = "open" /\ left = 0
    /\ sender' = "failed"
    /\ UNCHANGED <<frames, left, wire, recvVars>>

(* The peer closes, perhaps in the middle of a frame.                      *)
Close ==
    /\ sender /= "closed"
    /\ sender' = "closed"
    /\ UNCHANGED <<frames, left, wire, recvVars>>

-----------------------------------------------------------------------------
(* Has recv_frame been given the header of a frame, all of it in order?    *)
(* Anything else is not a magic number that it would accept.               *)
HeaderOf(bytes) ==
    IF \A i \in 1 .. HeaderLen : bytes[i].frame = bytes[1].frame /\ bytes[i].pos = i
    THEN frames[bytes[1].frame]
    ELSE [len |-> 0, fd |-> FALSE, header |-> "magic"]

(* The frame is complete: it is returned, and the next call starts anew.   *)
Return(bytes, attached) ==
    /\ received' = Append(received, [frame |-> bytes[1].frame, fd |-> attached])
    /\ buf' = <<>> /\ need' = HeaderLen /\ cap' = HeaderLen + Slack /\ fd' = NoFd
    /\ UNCHANGED receiver

(* recv_frame returns Err: bad magic, unknown type or oversized length.    *)
Reject ==
    /\ receiver' = "failed"
    /\ UNCHANGED <<buf, need, cap, fd, received>>

Continue(bytes, wanted, room, attached) ==
    /\ buf' = bytes /\ need' = wanted /\ cap' = room /\ fd' = attached
    /\ UNCHANGED <<received, receiver>>

AtLeast(a, b) == IF a >= b THEN a ELSE b

(* Mutant: the buffer keeps its initial capacity.                          *)
ReserveNothing(wanted) == cap

(* buf.reserve: room for the whole frame.                                  *)
Reserve(wanted) == AtLeast(cap, wanted)

(* Mutant: recvmsg fills the buffer, beyond the frame if more is there.    *)
WantAll == cap - Len(buf)

(* Mutant: one byte short.                                                 *)
WantShort == need - Len(buf) - 1

(* What recvmsg may fill: never past the end of this frame.                *)
Want == need - Len(buf)

(* Is what has been read a whole frame?                                    *)
Whole(bytes, wanted) == Len(bytes) >= wanted

(* Mutant: the header is read without looking for ancillary data.          *)
AttachAfterHeader(bytes) ==
    IF need = HeaderLen THEN fd
    ELSE LET carrying == {i \in DOMAIN bytes : bytes[i].fd /= NoFd}
         IN  IF carrying /= {} THEN bytes[CHOOSE i \in carrying : TRUE].fd ELSE fd

(* The descriptor that came with these bytes, unless one is attached.      *)
Attach(bytes) ==
    LET carrying == {i \in DOMAIN bytes : bytes[i].fd /= NoFd}
    IN  IF fd = NoFd /\ carrying /= {}
        THEN bytes[CHOOSE i \in carrying : \A j \in carrying : i <= j].fd
        ELSE fd

(* One turn of recv_frame's loop: a recvmsg for at most what the frame     *)
(* still needs, the header parsed as soon as it is there.                  *)
Receive ==
    /\ receiver = "open" /\ wire /= <<>>
    /\ \E n \in 1 .. Want :
          /\ n <= Len(wire)
          /\ wire' = SubSeq(wire, n + 1, Len(wire))
          /\ LET got == SubSeq(wire, 1, n)
                 all == buf \o got
                 attached == Attach(got)
                 header == HeaderOf(all)
                 wanted == HeaderLen + header.len
             IN  IF need = HeaderLen /\ Len(all) >= HeaderLen
                 THEN IF header.header /= "good" THEN Reject
                      ELSE IF Whole(all, wanted) THEN Return(all, attached)
                      ELSE Continue(all, wanted, Reserve(wanted), attached)
                 ELSE IF need > HeaderLen /\ Whole(all, need) THEN Return(all, attached)
                      ELSE Continue(all, need, cap, attached)
    /\ UNCHANGED sendVars

(* recvmsg returns 0: the peer has closed and everything has been read; or *)
(* it was asked for nothing.                                               *)
ReceiveZero ==
    /\ receiver = "open"
    /\ (wire = <<>> /\ sender = "closed") \/ (wire /= <<>> /\ Want = 0)
    /\ Reject
    /\ UNCHANGED <<sendVars, wire>>

-----------------------------------------------------------------------------
Finished ==
    /\ sender = "closed" /\ receiver = "failed"
    /\ UNCHANGED vars

Next ==
    \/ \E frame \in Frames : SendPlain(frame) \/ SendWithFd(frame)
    \/ SendOversized \/ WriteRest \/ Close
    \/ Receive \/ ReceiveZero
    \/ Finished

Spec == Init /\ [][Next]_vars

(* Both tasks are polled; the peer need not send or close.                 *)
FairSpec == Spec /\ WF_vars(WriteRest) /\ WF_vars(Receive) /\ WF_vars(ReceiveZero)

-----------------------------------------------------------------------------
(* However the socket cuts the stream: the n-th frame recv_frame returns   *)
(* is the n-th that was sent, well-formed, with its own descriptor and no  *)
(* other frame's.                                                          *)
FramesIntact ==
    \A n \in 1 .. Len(received) :
        /\ received[n] = [frame |-> n, fd |-> IF frames[n].fd THEN n ELSE NoFd]
        /\ frames[n].header = "good"

(* The raw slice handed to recvmsg lies within the buffer's allocation.    *)
WithinCapacity == receiver = "open" => need <= cap

(* A frame that is completely written is received, also when the peer      *)
(* closes right after it, unless its header or an earlier one is refused.  *)
Delivered ==
    \A n \in 1 .. MaxFrames :
        Len(frames) >= n /\ (left = 0 \/ Len(frames) > n)
            ~> Len(received) >= n \/ \E m \in 1 .. Len(frames) : m <= n /\ frames[m].header /= "good"

(* A well-formed stream is never refused: recv_frame fails on it only when *)
(* the peer has closed.                                                    *)
NoFalseAlarm ==
    receiver = "failed" /\ sender /= "closed" =>
        \E n \in 1 .. Len(frames) : frames[n].header /= "good"

(***************************************************************************)
(* The inductive invariant behind them: what the bytes in the socket are,  *)
(* and where in the stream the receiver is.                                *)
(***************************************************************************)

(* The byte that is written next, and the j-th byte that is read next:     *)
(* which frame it belongs to and its place in it.                          *)
NextByte ==
    IF left > 0 THEN [frame |-> Len(frames), pos |-> Size(Last(frames)) - left + 1]
    ELSE [frame |-> Len(frames) + 1, pos |-> 1]

ByteAt(j) ==
    IF j <= Len(wire) THEN [frame |-> wire[j].frame, pos |-> wire[j].pos] ELSE NextByte

(* A frame with a descriptor is under way with its first byte at least.    *)
SendInv ==
    /\ Len(frames) <= MaxFrames
    /\ left > 0 => /\ frames /= <<>> /\ left <= Size(Last(frames))
                   /\ Last(frames).fd => left < Size(Last(frames))

(* Each byte in the socket fixes those behind it up to the end of its      *)
(* frame, and the first of the next frame.                                 *)
ByteInv(i) ==
    LET f    == wire[i].frame
        pos  == wire[i].pos
        size == Size(frames[f])
    IN  /\ f \in 1 .. Len(frames) /\ pos \in 1 .. size
        /\ wire[i].fd = IF pos = 1 /\ frames[f].fd THEN f ELSE NoFd
        /\ \A j \in i + 1 .. Len(wire) + 1 :
              /\ pos + j - i <= size => ByteAt(j) = [frame |-> f, pos |-> pos + j - i]
              /\ pos + j - i = size + 1 => ByteAt(j) = [frame |-> f + 1, pos |-> 1]

(* The receiver is in the middle of the frame after those it has returned, *)
(* and has read what is before the next byte of it.                        *)
ThisFrame == Len(received) + 1

RecvInv ==
    receiver = "open" =>
        /\ ByteAt(1) = [frame |-> ThisFrame, pos |-> Len(buf) + 1]
        /\ \A i \in 1 .. Len(buf) : buf[i].frame = ThisFrame /\ buf[i].pos = i
        /\ Len(buf) < need /\ need <= cap
        /\ buf /= <<>> => ThisFrame <= Len(frames)
        /\ need = HeaderLen \/ (need = Size(frames[ThisFrame]) /\ HeaderLen <= Len(buf)
                                /\ frames[ThisFrame].header = "good")
        /\ fd = IF buf /= <<>> /\ frames[ThisFrame].fd THEN ThisFrame ELSE NoFd

WireInv ==
    /\ SendInv
    /\ \A i \in 1 .. Len(wire) : ByteInv(i)
    /\ RecvInv
    /\ Len(received) <= Len(frames)
=============================================================================
