----------------------------- MODULE FrameQueue -----------------------------
(***************************************************************************)
(* What the ring between the reader of a channel and the server of the     *)
(* protocol stands for: a bounded queue, out of which the server fills one *)
(* push frame after another.  UsbFollow implements this module.            *)
(***************************************************************************)
EXTENDS Naturals, Sequences

CONSTANTS Byte, CAPACITY, READ_MAX

VARIABLES queue,   \* the bytes that wait
          part     \* the bytes of the frame the server fills

qvars == <<queue, part>>

QInit == queue = <<>> /\ part = <<>>

Put(b) == /\ Len(queue) < CAPACITY
          /\ queue' = Append(queue, b)
          /\ UNCHANGED part

Take == /\ queue # <<>> /\ Len(part) < READ_MAX
        /\ part' = Append(part, Head(queue))
        /\ queue' = Tail(queue)

SendPart == part # <<>> /\ part' = <<>> /\ UNCHANGED queue

QNext == Take \/ SendPart \/ \E b \in Byte : Put(b)

QSpec == QInit /\ [][QNext]_qvars
=============================================================================
