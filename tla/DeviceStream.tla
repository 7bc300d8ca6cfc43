---------------------------- MODULE DeviceStream ----------------------------
(***************************************************************************)
(* What a channel to a USB device promises the client that writes to it:   *)
(* the writes the device took whole stand in its stream once each and in   *)
(* the order the client made them, a part of a write stands only before    *)
(* the whole of it, and the client is told of success for a write that is  *)
(* there.  UsbStream implements this module.                               *)
(***************************************************************************)
EXTENDS Sequences, Integers

CONSTANTS Channels, MaxOps

VARIABLES stream,   \* the writes in the stream of each channel, with "whole"
          told      \* the writes reported as taken

dvars == <<stream, told>>

Piece == [op : 1 .. MaxOps, whole : BOOLEAN]

DInit == stream = [c \in Channels |-> <<>>] /\ told = {}

\* Nothing of "op" or of a later write is whole in the stream yet.
Fresh(c, op) == \A k \in DOMAIN stream[c] :
                    /\ stream[c][k].op <= op
                    /\ stream[c][k].whole => stream[c][k].op # op

Take(c, op, whole) ==
    /\ Fresh(c, op)
    /\ stream' = [stream EXCEPT ![c] = Append(@, [op |-> op, whole |-> whole])]
    /\ UNCHANGED told

Tell(c, op) ==
    /\ \E k \in DOMAIN stream[c] : stream[c][k] = [op |-> op, whole |-> TRUE]
    /\ told' = told \cup {op}
    /\ UNCHANGED stream

DNext == \E c \in Channels, op \in 1 .. MaxOps :
             \/ \E whole \in BOOLEAN : Take(c, op, whole)
             \/ Tell(c, op)

DSpec == DInit /\ [][DNext]_dvars
=============================================================================
