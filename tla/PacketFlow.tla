----------------------------- MODULE PacketFlow -----------------------------
(* What a connection promises to the two sides it joins, whatever threads,   *)
(* buffers, locks and timers it is made of:                                  *)
(*   - the packets of the peer are taken over one at a time, and a packet is *)
(*     handled before the next one is taken;                                 *)
(*   - the outputs of the server reach the peer in the order in which they   *)
(*     were accepted, each at most once;                                     *)
(*   - once it is closed it takes nothing more, although it may still        *)
(*     deliver what it accepted before.                                      *)
EXTENDS Naturals, Sequences

CONSTANT Packets  \* the packets of the peer, numbered in its order

VARIABLES
  taken,      \* the packets taken over for handling, in order
  handled,    \* the packets handled, in order
  accepted,   \* the number of outputs accepted
  delivered,  \* the outputs that reached the peer, in order
  shut        \* the connection is closed

flowVars == <<taken, handled, accepted, delivered, shut>>

FlowInit ==
  /\ taken = <<>>
  /\ handled = <<>>
  /\ accepted = 0
  /\ delivered = <<>>
  /\ shut = FALSE

Take ==
  /\ ~shut
  /\ Len(taken) = Len(handled)
  /\ \E p \in Packets :
       /\ \A i \in DOMAIN taken : taken[i] < p
       /\ taken' = Append(taken, p)
  /\ UNCHANGED <<handled, accepted, delivered, shut>>

Handle ==
  /\ Len(handled) < Len(taken)
  /\ handled' = Append(handled, taken[Len(handled) + 1])
  /\ UNCHANGED <<taken, accepted, delivered, shut>>

\* A step may accept an output and close at once: a refusal and its reason.
Accept ==
  /\ ~shut
  /\ accepted' = accepted + 1
  /\ shut' \in BOOLEAN
  /\ UNCHANGED <<taken, handled, delivered>>

Deliver ==
  /\ Len(delivered) < accepted
  /\ delivered' = Append(delivered, Len(delivered) + 1)
  /\ UNCHANGED <<taken, handled, accepted, shut>>

Shut ==
  /\ ~shut
  /\ shut' = TRUE
  /\ UNCHANGED <<taken, handled, accepted, delivered>>

FlowNext == Take \/ Handle \/ Accept \/ Deliver \/ Shut

FlowSpec == FlowInit /\ [][FlowNext]_flowVars
=============================================================================
