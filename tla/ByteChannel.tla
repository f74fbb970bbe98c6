---------------------------- MODULE ByteChannel ----------------------------
(***************************************************************************)
(* What a serial line promises a program that reads in time: the bytes     *)
(* sent are delivered once each, in order, unchanged, and eventually.      *)
(***************************************************************************)
EXTENDS Naturals, Sequences

CONSTANTS Byte, Capacity    \* Capacity: bytes sent and not yet delivered

VARIABLES chan,   \* bytes sent and not yet delivered
          got,    \* the byte last delivered
          turn    \* flips with each delivery

chanVars == <<chan, got, turn>>

ChanInit == chan = <<>> /\ got \in Byte /\ turn = 0

Send(b) == /\ Len(chan) < Capacity
           /\ chan' = Append(chan, b)
           /\ UNCHANGED <<got, turn>>

Deliver(rest) == /\ chan # <<>>
                 /\ got' = Head(chan)
                 /\ turn' = 1 - turn
                 /\ chan' = Tail(chan) \o rest

DeliverAny == Deliver(<<>>) \/ (\E b \in Byte : Deliver(<<b>>))

ChanNext == (\E b \in Byte : Send(b)) \/ DeliverAny

ChanSpec == ChanInit /\ [][ChanNext]_chanVars /\ WF_chanVars(DeliverAny)
=============================================================================
