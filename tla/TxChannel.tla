------------------------------ MODULE TxChannel ------------------------------
(***************************************************************************)
(* What the transmit side of the CAN driver promises its callers: frames   *)
(* leave on the bus in the order in which cants_send_msg accepted them,    *)
(* each of them once.                                                      *)
(***************************************************************************)
EXTENDS Sequences

CONSTANTS Frames

VARIABLES
  pending,   \* frames accepted and not yet on the bus
  onBus      \* frames sent, in order

channelVars == <<pending, onBus>>

Init == pending = <<>> /\ onBus = <<>>

\* Only a frame never accepted before enters the channel.
Fresh(frame) ==
  /\ \A n \in DOMAIN pending : pending[n] # frame
  /\ \A n \in DOMAIN onBus : onBus[n] # frame

Accept(frame) ==
  /\ Fresh(frame)
  /\ pending' = Append(pending, frame)
  /\ UNCHANGED onBus

Transmit ==
  /\ pending # <<>>
  /\ onBus' = Append(onBus, Head(pending))
  /\ pending' = Tail(pending)

Next == Transmit \/ \E frame \in Frames : Accept(frame)

Spec == Init /\ [][Next]_channelVars
=============================================================================
