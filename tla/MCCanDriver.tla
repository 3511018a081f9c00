----------------------------- MODULE MCCanDriver -----------------------------
\* The driver explored from two sets of initial states: with errors, bus switches
\* and transmissions that end at any time, and on a calm bus.  The constants of
\* the configuration bound those of both instances.
EXTENDS CanDriver

Faults == INSTANCE CanDriver WITH
  MaxFrames <- 2, CAN_SEND_QUEUE_LEN <- 1, AssertStops <- FALSE

Calm == INSTANCE CanDriver WITH
  MaxArrivals <- 1, MaxErrors <- 0, MaxSwitches <- 0, DISPATCHER_QUEUE_LEN <- 1

MCInit == \/ Faults!Init /\ ~calm
          \/ Calm!Init /\ calm

MCNext == \/ ~calm /\ Faults!Next
          \/ calm /\ Calm!Next

MCSpec == MCInit /\ [][MCNext]_vars /\ Calm!Fairness
=============================================================================
