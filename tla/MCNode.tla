------------------------------- MODULE MCNode -------------------------------
\* The machines of the node that do not share state in these models - the
\* dispatcher with the telecommand task, the telemetry task, the redundancy
\* task, a frame on its way - each explored from its own initial state.
EXTENDS Dispatcher, Telemetry, Redundancy, CanFrame

VARIABLE machine

MCQueueLen == [type \in Served |-> IF type = "telecommand" THEN 2 ELSE 1]

\* The dispatcher as the firmware is built: a full queue stops it.
AsBuilt == INSTANCE Dispatcher WITH AssertStops <- TRUE, MaxFrames <- 3

allVars == <<machine, vars, tmVars, redVars, frameVars>>

\* The machines that are not explored stay in one of their initial states.
IdleTm == late = FALSE
IdleRed == master = Silent /\ tardy = FALSE
IdleFrame == message = CHOOSE m \in Message : TRUE

NodeInit ==
  /\ Init /\ TmInit /\ RedInit /\ FrameInit
  /\ \/ machine \in {"dispatcher", "as built"} /\ IdleTm /\ IdleRed /\ IdleFrame
     \/ machine = "telemetry" /\ IdleRed /\ IdleFrame
     \/ machine = "redundancy" /\ IdleTm /\ IdleFrame
     \/ machine = "frame" /\ IdleTm /\ IdleRed

Others(name) ==
  /\ UNCHANGED machine
  /\ name \notin {"dispatcher", "as built"} => UNCHANGED vars
  /\ name # "telemetry" => UNCHANGED tmVars
  /\ name # "redundancy" => UNCHANGED redVars
  /\ name # "frame" => UNCHANGED frameVars

NodeNext ==
  \/ machine = "dispatcher" /\ Next /\ Others("dispatcher")
  \/ machine = "as built" /\ AsBuilt!Next /\ Others("as built")
  \/ machine = "telemetry" /\ TmNext /\ Others("telemetry")
  \/ machine = "redundancy" /\ RedNext /\ Others("redundancy")
  \/ machine = "frame" /\ FrameNext /\ Others("frame")

Disp(action) == machine = "dispatcher" /\ action /\ Others("dispatcher")
Built(action) == machine = "as built" /\ action /\ Others("as built")
Tm(action) == machine = "telemetry" /\ action /\ Others("telemetry")
Red(action) == machine = "redundancy" /\ action /\ Others("redundancy")

\* Ticks go on, every task runs whenever it can, the dispatcher does too, and a
\* master that is up sends; a machine that is not explored takes no step.
NodeSpec ==
  /\ NodeInit /\ [][NodeNext]_allVars
  /\ WF_allVars(Disp(Receive \/ Dispatch) \/ Built(Receive \/ AsBuilt!Dispatch))
  /\ WF_allVars(Disp(TcReceive \/ TcAnswer) \/ Built(TcReceive \/ AsBuilt!TcAnswer))
  /\ WF_allVars(Tm(TmTick)) /\ WF_allVars(Tm(TmStep))
  /\ WF_allVars(Red(cants_unsolicited_handler)) /\ WF_allVars(Red(RedStep))
  /\ WF_allVars(Red(RedTick)) /\ WF_allVars(Red(MasterSends))

\* Keep-alives never stop, however many requests the telemetry task serves.
KeepAlivesSent == machine = "telemetry" => KeepAlivesGoOn
=============================================================================
