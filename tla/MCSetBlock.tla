----------------------------- MODULE MCSetBlock -----------------------------
\* The Set Block task explored from three sets of initial states: with stray
\* frames and a task that may run late ("sessions"), in orderly traffic with a
\* prompt task whose writes finish later ("deadline"), and with one slot and
\* transfers of several blocks ("data").  The constants of the configuration
\* bound those of the first two instances.
EXTENDS SetBlock

CONSTANTS nodeA, p1, p2

VARIABLES
  instance,
  \* the state of the instance "data", named as the state of SetBlock
  dSessions, dPc, dWait, dTindex, dWaited, dData, dJobs, dSent, dSilent, dStored

dataVars == <<dSessions, dPc, dWait, dTindex, dWaited, dData, dJobs, dSent, dSilent,
              dStored>>

Sessions == INSTANCE SetBlock WITH
  AsyncWrite <- FALSE

Deadline == INSTANCE SetBlock WITH
  AbortWhileWriting <- FALSE, Prompt <- TRUE, StrayFrames <- FALSE

Data == INSTANCE SetBlock WITH
  Sources <- {nodeA}, MAX_SB_SESSIONS <- 1, MaxSeq <- 1, BlockLen <- 2,
  ADDRESS_MOD <- 16, Addresses <- {0, 2}, MEM_SIZE <- 4, Payloads <- {p1, p2},
  SB_TIMEOUT <- 1, MAX_DELAY <- 2, AsyncWrite <- FALSE, Prompt <- TRUE,
  sessions <- dSessions, pc <- dPc, wait <- dWait, tindex <- dTindex,
  waited <- dWaited, data <- dData, jobs <- dJobs, sent <- dSent,
  silent <- dSilent, stored <- dStored

MCInit == /\ Init /\ Data!Init
          /\ instance \in {"sessions", "deadline", "data"}

MCNext == /\ UNCHANGED instance
          /\ \/ instance = "sessions" /\ Sessions!Next /\ UNCHANGED dataVars
             \/ instance = "deadline" /\ Deadline!Next /\ UNCHANGED dataVars
             \/ instance = "data" /\ Data!Next /\ UNCHANGED vars

InDeadline(action) ==
  instance = "deadline" /\ action /\ UNCHANGED <<instance, dataVars>>

\* Deadline!Fairness, while that instance is explored.
MCFairness ==
  /\ WF_vars(InDeadline(Deadline!Tick))
  /\ WF_vars(InDeadline(ReceiveTimeout))
  /\ WF_vars(InDeadline(Scan))
  /\ WF_vars(InDeadline(\E j \in jobs : FinishWrite(j)))

MCSpec == MCInit /\ [][MCNext]_<<instance, vars, dataVars>> /\ MCFairness

\* In orderly traffic a prompt task keeps no session past SB_TIMEOUT ticks of
\* silence from its initiator, writes that finish later included.
SessionsEndInTime == instance = "deadline" => ExpiredInTime

\* In orderly traffic, once no frame arrives any more, every slot becomes free
\* for good.
SlotsBecomeFree == instance = "deadline" => QuietSlotsFree

\* The memory holds what the service promises: the blocks of a transfer that was
\* received whole, at the address of its request, and nothing of a transfer that
\* was aborted or timed out before.  This is Data!ImplementsService, of which only
\* the instance "data" takes steps.
StoresTransfers ==
  /\ Data!Service!Init
  /\ [][instance = "data" /\ Data!Service!Next]_(Data!Service!serviceVars)
=============================================================================
