----------------------------- MODULE Redundancy -----------------------------
(***************************************************************************)
(* Redundancy management (src/protocol/redundancy.c) between the           *)
(* dispatcher, which notifies the task of keep-alives of the redundancy    *)
(* master, and the driver, whose bus the task switches after               *)
(* REDUNDANCY_MAX_MISSES periods without one.  The master sends on one     *)
(* bus, may change it, and may be silent; a frame reaches the dispatcher's *)
(* queue if it comes on the bus the node listens to at that moment.        *)
(***************************************************************************)
EXTENDS Naturals

CONSTANTS
  REDUNDANCY_PERIOD,
  REDUNDANCY_MAX_MISSES,
  REDUNDANCY_MAX_SWITCHES,
  BeatInterval,    \* ticks between two keep-alives of a master that is up, at most
  MaxQueued,       \* bound: keep-alives waiting for the dispatcher
  MaxMoves         \* bound: changes of the master

ASSUME RedundancyAssumption ==
  /\ REDUNDANCY_PERIOD \in Nat \ {0}
  /\ REDUNDANCY_MAX_MISSES \in Nat \ {0}
  /\ REDUNDANCY_MAX_SWITCHES \in Nat
  /\ BeatInterval \in Nat \ {0} /\ MaxQueued \in Nat \ {0} /\ MaxMoves \in Nat

VARIABLES
  bus,        \* the bus of the driver, and the task's local `bus'
  misses, switches,
  notified,   \* ulNotifiedValue of the task
  redPc,      \* before ulTaskNotifyTake, blocked in it, or about to return
  elapsed,    \* ticks the task has been blocked
  queued,     \* keep-alives in the queue of the dispatcher
  master,     \* bus the master sends on, 2 when it is silent
  sinceSent,  \* ticks since the master sent
  moves,      \* changes of the master, for the bound
  tardy,      \* whether time passes while dispatcher or task are ready to run
  silence,    \* history: ticks since the task was notified or switched the bus
  hops        \* history: switches since the task was notified

redVars == <<bus, misses, switches, notified, redPc, elapsed, queued, master,
             sinceSent, moves, tardy, silence, hops>>

Silent == 2
LongSilence == REDUNDANCY_MAX_MISSES * REDUNDANCY_PERIOD

RedTypeOK ==
  /\ bus \in {0, 1}
  /\ misses \in 0..(REDUNDANCY_MAX_MISSES - 1)
  /\ switches \in 0..REDUNDANCY_MAX_SWITCHES
  /\ notified \in Nat
  /\ redPc \in {"take", "blocked", "return"}
  /\ elapsed \in 0..REDUNDANCY_PERIOD
  /\ queued \in 0..MaxQueued
  /\ master \in {0, 1, Silent}
  /\ sinceSent \in 0..BeatInterval
  /\ moves \in 0..MaxMoves
  /\ tardy \in BOOLEAN
  /\ silence \in 0..LongSilence
  /\ hops \in Nat

RedInit ==
  /\ bus = 0 /\ misses = 0 /\ switches = 0 /\ notified = 0
  /\ redPc = "take" /\ elapsed = 0 /\ queued = 0
  /\ master \in {0, 1, Silent} /\ sinceSent = 0 /\ moves = 0
  /\ tardy \in BOOLEAN
  /\ silence = 0 /\ hops = 0

-----------------------------------------------------------------------------
(* The master, the bus and the dispatcher                                  *)

\* The master changes its bus, falls silent or comes back.
MasterMoves ==
  /\ moves < MaxMoves /\ moves' = moves + 1
  /\ \E to \in {0, 1, Silent} \ {master} : master' = to
  /\ sinceSent' = 0
  /\ UNCHANGED <<bus, misses, switches, notified, redPc, elapsed, queued, silence, hops, tardy>>

\* The handler of the selected controller queues the keep-alive; the other drops it.
MasterSends ==
  /\ master # Silent /\ sinceSent > 0
  /\ queued + notified < MaxQueued
  /\ queued' = IF master = bus THEN queued + 1 ELSE queued
  /\ sinceSent' = 0
  /\ UNCHANGED <<bus, misses, switches, notified, redPc, elapsed, master, moves,
                 silence, hops, tardy>>

\* xTaskNotifyGive from the dispatcher task wakes the task if it waits.
cants_unsolicited_handler ==
  /\ queued > 0 /\ queued' = queued - 1
  /\ notified' = notified + 1
  /\ redPc' = IF redPc = "blocked" THEN "return" ELSE redPc
  /\ silence' = 0 /\ hops' = 0
  /\ UNCHANGED <<bus, misses, switches, elapsed, master, sinceSent, moves, tardy>>

-----------------------------------------------------------------------------
(* The task                                                                *)

\* ulTaskNotifyTake blocks unless notifications are pending.
Take ==
  /\ redPc = "take"
  /\ redPc' = IF notified = 0 THEN "blocked" ELSE "return"
  /\ elapsed' = 0
  /\ UNCHANGED <<bus, misses, switches, notified, queued, master, sinceSent, moves,
                 silence, hops, tardy>>

\* Mutant: a period without keep-alive is remembered across one with.
Heard_KeepsMisses ==
  /\ redPc = "return" /\ notified > 0
  /\ notified' = 0 /\ switches' = 0
  /\ redPc' = "take"
  /\ UNCHANGED <<bus, misses, elapsed, queued, master, sinceSent, moves, silence, hops, tardy>>

\* It returns after keep-alives: pdTRUE clears them all.
Heard ==
  /\ redPc = "return" /\ notified > 0
  /\ notified' = 0
  /\ misses' = 0 /\ switches' = 0
  /\ redPc' = "take"
  /\ UNCHANGED <<bus, elapsed, queued, master, sinceSent, moves, silence, hops, tardy>>

\* It returns 0, and there may be further periods to come.
Missed ==
  /\ redPc = "return" /\ notified = 0
  /\ misses + 1 < REDUNDANCY_MAX_MISSES
  /\ misses' = misses + 1
  /\ redPc' = "take"
  /\ UNCHANGED <<bus, switches, notified, elapsed, queued, master, sinceSent, moves,
                 silence, hops, tardy>>

MayHop == switches < REDUNDANCY_MAX_SWITCHES

\* The last period without keep-alive: the bus is switched, if it may be.
GiveUpBus ==
  /\ redPc = "return" /\ notified = 0
  /\ misses + 1 >= REDUNDANCY_MAX_MISSES
  /\ IF MayHop
     THEN bus' = 1 - bus /\ switches' = switches + 1 /\ hops' = hops + 1 /\ silence' = 0
     ELSE UNCHANGED <<bus, switches, hops, silence>>
  /\ misses' = 0
  /\ redPc' = "take"
  /\ UNCHANGED <<notified, elapsed, queued, master, sinceSent, moves, tardy>>

\* A tick ends the block time of the task after REDUNDANCY_PERIOD of them.  A
\* master that is up has sent in time, and what is ready has run.
RedTick ==
  /\ tardy \/ (redPc = "blocked" /\ queued = 0)
  /\ master # Silent => sinceSent < BeatInterval
  /\ IF redPc = "blocked"
     THEN /\ elapsed' = elapsed + 1
          /\ redPc' = IF elapsed + 1 = REDUNDANCY_PERIOD THEN "return" ELSE "blocked"
     ELSE UNCHANGED <<elapsed, redPc>>
  /\ sinceSent' = IF master = Silent THEN 0 ELSE sinceSent + 1
  /\ silence' = IF silence < LongSilence THEN silence + 1 ELSE silence
  /\ UNCHANGED <<bus, misses, switches, notified, queued, master, moves, hops, tardy>>

RedStep == Take \/ Heard \/ Missed \/ GiveUpBus

RedNext == MasterMoves \/ MasterSends \/ cants_unsolicited_handler \/ RedStep \/ RedTick

RedSpec == RedInit /\ [][RedNext]_redVars

-----------------------------------------------------------------------------
(* Properties                                                              *)

\* The bus is only switched when REDUNDANCY_MAX_MISSES full periods have passed
\* since the last keep-alive the task was notified of, and since the last
\* switch, also when a notification races with the end of a period.
SwitchOnlyAfterSilence == [][bus' # bus => silence >= LongSilence]_redVars

\* Without a keep-alive in between the bus is switched at most
\* REDUNDANCY_MAX_SWITCHES times, whatever keep-alives were cleared together.
SwitchesBounded == hops <= REDUNDANCY_MAX_SWITCHES

\* The bus is switched only after silence, and not too often without a keep-alive.
SwitchesJustified == SwitchOnlyAfterSilence /\ [](RedTypeOK /\ SwitchesBounded)

\* If the master stays on one bus from some moment on, and sends often enough,
\* and dispatcher and task are prompt, the node ends up on that bus for good, or
\* has used up its switches.
FindsMaster ==
  \A b \in {0, 1} :
    <>[](master = b /\ ~tardy) => <>[](bus = b) \/ <>[](switches = REDUNDANCY_MAX_SWITCHES)
=============================================================================
