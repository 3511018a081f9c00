------------------------------ MODULE Context ------------------------------
(***************************************************************************)
(* The context switch of the PicoSkyFT port, port.c and portmacro.h, to    *)
(* the instruction where interrupts may come between two of them.  cpu is  *)
(* a record of                                                             *)
(*   nvic      whether the interrupt controller switches (NVIC), or the    *)
(*             port's own routines                                         *)
(*   reg       the registers: r0 to r31, the five EAR and SREG, in bytes   *)
(*   at        the address of the next instruction                         *)
(*   stack     what the stack pointer of the running task is on            *)
(*   current   pxCurrentTCB                                                *)
(*   top       pxTopOfStack of each task that does not run: its stack      *)
(*   pending   an interrupt of the controller is asked for                 *)
(*   own       each task as it last left its own code: registers, address, *)
(*             stack and how many critical sections it is in               *)
(* own is there for the property only.  An interrupt pushes the address    *)
(* and clears the interrupt flag, rti sets it: the processor is external.  *)
(***************************************************************************)
EXTENDS Integers, Sequences, SequencesExt

CONSTANTS
  CpuTasks,         \* the tasks, numbers
  MaxStack,         \* bound: the bytes on a stack when an interrupt comes
  MaxNest           \* bound: critical sections in each other

VARIABLE cpu

ASSUME ContextAssumption == CpuTasks \subseteq 1..9 /\ CpuTasks # {}

\* The EAR by their numbers, in the order of portSAVE_CONTEXT: X, Y, Z, D, P.
EARs == <<57, 58, 59, 56, 60>>
SREG == 63
Registers == 0..31 \cup ToSet(EARs) \cup {SREG}
portFLAGS_INT_ENABLED == 128

\* The places in the code that are told apart; pxCode and pvParameters of a task
Start == 2000
InTask == 2001
Entering == 2002        \* portENTER_CRITICAL, its ci
Save == 2003            \* portSAVE_CONTEXT, its first push
SaveFlags == 2004       \* its dlq
SaveMask == 2005        \* its ci
Restored == 2006        \* portRESTORE_CONTEXT, its last pop
Return == 2007          \* the instruction behind it
HandlerEnd == 2008      \* timer0_handler, its rti
Entry(t) == 1000 + t
Parameter(t) == 3000 + t

Address(a) == <<a % 256, a \div 256>>
Top(stack) == stack[Len(stack)]
Popped(stack, n) == SubSeq(stack, 1, Len(stack) - n)
AddressOn(stack) == stack[Len(stack) - 1] + 256 * Top(stack)

InterruptsOn(reg) == reg[SREG] >= portFLAGS_INT_ENABLED
WithInterrupts(reg, on) ==
  [reg EXCEPT ![SREG] = (@ % portFLAGS_INT_ENABLED) + (IF on THEN portFLAGS_INT_ENABLED ELSE 0)]

-----------------------------------------------------------------------------
(* Saving and restoring                                                    *)

General == [i \in 1..30 |-> i + 1]

\* From the ci of portSAVE_CONTEXT on: r0 holds SREG as it was.
portSAVE_CONTEXT(c) ==
  c.stack \o <<c.reg[0], c.reg[1]>> \o [i \in 1..5 |-> c.reg[EARs[i]]]
          \o [i \in 1..30 |-> c.reg[General[i]]]

\* Mutant: the EAR come off the stack in the order they went on.
portRESTORE_CONTEXT_EarsInOrder(c, stack) ==
  LET n == Len(stack)
  IN  [c EXCEPT !.stack = Popped(stack, 37), !.at = Restored,
         !.reg = [r \in Registers |->
                    CASE r \in 2..31 -> stack[n - 31 + r]
                      [] r \in ToSet(EARs) -> stack[n - 29 - SelectInSeq(EARs, LAMBDA e : e = r)]
                      [] r = 1 -> stack[n - 35]
                      [] r \in {0, SREG} -> stack[n - 36]]]

\* Up to the dsq that sets SREG: what was pushed last comes off first.
portRESTORE_CONTEXT(c, stack) ==
  LET n == Len(stack)
  IN  [c EXCEPT !.stack = Popped(stack, 37), !.at = Restored,
         !.reg = [r \in Registers |->
                    CASE r \in 2..31 -> stack[n - 31 + r]
                      [] r \in ToSet(EARs) -> stack[n - 35 + SelectInSeq(EARs, LAMBDA e : e = r)]
                      [] r = 1 -> stack[n - 35]
                      [] r \in {0, SREG} -> stack[n - 36]]]

\* The stack of a new task: as a context saved at the start of its code.
pxPortInitialiseStack(t) ==
  <<17, 34, 51>> \o Address(Entry(t)) \o <<0, portFLAGS_INT_ENABLED, 0>> \o <<0, 0, 0, 0, 0>>
    \o [i \in 1..22 |-> ((i + 1) % 10) + 16 * ((i + 1) \div 10)]
    \o Address(Parameter(t)) \o <<38, 39, 40, 41, 48, 49>>

-----------------------------------------------------------------------------
CpuInit ==
  \E nvic \in BOOLEAN :
    cpu = [nvic |-> nvic, reg |-> [r \in Registers |-> 255 * (r % 2)], at |-> Start, stack |-> <<>>,
           current |-> CHOOSE t \in CpuTasks : TRUE, pending |-> FALSE,
           top |-> [t \in CpuTasks |-> pxPortInitialiseStack(t)],
           own |-> [t \in CpuTasks |-> <<>>]]

Context(c, nest) == [reg |-> c.reg, at |-> c.at, stack |-> c.stack, nest |-> nest]

\* A step of the running task in its own code
OwnStep(c, nest) == cpu' = [c EXCEPT !.own[c.current] = Context(c, nest)]
Nest == cpu.own[cpu.current].nest

xPortStartScheduler ==
  /\ cpu.at = Start
  /\ \E t \in CpuTasks : cpu' = portRESTORE_CONTEXT([cpu EXCEPT !.current = t], cpu.top[t])

Begin == cpu.at = Entry(cpu.current) /\ OwnStep([cpu EXCEPT !.at = InTask], 0)

\* The task computes: new values everywhere, in r1 only within a multiplication.
TaskByte(t, flip, r) == (7 * r + 40 * t + 101 * flip) % 256
Work ==
  /\ cpu.at = InTask
  /\ \E flip \in {0, 1} :
       OwnStep([cpu EXCEPT !.reg =
                  [r \in Registers |->
                     CASE r = SREG -> cpu.reg[r] - (cpu.reg[r] % 2) + flip
                       [] r = 1 -> flip
                       [] OTHER -> TaskByte(cpu.current, flip, r)]], Nest)

\* portENTER_CRITICAL: dlq; then ci and push
EnterReads ==
  /\ cpu.at = InTask /\ Nest < MaxNest
  /\ OwnStep([cpu EXCEPT !.reg[0] = cpu.reg[SREG], !.at = Entering], Nest)

EnterMasks ==
  /\ cpu.at = Entering
  /\ OwnStep([cpu EXCEPT !.reg = WithInterrupts(@, FALSE), !.stack = Append(@, cpu.reg[0]),
                         !.at = InTask], Nest + 1)

portEXIT_CRITICAL ==
  /\ cpu.at = InTask /\ Nest > 0
  /\ OwnStep([cpu EXCEPT !.reg[0] = Top(cpu.stack), !.reg[SREG] = Top(cpu.stack),
                         !.stack = Popped(@, 1)], Nest - 1)

\* portYIELD: vPortYield, or the software interrupt of the controller
portYIELD ==
  /\ cpu.at = InTask
  /\ cpu' = IF cpu.nvic THEN [cpu EXCEPT !.pending = TRUE]
            ELSE [cpu EXCEPT !.stack = @ \o Address(InTask), !.at = Save]

Interrupted == cpu.at # Start /\ InterruptsOn(cpu.reg) /\ Len(cpu.stack) =< MaxStack
Taken == [cpu EXCEPT !.stack = @ \o Address(cpu.at), !.reg = WithInterrupts(@, FALSE)]

\* timer0_handler calls vPortYieldFromTick, or pends the other interrupt; what it
\* does to the registers there is undone by the compiler's own code.
timer0_handler ==
  /\ Interrupted
  /\ cpu' = IF cpu.nvic THEN [cpu EXCEPT !.pending = TRUE]
            ELSE [Taken EXCEPT !.stack = @ \o Address(HandlerEnd), !.at = Save]

sti_handler == Interrupted /\ cpu.pending /\ cpu' = [Taken EXCEPT !.pending = FALSE, !.at = Save]

\* The instructions that an interrupt may come between
SavePushes == cpu.at = Save /\ cpu' = [cpu EXCEPT !.stack = Append(@, cpu.reg[0]), !.at = SaveFlags]
SaveReads == cpu.at = SaveFlags /\ cpu' = [cpu EXCEPT !.reg[0] = cpu.reg[SREG], !.at = SaveMask]

\* vPortYield, vPortYieldFromTick and sti_handler from the ci on; the task may stay.
SwitchesContext ==
  /\ cpu.at = SaveMask
  /\ \E t \in CpuTasks :
       LET saved == [cpu.top EXCEPT ![cpu.current] = portSAVE_CONTEXT(cpu)]
       IN  cpu' = portRESTORE_CONTEXT([cpu EXCEPT !.top = saved, !.current = t], saved[t])

RestorePops ==
  /\ cpu.at = Restored
  /\ cpu' = [cpu EXCEPT !.reg[0] = Top(cpu.stack), !.stack = Popped(@, 1), !.at = Return]

Returned == [cpu EXCEPT !.at = AddressOn(cpu.stack), !.stack = Popped(@, 2)]

\* rts at the end of the port's routines, rti at the end of the handlers
RoutineReturns ==
  /\ cpu.at = Return
  /\ cpu' = IF cpu.nvic THEN [Returned EXCEPT !.reg = WithInterrupts(@, TRUE)] ELSE Returned
ReturnsFromInterrupt ==
  cpu.at = HandlerEnd /\ cpu' = [Returned EXCEPT !.reg = WithInterrupts(@, TRUE)]

CpuNext ==
  \/ xPortStartScheduler \/ Begin \/ Work \/ EnterReads \/ EnterMasks \/ portEXIT_CRITICAL
  \/ portYIELD \/ timer0_handler \/ sti_handler \/ SavePushes \/ SaveReads \/ SwitchesContext
  \/ RestorePops \/ RoutineReturns \/ ReturnsFromInterrupt

CpuSpec == CpuInit /\ [][CpuNext]_cpu

-----------------------------------------------------------------------------
\* A task that runs again finds its registers, its flags, its stack and its
\* critical sections as it left them, wherever between two instructions of itself
\* or of the switch an interrupt came; and a new task starts at its code with its
\* parameter, r1 and the EAR zero and interrupts enabled (port.c).
ContextKept ==
  /\ cpu.at \in {InTask, Entering} =>
       Context(cpu, Nest) = cpu.own[cpu.current]
  /\ cpu.at = Entry(cpu.current) =>
       /\ cpu.own[cpu.current] = <<>>
       /\ cpu.reg[24] + 256 * cpu.reg[25] = Parameter(cpu.current)
       /\ \A r \in {1} \cup ToSet(EARs) : cpu.reg[r] = 0
       /\ InterruptsOn(cpu.reg) /\ cpu.stack = <<17, 34, 51>>
=============================================================================
