------------------------------- MODULE MCParts -------------------------------
\* The parts of the kernel that share no state in these models - the pointers of
\* its lists, its timers, its co-routines, its heaps and the context switch of the
\* port - each explored from its own initial states.
EXTENDS ListRing, Timers, CoRoutines, Heap, Context

VARIABLE part

MCRegions == <<[at |-> 3, size |-> 28], [at |-> 40, size |-> 12]>>

partVars == <<part, ring, tm, cr, heap, cpu>>

\* A part that is not explored stays in one of its initial states.
IdleRing == ring.value = [x \in Items |-> 0]
IdleHeap == heap = NoHeap(1)
IdleCpu == cpu.nvic = FALSE

PartsInit ==
  /\ RingInit /\ TimersInit /\ CrInit /\ HeapInit /\ CpuInit
  /\ \/ part = "list" /\ IdleHeap /\ IdleCpu
     \/ part \in {"timers", "coroutines"} /\ IdleRing /\ IdleHeap /\ IdleCpu
     \/ part = "heap" /\ IdleRing /\ IdleCpu
     \/ part = "cpu" /\ IdleRing /\ IdleHeap

PartsNext ==
  \/ part = "list" /\ RingNext /\ UNCHANGED <<part, tm, cr, heap, cpu>>
  \/ part = "timers" /\ TimersNext /\ UNCHANGED <<part, ring, cr, heap, cpu>>
  \/ part = "coroutines" /\ CrNext /\ UNCHANGED <<part, ring, tm, heap, cpu>>
  \/ part = "heap" /\ HeapNext /\ UNCHANGED <<part, ring, tm, cr, cpu>>
  \/ part = "cpu" /\ CpuNext /\ UNCHANGED <<part, ring, tm, cr, heap>>

PartsSpec == PartsInit /\ [][PartsNext]_partVars
=============================================================================
