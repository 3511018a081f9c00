-------------------------- MODULE Portable_proofs --------------------------
(***************************************************************************)
(* Theorems about the parts of the kernel beside its tasks and queues.     *)
(*                                                                         *)
(* The context switch of the port, for any number of tasks, of critical    *)
(* sections in each other and of bytes on the stacks: a task that runs     *)
(* again finds everything as it left it.  The allocators of Heap, for      *)
(* every alignment, size of the block header, array of regions and         *)
(* sequence of requests and releases.  The co-routines, for any number of  *)
(* them, of priorities, of messages in the queue and of ticks before the   *)
(* count wraps.                                                            *)
(***************************************************************************)
EXTENDS Context, Heap, CoRoutines, Rows, SequenceTheorems

-----------------------------------------------------------------------------
(* The context switch                                                      *)

Byte == 0..255
Regs == [Registers -> Byte]
Stacks == Seq(Byte)
Addresses == 0..65535

-----------------------------------------------------------------------------
(* Stacks                                                                  *)

LEMMA RegisterNumbers ==
  /\ \A r : r \in Registers <=> r \in 0..31 \/ r \in {56, 57, 58, 59, 60, 63}
  /\ ToSet(EARs) = {56, 57, 58, 59, 60}
<1>1. ToSet(EARs) = {56, 57, 58, 59, 60}
  BY DEF ToSet, EARs
<1> QED
  BY <1>1 DEF Registers, SREG

\* What is left when k bytes are popped.
LEMMA PoppedPart ==
  ASSUME NEW stack \in Stacks, NEW all \in Stacks, NEW k \in Nat, Len(all) = Len(stack) + k,
         \A n \in 1..Len(stack) : all[n] = stack[n]
  PROVE  Popped(all, k) = stack
<1> DEFINE part == SubSeq(all, 1, Len(stack))
<1>1. Len(all) - k = Len(stack) /\ Len(stack) \in Nat
  BY DEF Stacks
<1>2. part \in Stacks /\ Len(part) = Len(stack) /\ \A n \in 1..Len(stack) : part[n] = all[n]
  BY <1>1 DEF Stacks
<1>3. part = stack
  BY <1>2 DEF Stacks
<1> QED
  BY <1>1, <1>3 DEF Popped

\* What is pushed last comes off first.
LEMMA Pops ==
  ASSUME NEW stack \in Stacks, NEW top \in Stacks
  PROVE  /\ stack \o top \in Stacks
         /\ Len(stack \o top) = Len(stack) + Len(top)
         /\ Popped(stack \o top, Len(top)) = stack
         /\ \A n \in 1..Len(stack) : (stack \o top)[n] = stack[n]
         /\ \A n \in 1..Len(top) : (stack \o top)[Len(stack) + n] = top[n]
<1>1. /\ stack \o top \in Stacks /\ Len(stack \o top) = Len(stack) + Len(top)
      /\ Len(stack) \in Nat /\ Len(top) \in Nat
      /\ \A n \in 1..Len(stack) : (stack \o top)[n] = stack[n]
      /\ \A n \in 1..Len(top) : (stack \o top)[Len(stack) + n] = top[n]
  BY DEF Stacks
<1> QED
  BY <1>1, PoppedPart

LEMMA PushOne ==
  ASSUME NEW stack \in Stacks, NEW byte \in Byte
  PROVE  /\ Append(stack, byte) \in Stacks
         /\ Top(Append(stack, byte)) = byte
         /\ Popped(Append(stack, byte), 1) = stack
         /\ Len(Append(stack, byte)) = Len(stack) + 1
<1> DEFINE top == <<byte>>  all == stack \o top
<1>1. /\ Append(stack, byte) = all /\ top \in Stacks /\ Len(top) = 1 /\ top[1] = byte
      /\ Len(stack) \in Nat
  BY DEF Stacks
<1> HIDE DEF top
<1>2. /\ all \in Stacks /\ Len(all) = Len(stack) + Len(top) /\ Popped(all, Len(top)) = stack
      /\ \A n \in 1..Len(top) : all[Len(stack) + n] = top[n]
  BY <1>1, Pops
<1> HIDE DEF all
<1> QED
  BY <1>1, <1>2 DEF Top

\* An address that was pushed is the address returned to.
LEMMA PushAddress ==
  ASSUME NEW stack \in Stacks, NEW a \in Addresses
  PROVE  /\ stack \o Address(a) \in Stacks
         /\ AddressOn(stack \o Address(a)) = a
         /\ Popped(stack \o Address(a), 2) = stack
<1> DEFINE low == a % 256  high == a \div 256
<1>1. low \in Byte /\ high \in Byte /\ low + 256 * high = a
  BY DEF Byte, Addresses
<1>2. Address(a) = <<low, high>>
  BY DEF Address
<1> HIDE DEF low, high
<1> DEFINE pair == Address(a)  all == stack \o pair
<1>3. pair \in Stacks /\ Len(pair) = 2 /\ pair[1] = low /\ pair[2] = high /\ Len(stack) \in Nat
  BY <1>1, <1>2 DEF Stacks
<1> HIDE DEF pair
<1>4. /\ all \in Stacks /\ Len(all) = Len(stack) + Len(pair) /\ Popped(all, Len(pair)) = stack
      /\ \A n \in 1..Len(pair) : all[Len(stack) + n] = pair[n]
  <2>1. pair \in Stacks /\ stack \in Stacks
    BY <1>3
  <2>2. stack \o pair \in Stacks
    BY <2>1, Pops
  <2>3. Len(stack \o pair) = Len(stack) + Len(pair)
    BY <2>1, Pops
  <2>4. Popped(stack \o pair, Len(pair)) = stack
    BY <2>1, Pops
  <2>5. \A n \in 1..Len(pair) : (stack \o pair)[Len(stack) + n] = pair[n]
    BY <2>1, Pops
  <2> QED
    BY <2>2, <2>3, <2>4, <2>5 DEF all
<1> HIDE DEF all
<1>5. /\ all \in Stacks /\ Len(all) = Len(stack) + 2 /\ Popped(all, 2) = stack
      /\ all[Len(stack) + 1] = low /\ all[Len(stack) + 2] = high
  BY <1>3, <1>4
<1>6. AddressOn(all) = a
  BY <1>1, <1>3, <1>5 DEF AddressOn, Top
<1> QED
  BY <1>5, <1>6 DEF all, pair

-----------------------------------------------------------------------------
(* Saving and restoring                                                    *)

\* The place of an EAR among the five.
EarPlace(r) == SelectInSeq(EARs, LAMBDA e : e = r)

LEMMA EarPlaceOf ==
  ASSUME NEW i \in 1..5, NEW r, r = EARs[i]
  PROVE  EarPlace(r) = i
<1>1. Len(EARs) = 5 /\ {j \in 1..5 : EARs[j] = r} = {i}
  BY DEF EARs
<1>2. \A j : (j \in {i} /\ \A k \in {i} : j <= k) <=> j = i
  OBVIOUS
<1>3. Min({i}) = i
  BY <1>2 DEF Min
<1> QED
  BY <1>1, <1>3 DEF EarPlace, SelectInSeq

\* The registers and the stack, as portSAVE_CONTEXT leaves them on the stack.
Saved(reg, stack) == portSAVE_CONTEXT([reg |-> reg, stack |-> stack])

\* Where portSAVE_CONTEXT puts what.
LEMMA SavedLayout ==
  ASSUME NEW reg \in Regs, NEW stack \in Stacks
  PROVE  /\ Saved(reg, stack) \in Stacks
         /\ Len(Saved(reg, stack)) = Len(stack) + 37
         /\ Popped(Saved(reg, stack), 37) = stack
         /\ Saved(reg, stack)[Len(stack) + 1] = reg[0]
         /\ Saved(reg, stack)[Len(stack) + 2] = reg[1]
         /\ \A i \in 1..5 : Saved(reg, stack)[Len(stack) + 2 + i] = reg[EARs[i]]
         /\ \A r \in 2..31 : Saved(reg, stack)[Len(stack) + 6 + r] = reg[r]
<1> DEFINE s1 == <<reg[0], reg[1]>>
           s2 == [i \in 1..5 |-> reg[EARs[i]]]
           s3 == [i \in 1..30 |-> reg[General[i]]]
           t1 == stack \o s1
           t2 == t1 \o s2
           t3 == t2 \o s3
<1>1. /\ \A r \in 0..31 : reg[r] \in Byte
      /\ \A i \in 1..5 : reg[EARs[i]] \in Byte
      /\ \A i \in 1..30 : General[i] = i + 1 /\ reg[General[i]] \in Byte
  <2>1. \A i \in 1..5 : EARs[i] \in {56, 57, 58, 59, 60}
    BY DEF EARs
  <2>2. \A i \in 1..30 : General[i] = i + 1 /\ i + 1 \in 0..31
    BY DEF General
  <2> QED
    BY <2>1, <2>2, RegisterNumbers DEF Regs
<1>2. s1 \in Stacks /\ Len(s1) = 2 /\ s1[1] = reg[0] /\ s1[2] = reg[1]
  BY <1>1 DEF Stacks
<1>3. s2 \in Stacks /\ Len(s2) = 5 /\ \A i \in 1..5 : s2[i] = reg[EARs[i]]
  BY <1>1 DEF Stacks
<1>4. s3 \in Stacks /\ Len(s3) = 30 /\ \A i \in 1..30 : s3[i] = reg[i + 1]
  <2> DEFINE value(i) == reg[General[i]]
  <2>1. \A i \in 1..30 : value(i) \in Byte /\ value(i) = reg[i + 1]
    BY <1>1
  <2> HIDE DEF value
  <2>2. [i \in 1..30 |-> value(i)] \in Stacks /\ Len([i \in 1..30 |-> value(i)]) = 30
    BY <2>1 DEF Stacks
  <2>3. \A i \in 1..30 : [k \in 1..30 |-> value(k)][i] = reg[i + 1]
    BY <2>1
  <2> QED
    BY <2>2, <2>3 DEF value
<1>5. Saved(reg, stack) = t3
  BY DEF Saved, portSAVE_CONTEXT
<1> HIDE DEF s1, s2, s3
<1>6. /\ t1 \in Stacks /\ Len(t1) = Len(stack) + Len(s1)
      /\ \A n \in 1..Len(s1) : t1[Len(stack) + n] = s1[n]
      /\ \A n \in 1..Len(stack) : t1[n] = stack[n]
  BY <1>2, Pops, Zenon
<1> HIDE DEF t1
<1>7. /\ t2 \in Stacks /\ Len(t2) = Len(t1) + Len(s2)
      /\ \A n \in 1..Len(s2) : t2[Len(t1) + n] = s2[n]
      /\ \A n \in 1..Len(t1) : t2[n] = t1[n]
  BY <1>3, <1>6, Pops, Zenon
<1> HIDE DEF t2
<1>8. /\ t3 \in Stacks /\ Len(t3) = Len(t2) + Len(s3)
      /\ \A n \in 1..Len(s3) : t3[Len(t2) + n] = s3[n]
      /\ \A n \in 1..Len(t2) : t3[n] = t2[n]
  BY <1>4, <1>7, Pops, Zenon
<1> DEFINE n == Len(stack)
<1>9. n \in Nat
  BY DEF Stacks
<1> HIDE DEF t3
<1>10. Popped(t3, 37) = stack
  <2>1. /\ Len(t3) = n + 37 /\ \A k \in 1..n : t3[k] = stack[k]
    <3>1. Len(t1) = n + 2 /\ Len(t2) = n + 7 /\ Len(t3) = n + 37
      BY <1>2, <1>3, <1>4, <1>6, <1>7, <1>8, <1>9
    <3>2. \A k \in 1..n : k \in 1..(n + 2) /\ k \in 1..(n + 7)
      BY <1>9
    <3> QED
      BY <1>6, <1>7, <1>8, <3>1, <3>2
  <2> QED
    BY <1>8, <2>1, PoppedPart
<1>11. /\ Len(t1) = n + 2 /\ Len(t2) = n + 7 /\ Len(t3) = n + 37
       /\ t1[n + 1] = reg[0] /\ t1[n + 2] = reg[1]
  <2>1. Len(t1) = n + 2 /\ Len(t2) = n + 7 /\ Len(t3) = n + 37
    BY <1>2, <1>3, <1>4, <1>6, <1>7, <1>8, <1>9
  <2>2. 1 \in 1..Len(s1) /\ 2 \in 1..Len(s1)
    BY <1>2
  <2>3. t1[n + 1] = s1[1] /\ t1[n + 2] = s1[2]
    BY <1>6, <2>2
  <2> QED
    BY <1>2, <2>1, <2>3
<1>12. t3[n + 1] = reg[0] /\ t3[n + 2] = reg[1]
  BY <1>7, <1>8, <1>9, <1>11
<1>13. ASSUME NEW i \in 1..5 PROVE t3[n + 2 + i] = reg[EARs[i]]
  <2>1. t2[n + 2 + i] = reg[EARs[i]]
    BY <1>3, <1>7, <1>9, <1>11
  <2>2. n + 2 + i \in 1..(n + 7)
    BY <1>9
  <2> QED
    BY <1>8, <1>11, <2>1, <2>2
<1>14. ASSUME NEW r \in 2..31 PROVE t3[n + 6 + r] = reg[r]
  <2>1. r - 1 \in 1..30 /\ (r - 1) + 1 = r /\ n + 6 + r = n + 7 + (r - 1)
    BY <1>9
  <2>2. t3[n + 7 + (r - 1)] = s3[r - 1]
    BY <1>4, <1>8, <1>11, <2>1
  <2> QED
    BY <1>4, <2>1, <2>2
<1> QED
  BY <1>5, <1>8, <1>10, <1>11, <1>12, <1>13, <1>14 DEF n

\* The processor as portRESTORE_CONTEXT leaves it.
Continued(c, reg, stack) == [c EXCEPT !.stack = stack, !.at = Restored, !.reg = reg]

\* portRESTORE_CONTEXT undoes portSAVE_CONTEXT, where r0 held SREG.
LEMMA RestoreSaved ==
  ASSUME NEW c, NEW reg \in Regs, NEW stack \in Stacks, reg[0] = reg[SREG]
  PROVE  portRESTORE_CONTEXT(c, Saved(reg, stack)) = Continued(c, reg, stack)
<1> DEFINE all == Saved(reg, stack)
           n == Len(all)
           value(r) == CASE r \in 2..31 -> all[n - 31 + r]
                         [] r \in ToSet(EARs) -> all[n - 35 + EarPlace(r)]
                         [] r = 1 -> all[n - 35]
                         [] r \in {0, SREG} -> all[n - 36]
<1> HIDE DEF value
<1>1. /\ n = Len(stack) + 37 /\ Len(stack) \in Nat /\ Popped(all, 37) = stack
      /\ all[Len(stack) + 1] = reg[0] /\ all[Len(stack) + 2] = reg[1]
      /\ \A i \in 1..5 : all[Len(stack) + 2 + i] = reg[EARs[i]]
      /\ \A r \in 2..31 : all[Len(stack) + 6 + r] = reg[r]
  <2>1. Len(stack) \in Nat
    BY DEF Stacks
  <2>2. n = Len(stack) + 37 /\ Popped(all, 37) = stack
    BY SavedLayout
  <2>3. all[Len(stack) + 1] = reg[0] /\ all[Len(stack) + 2] = reg[1]
    BY SavedLayout
  <2>4. \A i \in 1..5 : all[Len(stack) + 2 + i] = reg[EARs[i]]
    BY SavedLayout
  <2>5. \A r \in 2..31 : all[Len(stack) + 6 + r] = reg[r]
    BY SavedLayout
  <2> QED
    BY <2>1, <2>2, <2>3, <2>4, <2>5
<1> HIDE DEF all, n
<1>2. ASSUME NEW r \in Registers PROVE value(r) = reg[r]
  <2>0. value(r) = CASE r \in 2..31 -> all[n - 31 + r]
                     [] r \in ToSet(EARs) -> all[n - 35 + EarPlace(r)]
                     [] r = 1 -> all[n - 35]
                     [] r \in {0, SREG} -> all[n - 36]
    BY DEF value
  <2>1. CASE r \in 2..31
    <3>1. n - 31 + r = Len(stack) + 6 + r
      BY <1>1, <2>1
    <3>2. value(r) = all[n - 31 + r]
      <4>1. r \notin ToSet(EARs) /\ r # 1 /\ r \notin {0, SREG}
        BY <2>1, RegisterNumbers DEF SREG
      <4> QED
        BY <2>0, <2>1, <4>1
    <3> QED
      BY <1>1, <2>1, <3>1, <3>2
  <2>2. CASE r \in ToSet(EARs)
    <3>1. PICK i \in 1..5 : r = EARs[i]
      BY <2>2, RegisterNumbers DEF EARs
    <3>2. EarPlace(r) = i
      BY <3>1, EarPlaceOf
    <3>3. r \notin 2..31 /\ r # 1 /\ r \notin {0, SREG}
      BY <2>2, RegisterNumbers DEF SREG
    <3>4. value(r) = all[n - 35 + i] /\ n - 35 + i = Len(stack) + 2 + i
      BY <1>1, <2>0, <2>2, <3>2, <3>3
    <3> QED
      BY <1>1, <3>1, <3>4
  <2>3. CASE r = 1
    <3>1. r \notin 2..31 /\ r \notin ToSet(EARs) /\ r \notin {0, SREG}
      BY <2>3, RegisterNumbers DEF SREG
    <3>2. value(r) = all[n - 35] /\ n - 35 = Len(stack) + 2
      BY <1>1, <2>0, <2>3, <3>1
    <3> QED
      BY <1>1, <2>3, <3>2
  <2>4. CASE r \in {0, SREG}
    <3>1. r \notin 2..31 /\ r \notin ToSet(EARs) /\ r # 1
      BY <2>4, RegisterNumbers DEF SREG
    <3>2. value(r) = all[n - 36] /\ n - 36 = Len(stack) + 1
      BY <1>1, <2>0, <2>4, <3>1
    <3> QED
      BY <1>1, <2>4, <3>2
  <2> QED
    BY <2>1, <2>2, <2>3, <2>4, RegisterNumbers DEF SREG
<1>3. [r \in Registers |-> value(r)] = reg
  <2>1. reg = [r \in Registers |-> reg[r]]
    BY DEF Regs
  <2> QED
    BY <1>2, <2>1
<1>4. portRESTORE_CONTEXT(c, all)
        = [c EXCEPT !.stack = Popped(all, 37), !.at = Restored,
                    !.reg = [r \in Registers |-> value(r)]]
  BY DEF portRESTORE_CONTEXT, n, value, EarPlace
<1> QED
  BY <1>1, <1>3, <1>4 DEF all, Continued

-----------------------------------------------------------------------------
(* The interrupt flag                                                      *)

LEMMA Flags ==
  ASSUME NEW reg \in Regs
  PROVE  /\ \A on \in BOOLEAN : WithInterrupts(reg, on) \in Regs
         /\ ~InterruptsOn(WithInterrupts(reg, FALSE))
         /\ InterruptsOn(reg) => /\ WithInterrupts(reg, TRUE) = reg
                                 /\ WithInterrupts(WithInterrupts(reg, FALSE), TRUE) = reg
<1> DEFINE flags == reg[SREG]  off == WithInterrupts(reg, FALSE)
<1>1. SREG \in Registers /\ flags \in Byte
  BY RegisterNumbers DEF Regs, SREG
<1>2. /\ flags % 128 \in 0..127 /\ (flags % 128) % 128 = flags % 128
      /\ flags >= 128 => (flags % 128) + 128 = flags
  BY <1>1 DEF Byte
<1>3. /\ WithInterrupts(reg, TRUE) = [reg EXCEPT ![SREG] = (flags % 128) + 128]
      /\ off = [reg EXCEPT ![SREG] = flags % 128]
  <2>1. (flags % 128) + 0 = flags % 128
    BY <1>2
  <2> QED
    BY <2>1 DEF WithInterrupts, portFLAGS_INT_ENABLED
<1> HIDE DEF off
<1>4. off \in Regs /\ off[SREG] = flags % 128
  BY <1>1, <1>2, <1>3 DEF Regs, Byte
<1>5. WithInterrupts(reg, TRUE) \in Regs
  <2>1. (flags % 128) + 128 \in Byte
    BY <1>2 DEF Byte
  <2> QED
    BY <1>3, <2>1 DEF Regs
<1>6. \A on \in BOOLEAN : on = TRUE \/ on = FALSE
  OBVIOUS
<1>7. ~InterruptsOn(off)
  BY <1>2, <1>4 DEF InterruptsOn, portFLAGS_INT_ENABLED
<1>8. ASSUME InterruptsOn(reg)
      PROVE  WithInterrupts(reg, TRUE) = reg /\ WithInterrupts(off, TRUE) = reg
  <2>1. (flags % 128) + 128 = flags /\ (off[SREG] % 128) + 128 = flags
    BY <1>2, <1>4, <1>8 DEF InterruptsOn, portFLAGS_INT_ENABLED
  <2>2. WithInterrupts(off, TRUE) = [off EXCEPT ![SREG] = (off[SREG] % 128) + 128]
    BY DEF WithInterrupts, portFLAGS_INT_ENABLED
  <2>3. [reg EXCEPT ![SREG] = flags] = reg
    BY <1>1 DEF Regs
  <2>4. [off EXCEPT ![SREG] = flags] = reg
    BY <1>1, <1>3 DEF Regs
  <2> QED
    BY <1>3, <2>1, <2>2, <2>3, <2>4
<1> QED
  BY <1>4, <1>5, <1>6, <1>7, <1>8 DEF off

-----------------------------------------------------------------------------
(* What a task comes back to                                               *)

\* What a task was when it last left its own code; nothing before it began.
Contexts ==
  {o \in [reg : Regs, at : {InTask, Entering}, stack : Stacks, nest : Nat] :
     Len(o.stack) = o.nest + 3}
Owns == Contexts \cup {<<>>}

\* The registers a new task starts with.
Fresh(t, reg) ==
  /\ reg[24] + 256 * reg[25] = Parameter(t)
  /\ \A r \in {1} \cup ToSet(EARs) : reg[r] = 0
  /\ InterruptsOn(reg)

\* Task t, which left its code as o, is in its code.
InCode(t, o, at, reg, stack) ==
  \/ o \in Contexts /\ at = o.at /\ reg = o.reg /\ stack = o.stack
  \/ o = <<>> /\ at = Entry(t) /\ Fresh(t, reg) /\ stack = <<17, 34, 51>>

\* Registers and stack within a switch that began with those given.
InSwitch(at, reg, stack, reg0, stack0) ==
  \/ at \in {Save, Return} /\ reg = reg0 /\ stack = stack0
  \/ at = SaveFlags /\ reg = reg0 /\ stack = Append(stack0, reg0[0])
  \/ at \in {SaveMask, Restored} /\ reg = [reg0 EXCEPT ![0] = reg0[SREG]]
                                 /\ stack = Append(stack0, reg0[0])

\* In its code, or in a switch it asked for, or which starts it.
AtTask(nvic, t, o, at, reg, stack) ==
  \/ InCode(t, o, at, reg, stack)
  \/ \E a \in Addresses, reg0 \in Regs, stack0 \in Stacks :
       /\ InCode(t, o, a, reg0, stack0)
       /\ nvic => InterruptsOn(reg0)
       /\ InSwitch(at, reg, stack, reg0, stack0 \o Address(a))

\* What the handlers begin their switch with.
Handling(nvic, stack) == IF nvic THEN stack ELSE stack \o Address(HandlerEnd)

\* In a handler that interrupted it.
Interrupting(nvic, t, o, at, reg, stack) ==
  \E a \in Addresses, reg0 \in Regs, stack0 \in Stacks :
    /\ AtTask(nvic, t, o, a, reg0, stack0)
    /\ a # Start /\ InterruptsOn(reg0)
    /\ \/ InSwitch(at, reg, stack, WithInterrupts(reg0, FALSE),
                   Handling(nvic, stack0 \o Address(a)))
       \/ /\ ~nvic /\ at = HandlerEnd /\ reg = WithInterrupts(reg0, FALSE)
          /\ stack = stack0 \o Address(a)

\* Without further interrupts task t goes on as o.
Resumes(nvic, t, o, at, reg, stack) ==
  AtTask(nvic, t, o, at, reg, stack) \/ Interrupting(nvic, t, o, at, reg, stack)

\* A task that does not run has been saved where it goes on.
Suspended(nvic, t, o, top) ==
  \E reg \in Regs, stack \in Stacks :
    /\ top = Saved(reg, stack) /\ reg[0] = reg[SREG]
    /\ Resumes(nvic, t, o, Restored, reg, stack)

CpuType ==
  /\ cpu \in [nvic : BOOLEAN, reg : Regs, at : Addresses, stack : Stacks, current : CpuTasks,
              pending : BOOLEAN, top : [CpuTasks -> Stacks], own : [CpuTasks -> Owns]]
  /\ cpu.pending => cpu.nvic

\* The running task goes on from where it is, the others from what was saved.
CpuInv ==
  /\ CpuType
  /\ cpu.at # Start =>
       Resumes(cpu.nvic, cpu.current, cpu.own[cpu.current], cpu.at, cpu.reg, cpu.stack)
  /\ \A t \in CpuTasks : cpu.at = Start \/ t # cpu.current =>
       Suspended(cpu.nvic, t, cpu.own[t], cpu.top[t])

\* The places are told apart.
LEMMA Places ==
  /\ {Start, InTask, Entering, Save, SaveFlags, SaveMask, Restored, Return, HandlerEnd}
       \subseteq Addresses
  /\ Start = 2000 /\ InTask = 2001 /\ Entering = 2002 /\ Save = 2003 /\ SaveFlags = 2004
  /\ SaveMask = 2005 /\ Restored = 2006 /\ Return = 2007 /\ HandlerEnd = 2008
  /\ \A t \in CpuTasks : Entry(t) \in 1001..1009 /\ Parameter(t) \in 3001..3009
BY ContextAssumption DEF Addresses, Start, InTask, Entering, Save, SaveFlags, SaveMask, Restored,
   Return, HandlerEnd, Entry, Parameter

\* What the handlers push.
LEMMA HandlingStack ==
  ASSUME NEW nvic \in BOOLEAN, NEW stack0 \in Stacks, NEW a \in Addresses
  PROVE  Handling(nvic, stack0 \o Address(a)) \in Stacks
<1>1. stack0 \o Address(a) \in Stacks
  BY PushAddress, Zenon
<1>2. HandlerEnd \in Addresses
  BY Places
<1>3. (stack0 \o Address(a)) \o Address(HandlerEnd) \in Stacks
  BY <1>1, <1>2, PushAddress, Zenon
<1> QED
  BY <1>1, <1>3 DEF Handling

\* A switch keeps the interrupt flag.
LEMMA SwitchFlags ==
  ASSUME NEW at, NEW reg0 \in Regs, NEW stack0 \in Stacks, NEW reg, NEW stack,
         InSwitch(at, reg, stack, reg0, stack0)
  PROVE  /\ reg \in Regs /\ stack \in Stacks
         /\ reg[SREG] = reg0[SREG] /\ (InterruptsOn(reg) <=> InterruptsOn(reg0))
<1>1. 0 \in Registers /\ SREG \in Registers /\ SREG # 0 /\ reg0[0] \in Byte /\ reg0[SREG] \in Byte
  BY RegisterNumbers DEF SREG, Regs
<1>2. Append(stack0, reg0[0]) \in Stacks
  BY <1>1, PushOne
<1>3. /\ [reg0 EXCEPT ![0] = reg0[SREG]] \in Regs
      /\ [reg0 EXCEPT ![0] = reg0[SREG]][SREG] = reg0[SREG]
  BY <1>1 DEF Regs
<1>4. reg \in Regs /\ stack \in Stacks /\ reg[SREG] = reg0[SREG]
  BY <1>2, <1>3 DEF InSwitch
<1> QED
  BY <1>4 DEF InterruptsOn

\* In a handler interrupts are off.
LEMMA HandlerOff ==
  ASSUME NEW nvic \in BOOLEAN, NEW t \in CpuTasks, NEW o, NEW at, NEW reg, NEW stack,
         Interrupting(nvic, t, o, at, reg, stack)
  PROVE  ~InterruptsOn(reg) /\ at \in {Save, SaveFlags, SaveMask, Restored, Return, HandlerEnd}
<1>1. PICK a \in Addresses, reg0 \in Regs, stack0 \in Stacks :
        \/ InSwitch(at, reg, stack, WithInterrupts(reg0, FALSE),
                    Handling(nvic, stack0 \o Address(a)))
        \/ at = HandlerEnd /\ reg = WithInterrupts(reg0, FALSE)
  BY DEF Interrupting
<1>2. WithInterrupts(reg0, FALSE) \in Regs /\ ~InterruptsOn(WithInterrupts(reg0, FALSE))
  BY Flags
<1>3. Handling(nvic, stack0 \o Address(a)) \in Stacks
  BY HandlingStack
<1>4. CASE InSwitch(at, reg, stack, WithInterrupts(reg0, FALSE),
                    Handling(nvic, stack0 \o Address(a)))
  <2>1. at \in {Save, SaveFlags, SaveMask, Restored, Return}
    BY <1>4 DEF InSwitch
  <2>2. ~InterruptsOn(reg)
    BY <1>2, <1>3, <1>4, SwitchFlags
  <2> QED
    BY <2>1, <2>2
<1>5. CASE at = HandlerEnd /\ reg = WithInterrupts(reg0, FALSE)
  BY <1>2, <1>5
<1> QED
  BY <1>1, <1>4, <1>5

\* A task in its own code is as it left it.
LEMMA CodePlaces ==
  ASSUME NEW t \in CpuTasks, NEW o, NEW at, NEW reg, NEW stack, InCode(t, o, at, reg, stack)
  PROVE  at \in {InTask, Entering, Entry(t)} /\ at \notin {Save, SaveFlags, SaveMask, Restored, Return}
         /\ at # Start
<1>1. at \in {InTask, Entering, Entry(t)}
  BY DEF InCode, Contexts
<1> QED
  BY <1>1, Places

LEMMA OwnCode ==
  ASSUME NEW nvic \in BOOLEAN, NEW t \in CpuTasks, NEW o, NEW at, NEW reg, NEW stack,
         Resumes(nvic, t, o, at, reg, stack), at \in {InTask, Entering, Entry(t)}
  PROVE  InCode(t, o, at, reg, stack)
<1>1. at \notin {Save, SaveFlags, SaveMask, Restored, Return, HandlerEnd}
  BY Places
<1>2. AtTask(nvic, t, o, at, reg, stack)
  BY <1>1, HandlerOff DEF Resumes
<1>3. \A reg0, stack0 : ~InSwitch(at, reg, stack, reg0, stack0)
  BY <1>1 DEF InSwitch
<1> QED
  BY <1>2, <1>3 DEF AtTask

\* A step within a switch, whatever the switch began with.
Follows(at, reg, stack, at1, reg1, stack1) ==
  \A reg0 \in Regs, stack0 \in Stacks :
    InSwitch(at, reg, stack, reg0, stack0) => InSwitch(at1, reg1, stack1, reg0, stack0)

\* The steps of a switch.
LEMMA SwitchStep ==
  ASSUME NEW nvic \in BOOLEAN, NEW t \in CpuTasks, NEW o,
         NEW at, NEW reg, NEW stack, NEW at1, NEW reg1, NEW stack1,
         at \in {Save, SaveFlags, SaveMask, Restored}, Resumes(nvic, t, o, at, reg, stack),
         Follows(at, reg, stack, at1, reg1, stack1)
  PROVE  Resumes(nvic, t, o, at1, reg1, stack1) /\ reg1 \in Regs /\ stack1 \in Stacks
<1>1. ~InCode(t, o, at, reg, stack) /\ at # HandlerEnd
  BY CodePlaces, Places
<1>2. CASE AtTask(nvic, t, o, at, reg, stack)
  <2>1. PICK a \in Addresses, reg0 \in Regs, stack0 \in Stacks :
          /\ InCode(t, o, a, reg0, stack0) /\ (nvic => InterruptsOn(reg0))
          /\ InSwitch(at, reg, stack, reg0, stack0 \o Address(a))
    BY <1>1, <1>2 DEF AtTask
  <2>2. stack0 \o Address(a) \in Stacks
    BY PushAddress, Zenon
  <2>3. InSwitch(at1, reg1, stack1, reg0, stack0 \o Address(a))
    BY <2>1, <2>2 DEF Follows
  <2>4. AtTask(nvic, t, o, at1, reg1, stack1)
    BY <2>1, <2>3 DEF AtTask
  <2> QED
    BY <2>2, <2>3, <2>4, SwitchFlags DEF Resumes
<1>3. CASE Interrupting(nvic, t, o, at, reg, stack)
  <2>1. PICK a \in Addresses, reg0 \in Regs, stack0 \in Stacks :
          /\ AtTask(nvic, t, o, a, reg0, stack0) /\ a # Start /\ InterruptsOn(reg0)
          /\ InSwitch(at, reg, stack, WithInterrupts(reg0, FALSE),
                      Handling(nvic, stack0 \o Address(a)))
    BY <1>1, <1>3 DEF Interrupting
  <2>2. WithInterrupts(reg0, FALSE) \in Regs /\ Handling(nvic, stack0 \o Address(a)) \in Stacks
    BY Flags, HandlingStack
  <2>3. InSwitch(at1, reg1, stack1, WithInterrupts(reg0, FALSE),
                 Handling(nvic, stack0 \o Address(a)))
    BY <2>1, <2>2 DEF Follows
  <2>4. Interrupting(nvic, t, o, at1, reg1, stack1)
    BY <2>1, <2>3 DEF Interrupting
  <2> QED
    BY <2>2, <2>3, <2>4, SwitchFlags DEF Resumes
<1> QED
  BY <1>2, <1>3 DEF Resumes

\* The places of a switch follow each other.
LEMMA SwitchPlaces ==
  ASSUME NEW reg, NEW stack \in Stacks, NEW reg0 \in Regs, NEW stack0 \in Stacks
  PROVE  /\ InSwitch(Save, reg, stack, reg0, stack0) =>
              InSwitch(SaveFlags, reg, Append(stack, reg[0]), reg0, stack0)
         /\ InSwitch(SaveFlags, reg, stack, reg0, stack0) =>
              InSwitch(SaveMask, [reg EXCEPT ![0] = reg[SREG]], stack, reg0, stack0)
         /\ InSwitch(SaveMask, reg, stack, reg0, stack0) =>
              InSwitch(Restored, reg, stack, reg0, stack0) /\ reg[0] = reg[SREG]
         /\ InSwitch(Restored, reg, stack, reg0, stack0) =>
              InSwitch(Return, [reg EXCEPT ![0] = Top(stack)], Popped(stack, 1), reg0, stack0)
<1>1. InSwitch(Save, reg, stack, reg0, stack0) =>
        InSwitch(SaveFlags, reg, Append(stack, reg[0]), reg0, stack0)
  BY Places DEF InSwitch
<1>2. InSwitch(SaveFlags, reg, stack, reg0, stack0) =>
        InSwitch(SaveMask, [reg EXCEPT ![0] = reg[SREG]], stack, reg0, stack0)
  BY Places DEF InSwitch
<1>3. 0 \in Registers /\ SREG \in Registers /\ SREG # 0 /\ reg0[0] \in Byte
  BY RegisterNumbers DEF SREG, Regs
<1>4. [reg0 EXCEPT ![0] = reg0[SREG]][0] = [reg0 EXCEPT ![0] = reg0[SREG]][SREG]
  BY <1>3 DEF Regs
<1>5. InSwitch(SaveMask, reg, stack, reg0, stack0) =>
        InSwitch(Restored, reg, stack, reg0, stack0) /\ reg[0] = reg[SREG]
  <2> SUFFICES ASSUME InSwitch(SaveMask, reg, stack, reg0, stack0)
               PROVE  InSwitch(Restored, reg, stack, reg0, stack0) /\ reg[0] = reg[SREG]
    OBVIOUS
  <2>1. reg = [reg0 EXCEPT ![0] = reg0[SREG]] /\ stack = Append(stack0, reg0[0])
    BY Places DEF InSwitch
  <2> QED
    BY <1>4, <2>1 DEF InSwitch
<1>6. ASSUME InSwitch(Restored, reg, stack, reg0, stack0)
      PROVE  InSwitch(Return, [reg EXCEPT ![0] = Top(stack)], Popped(stack, 1), reg0, stack0)
  <2>1. reg = [reg0 EXCEPT ![0] = reg0[SREG]] /\ stack = Append(stack0, reg0[0])
    BY <1>6, Places DEF InSwitch
  <2>2. Top(stack) = reg0[0] /\ Popped(stack, 1) = stack0
    BY <1>3, <2>1, PushOne
  <2>3. [reg EXCEPT ![0] = reg0[0]] = reg0
    BY <1>3, <2>1 DEF Regs
  <2> QED
    BY <2>2, <2>3 DEF InSwitch
<1> QED
  BY <1>1, <1>2, <1>5, <1>6

\* The instruction behind portRESTORE_CONTEXT goes back to the task, or to the end
\* of the handler.
LEMMA SwitchReturns ==
  ASSUME NEW nvic \in BOOLEAN, NEW t \in CpuTasks, NEW o \in Owns, NEW reg, NEW stack,
         NEW reg1, Resumes(nvic, t, o, Return, reg, stack),
         reg1 = IF nvic THEN WithInterrupts(reg, TRUE) ELSE reg
  PROVE  /\ Resumes(nvic, t, o, AddressOn(stack), reg1, Popped(stack, 2))
         /\ AddressOn(stack) \in Addresses /\ AddressOn(stack) # Start
         /\ reg1 \in Regs /\ Popped(stack, 2) \in Stacks
<1>1. ~InCode(t, o, Return, reg, stack) /\ Return # HandlerEnd
  BY CodePlaces, Places
<1>2. CASE AtTask(nvic, t, o, Return, reg, stack)
  <2>1. PICK a \in Addresses, reg0 \in Regs, stack0 \in Stacks :
          /\ InCode(t, o, a, reg0, stack0) /\ (nvic => InterruptsOn(reg0))
          /\ InSwitch(Return, reg, stack, reg0, stack0 \o Address(a))
    BY <1>1, <1>2 DEF AtTask
  <2>2. reg = reg0 /\ stack = stack0 \o Address(a)
    BY <2>1, Places DEF InSwitch
  <2>3. AddressOn(stack) = a /\ Popped(stack, 2) = stack0
    BY <2>2, PushAddress, Zenon
  <2>4. reg1 = reg0
    BY <2>1, <2>2, Flags
  <2>5. a # Start
    BY <2>1, CodePlaces
  <2> QED
    BY <2>1, <2>3, <2>4, <2>5 DEF Resumes, AtTask
<1>3. CASE Interrupting(nvic, t, o, Return, reg, stack)
  <2>1. PICK a \in Addresses, reg0 \in Regs, stack0 \in Stacks :
          /\ AtTask(nvic, t, o, a, reg0, stack0) /\ a # Start /\ InterruptsOn(reg0)
          /\ InSwitch(Return, reg, stack, WithInterrupts(reg0, FALSE),
                      Handling(nvic, stack0 \o Address(a)))
    BY <1>1, <1>3 DEF Interrupting
  <2> DEFINE below == stack0 \o Address(a)
  <2>2. reg = WithInterrupts(reg0, FALSE) /\ stack = Handling(nvic, below)
    BY <2>1, Places DEF InSwitch
  <2>3. below \in Stacks /\ AddressOn(below) = a /\ Popped(below, 2) = stack0
    BY PushAddress, Zenon
  <2>4. CASE nvic
    <3>1. AddressOn(stack) = a /\ Popped(stack, 2) = stack0
      BY <2>2, <2>3, <2>4 DEF Handling
    <3>2. reg1 = reg0
      BY <2>1, <2>2, <2>4, Flags
    <3> QED
      BY <2>1, <3>1, <3>2 DEF Resumes
  <2>5. CASE ~nvic
    <3>1. stack = below \o Address(HandlerEnd) /\ reg1 = reg
      BY <2>2, <2>5 DEF Handling
    <3> HIDE DEF below
    <3>0. HandlerEnd \in Addresses /\ HandlerEnd # Start
      BY Places
    <3>2. AddressOn(stack) = HandlerEnd /\ Popped(stack, 2) = below
      BY <2>3, <3>0, <3>1, PushAddress, Zenon
    <3>3. Interrupting(nvic, t, o, HandlerEnd, reg1, below)
      BY <2>1, <2>2, <2>5, <3>1 DEF Interrupting, below
    <3>4. reg1 \in Regs
      BY <2>2, <3>1, Flags
    <3> QED
      BY <2>3, <3>0, <3>2, <3>3, <3>4 DEF Resumes
  <2> QED
    BY <2>4, <2>5
<1> QED
  BY <1>2, <1>3 DEF Resumes

\* The end of the handler goes back to what it interrupted.
LEMMA HandlerReturns ==
  ASSUME NEW nvic \in BOOLEAN, NEW t \in CpuTasks, NEW o, NEW reg, NEW stack,
         Resumes(nvic, t, o, HandlerEnd, reg, stack)
  PROVE  /\ Resumes(nvic, t, o, AddressOn(stack), WithInterrupts(reg, TRUE), Popped(stack, 2))
         /\ AddressOn(stack) \in Addresses /\ AddressOn(stack) # Start
         /\ WithInterrupts(reg, TRUE) \in Regs /\ Popped(stack, 2) \in Stacks
<1>1. \A reg0, stack0 : ~InSwitch(HandlerEnd, reg, stack, reg0, stack0)
  BY Places DEF InSwitch
<1>2. ~InCode(t, o, HandlerEnd, reg, stack)
  BY CodePlaces, Places
<1>3. PICK a \in Addresses, reg0 \in Regs, stack0 \in Stacks :
        /\ AtTask(nvic, t, o, a, reg0, stack0) /\ a # Start /\ InterruptsOn(reg0)
        /\ reg = WithInterrupts(reg0, FALSE) /\ stack = stack0 \o Address(a)
  BY <1>1, <1>2 DEF Resumes, AtTask, Interrupting
<1>4. AddressOn(stack) = a /\ Popped(stack, 2) = stack0
  BY <1>3, PushAddress, Zenon
<1>5. WithInterrupts(reg, TRUE) = reg0
  BY <1>3, Flags
<1> QED
  BY <1>3, <1>4, <1>5 DEF Resumes

-----------------------------------------------------------------------------
(* The steps of the switch                                                 *)

Cpus == [nvic : BOOLEAN, reg : Regs, at : Addresses, stack : Stacks, current : CpuTasks,
         pending : BOOLEAN, top : [CpuTasks -> Stacks], own : [CpuTasks -> Owns]]

LEMMA CpuParts ==
  ASSUME cpu \in Cpus
  PROVE  /\ cpu.nvic \in BOOLEAN /\ cpu.reg \in Regs /\ cpu.at \in Addresses
         /\ cpu.stack \in Stacks /\ cpu.current \in CpuTasks /\ cpu.pending \in BOOLEAN
         /\ cpu.top \in [CpuTasks -> Stacks] /\ cpu.own \in [CpuTasks -> Owns]
         /\ cpu.own[cpu.current] \in Owns
BY DEF Cpus

\* The processor goes on; saved and own contexts stay.
LEMMA Moves ==
  ASSUME CpuInv, cpu.at # Start, NEW at \in Addresses, NEW reg \in Regs, NEW stack \in Stacks,
         NEW pending \in BOOLEAN, at # Start, pending => cpu.nvic,
         cpu' = [cpu EXCEPT !.at = at, !.reg = reg, !.stack = stack, !.pending = pending],
         Resumes(cpu.nvic, cpu.current, cpu.own[cpu.current], at, reg, stack)
  PROVE  CpuInv'
<1>1. cpu \in Cpus
  BY DEF CpuInv, CpuType, Cpus
<1>2. /\ cpu' \in Cpus /\ cpu'.at = at /\ cpu'.reg = reg /\ cpu'.stack = stack
      /\ cpu'.pending = pending /\ cpu'.nvic = cpu.nvic /\ cpu'.current = cpu.current
      /\ cpu'.top = cpu.top /\ cpu'.own = cpu.own
  BY <1>1 DEF Cpus
<1>3. CpuType'
  BY <1>2 DEF CpuType, Cpus
<1>4. \A t \in CpuTasks : t # cpu.current => Suspended(cpu.nvic, t, cpu.own[t], cpu.top[t])
  BY DEF CpuInv
<1> QED
  BY <1>2, <1>3, <1>4 DEF CpuInv

\* The running task takes a step of its own code.
LEMMA OwnSteps ==
  ASSUME CpuInv, cpu.at # Start, NEW at \in {InTask, Entering}, NEW reg \in Regs,
         NEW stack \in Stacks, NEW nest \in Nat, Len(stack) = nest + 3,
         NEW c, c = [cpu EXCEPT !.at = at, !.reg = reg, !.stack = stack], OwnStep(c, nest)
  PROVE  CpuInv'
<1> DEFINE o == [reg |-> reg, at |-> at, stack |-> stack, nest |-> nest]
<1>1. cpu \in Cpus
  BY DEF CpuInv, CpuType, Cpus
<1>2. o \in Contexts /\ o.at = at /\ o.reg = reg /\ o.stack = stack
  BY DEF Contexts
<1>3. at \in Addresses /\ at # Start
  BY Places
<1>4. /\ c \in Cpus /\ c.at = at /\ c.reg = reg /\ c.stack = stack
      /\ c.pending = cpu.pending /\ c.nvic = cpu.nvic /\ c.current = cpu.current
      /\ c.top = cpu.top /\ c.own = cpu.own
  BY <1>1, <1>3 DEF Cpus
<1>5. cpu' = [c EXCEPT !.own = [c.own EXCEPT ![c.current] = o]]
  BY <1>4 DEF OwnStep, Context
<1> HIDE DEF o
<1>6. [c.own EXCEPT ![c.current] = o] \in [CpuTasks -> Owns]
  BY <1>1, <1>2, <1>4, CpuParts DEF Owns
<1>7. /\ cpu' \in Cpus /\ cpu'.at = at /\ cpu'.reg = reg /\ cpu'.stack = stack
      /\ cpu'.pending = cpu.pending /\ cpu'.nvic = cpu.nvic /\ cpu'.current = cpu.current
      /\ cpu'.top = cpu.top /\ cpu'.own = [c.own EXCEPT ![c.current] = o]
  BY <1>4, <1>5, <1>6 DEF Cpus
<1>8. CpuType'
  BY <1>7 DEF CpuType, Cpus, CpuInv
<1>9. /\ cpu'.own[cpu.current] = o
      /\ \A t \in CpuTasks : t # cpu.current => cpu'.own[t] = cpu.own[t]
  BY <1>1, <1>4, <1>7, CpuParts
<1>10. Resumes(cpu.nvic, cpu.current, o, at, reg, stack)
  BY <1>2 DEF Resumes, AtTask, InCode
<1>11. \A t \in CpuTasks : t # cpu.current => Suspended(cpu.nvic, t, cpu.own[t], cpu.top[t])
  BY DEF CpuInv
<1> QED
  BY <1>3, <1>7, <1>8, <1>9, <1>10, <1>11 DEF CpuInv

\* What the task finds in its own code.
LEMMA InOwnCode ==
  ASSUME CpuInv, cpu.at \in {InTask, Entering}
  PROVE  /\ cpu.at # Start /\ cpu.own[cpu.current] \in Contexts
         /\ Context(cpu, Nest) = cpu.own[cpu.current]
         /\ Nest \in Nat /\ Len(cpu.stack) = Nest + 3
<1> DEFINE o == cpu.own[cpu.current]
<1>1. cpu \in Cpus
  BY DEF CpuInv, CpuType, Cpus
<1>2. cpu.at # Start /\ \A t \in CpuTasks : cpu.at # Entry(t)
  BY Places
<1>3. InCode(cpu.current, o, cpu.at, cpu.reg, cpu.stack)
  BY <1>1, <1>2, CpuParts, OwnCode DEF CpuInv
<1>4. o \in Contexts /\ cpu.at = o.at /\ cpu.reg = o.reg /\ cpu.stack = o.stack
  BY <1>1, <1>2, <1>3, CpuParts DEF InCode
<1>5. Context(cpu, Nest) = o
  BY <1>4 DEF Context, Nest, Contexts
<1> QED
  BY <1>2, <1>4, <1>5 DEF Nest, Contexts

\* A new task, before its first step.
LEMMA AtEntry ==
  ASSUME CpuInv, cpu.at = Entry(cpu.current)
  PROVE  /\ cpu.at # Start /\ cpu.own[cpu.current] = <<>>
         /\ Fresh(cpu.current, cpu.reg) /\ cpu.stack = <<17, 34, 51>>
<1> DEFINE o == cpu.own[cpu.current]
<1>1. cpu \in Cpus
  BY DEF CpuInv, CpuType, Cpus
<1>2. cpu.at # Start /\ cpu.at \notin {InTask, Entering}
  BY <1>1, CpuParts, Places
<1>3. InCode(cpu.current, o, cpu.at, cpu.reg, cpu.stack)
  BY <1>1, <1>2, CpuParts, OwnCode DEF CpuInv
<1> QED
  BY <1>2, <1>3 DEF InCode, Contexts

\* What is read off the invariant at each place.
LEMMA InvKeepsContext == CpuInv => ContextKept
<1> SUFFICES ASSUME CpuInv PROVE ContextKept
  OBVIOUS
<1> QED
  BY InOwnCode, AtEntry DEF ContextKept, Fresh

\* A task is restored from where it was saved.
LEMMA Restores ==
  ASSUME CpuType, NEW t \in CpuTasks, NEW top \in [CpuTasks -> Stacks],
         \A u \in CpuTasks : Suspended(cpu.nvic, u, cpu.own[u], top[u]),
         NEW c, c = [cpu EXCEPT !.top = top, !.current = t],
         cpu' = portRESTORE_CONTEXT(c, top[t])
  PROVE  CpuInv'
<1>1. cpu \in Cpus
  BY DEF CpuType, Cpus
<1>2. PICK reg \in Regs, stack \in Stacks :
        /\ top[t] = Saved(reg, stack) /\ reg[0] = reg[SREG]
        /\ Resumes(cpu.nvic, t, cpu.own[t], Restored, reg, stack)
  BY DEF Suspended
<1>3. cpu' = [c EXCEPT !.stack = stack, !.at = Restored, !.reg = reg]
  <2>1. portRESTORE_CONTEXT(c, Saved(reg, stack)) = Continued(c, reg, stack)
    BY <1>2, RestoreSaved
  <2> QED
    BY <1>2, <2>1 DEF Continued
<1>4. /\ c \in Cpus /\ c.nvic = cpu.nvic /\ c.pending = cpu.pending /\ c.own = cpu.own
      /\ c.top = top /\ c.current = t
  BY <1>1 DEF Cpus
<1>5. Restored \in Addresses /\ Restored # Start
  BY Places
<1>6. /\ cpu' \in Cpus /\ cpu'.at = Restored /\ cpu'.reg = reg /\ cpu'.stack = stack
      /\ cpu'.pending = cpu.pending /\ cpu'.nvic = cpu.nvic /\ cpu'.current = t
      /\ cpu'.top = top /\ cpu'.own = cpu.own
  BY <1>3, <1>4, <1>5 DEF Cpus
<1>7. CpuType'
  BY <1>6 DEF CpuType, Cpus
<1> QED
  BY <1>2, <1>5, <1>6, <1>7 DEF CpuInv

LEMMA CpuStarts == CpuInv /\ xPortStartScheduler => CpuInv'
<1> SUFFICES ASSUME CpuInv, xPortStartScheduler PROVE CpuInv'
  OBVIOUS
<1>1. PICK t \in CpuTasks :
        cpu.at = Start /\ cpu' = portRESTORE_CONTEXT([cpu EXCEPT !.current = t], cpu.top[t])
  BY DEF xPortStartScheduler
<1>2. cpu \in Cpus /\ cpu.top \in [CpuTasks -> Stacks]
  BY CpuParts DEF CpuInv, CpuType, Cpus
<1>3. [cpu EXCEPT !.current = t] = [cpu EXCEPT !.top = cpu.top, !.current = t]
  BY <1>2 DEF Cpus
<1>4. CpuType /\ \A u \in CpuTasks : Suspended(cpu.nvic, u, cpu.own[u], cpu.top[u])
  BY <1>1 DEF CpuInv
<1> QED
  BY <1>1, <1>2, <1>3, <1>4, Restores

\* The running task is saved, and this or another one restored.
LEMMA CpuSwitches == CpuInv /\ SwitchesContext => CpuInv'
<1> SUFFICES ASSUME CpuInv, SwitchesContext PROVE CpuInv'
  OBVIOUS
<1> DEFINE saved == [cpu.top EXCEPT ![cpu.current] = portSAVE_CONTEXT(cpu)]
           o == cpu.own[cpu.current]
<1>1. PICK t \in CpuTasks :
        /\ cpu.at = SaveMask
        /\ cpu' = portRESTORE_CONTEXT([cpu EXCEPT !.top = saved, !.current = t], saved[t])
  BY DEF SwitchesContext
<1>2. /\ cpu \in Cpus /\ cpu.top \in [CpuTasks -> Stacks] /\ cpu.nvic \in BOOLEAN
      /\ cpu.reg \in Regs /\ cpu.stack \in Stacks /\ cpu.current \in CpuTasks
  BY CpuParts DEF CpuInv, CpuType, Cpus
<1>3. cpu.at # Start /\ SaveMask \in {Save, SaveFlags, SaveMask, Restored}
  BY <1>1, Places
<1>4. portSAVE_CONTEXT(cpu) = Saved(cpu.reg, cpu.stack)
  BY DEF Saved, portSAVE_CONTEXT
<1>5. Saved(cpu.reg, cpu.stack) \in Stacks
  BY <1>2, SavedLayout, Zenon
<1>6. saved \in [CpuTasks -> Stacks]
  BY <1>2, <1>4, <1>5
<1>7. Resumes(cpu.nvic, cpu.current, o, SaveMask, cpu.reg, cpu.stack)
  BY <1>1, <1>3 DEF CpuInv
<1>8. Resumes(cpu.nvic, cpu.current, o, Restored, cpu.reg, cpu.stack)
  <2>1. Follows(SaveMask, cpu.reg, cpu.stack, Restored, cpu.reg, cpu.stack)
    BY <1>2, SwitchPlaces DEF Follows
  <2> HIDE DEF o
  <2> QED
    BY <1>2, <1>3, <1>7, <2>1, SwitchStep
<1>9. cpu.reg[0] = cpu.reg[SREG]
  <2>1. ~InCode(cpu.current, o, SaveMask, cpu.reg, cpu.stack) /\ SaveMask # HandlerEnd
    BY <1>2, CodePlaces, Places
  <2>2. \A reg0 \in Regs, stack0 \in Stacks :
          InSwitch(SaveMask, cpu.reg, cpu.stack, reg0, stack0) => cpu.reg[0] = cpu.reg[SREG]
    BY <1>2, SwitchPlaces
  <2>3. CASE AtTask(cpu.nvic, cpu.current, o, SaveMask, cpu.reg, cpu.stack)
    <3>1. PICK a \in Addresses, reg0 \in Regs, stack0 \in Stacks :
            InSwitch(SaveMask, cpu.reg, cpu.stack, reg0, stack0 \o Address(a))
      BY <2>1, <2>3 DEF AtTask
    <3>2. stack0 \o Address(a) \in Stacks
      BY PushAddress, Zenon
    <3> QED
      BY <2>2, <3>1, <3>2
  <2>4. CASE Interrupting(cpu.nvic, cpu.current, o, SaveMask, cpu.reg, cpu.stack)
    <3>1. PICK a \in Addresses, reg0 \in Regs, stack0 \in Stacks :
            InSwitch(SaveMask, cpu.reg, cpu.stack, WithInterrupts(reg0, FALSE),
                     Handling(cpu.nvic, stack0 \o Address(a)))
      BY <2>1, <2>4 DEF Interrupting
    <3>2. /\ Handling(cpu.nvic, stack0 \o Address(a)) \in Stacks
          /\ WithInterrupts(reg0, FALSE) \in Regs
      BY <1>2, Flags, HandlingStack
    <3> QED
      BY <2>2, <3>1, <3>2
  <2> QED
    BY <1>7, <2>3, <2>4 DEF Resumes
<1>10. Suspended(cpu.nvic, cpu.current, o, saved[cpu.current])
  BY <1>2, <1>4, <1>8, <1>9 DEF Suspended
<1>11. \A u \in CpuTasks : Suspended(cpu.nvic, u, cpu.own[u], saved[u])
  <2> SUFFICES ASSUME NEW u \in CpuTasks, u # cpu.current
               PROVE  Suspended(cpu.nvic, u, cpu.own[u], saved[u])
    BY <1>10
  <2>1. saved[u] = cpu.top[u]
    BY <1>2
  <2> QED
    BY <2>1 DEF CpuInv
<1> HIDE DEF saved
<1>12. CpuType
  BY DEF CpuInv
<1> QED
  BY <1>1, <1>6, <1>11, <1>12, Restores

\* The steps of the running task in its own code.
LEMMA CpuBegins == CpuInv /\ Begin => CpuInv'
<1> SUFFICES ASSUME CpuInv, Begin PROVE CpuInv'
  OBVIOUS
<1>1. cpu \in Cpus /\ cpu.reg \in Regs /\ cpu.stack \in Stacks
  BY CpuParts DEF CpuInv, CpuType, Cpus
<1>2. cpu.at # Start /\ Len(cpu.stack) = 0 + 3
  <2>1. cpu.at = Entry(cpu.current)
    BY DEF Begin
  <2>2. cpu.at # Start /\ cpu.stack = <<17, 34, 51>>
    BY <2>1, AtEntry, Zenon
  <2>3. Len(<<17, 34, 51>>) = 0 + 3
    OBVIOUS
  <2> QED
    BY <2>2, <2>3
<1> DEFINE c == [cpu EXCEPT !.at = InTask]
<1>3. OwnStep(c, 0)
  BY DEF Begin
<1>4. c = [cpu EXCEPT !.at = InTask, !.reg = cpu.reg, !.stack = cpu.stack]
  BY <1>1 DEF Cpus
<1> HIDE DEF c
<1> QED
  BY <1>1, <1>2, <1>3, <1>4, OwnSteps

LEMMA CpuWorks == CpuInv /\ Work => CpuInv'
<1> SUFFICES ASSUME CpuInv, Work PROVE CpuInv'
  OBVIOUS
<1>1. /\ cpu \in Cpus /\ cpu.reg \in Regs /\ cpu.stack \in Stacks /\ cpu.current \in CpuTasks
      /\ cpu.at # Start /\ Nest \in Nat /\ Len(cpu.stack) = Nest + 3 /\ cpu.at = InTask
  BY CpuParts, InOwnCode DEF CpuInv, CpuType, Cpus, Work
<1> DEFINE new(flip) == [r \in Registers |->
                           CASE r = SREG -> cpu.reg[r] - (cpu.reg[r] % 2) + flip
                             [] r = 1 -> flip
                             [] OTHER -> TaskByte(cpu.current, flip, r)]
<1>2. PICK flip \in {0, 1} : OwnStep([cpu EXCEPT !.reg = new(flip)], Nest)
  BY DEF Work
<1>3. new(flip) \in Regs
  <2> SUFFICES ASSUME NEW r \in Registers
               PROVE  (CASE r = SREG -> cpu.reg[r] - (cpu.reg[r] % 2) + flip
                         [] r = 1 -> flip
                         [] OTHER -> TaskByte(cpu.current, flip, r)) \in Byte
    BY DEF Regs
  <2>1. cpu.reg[r] \in Byte
    BY <1>1 DEF Regs
  <2>2. cpu.reg[r] - (cpu.reg[r] % 2) + flip \in Byte
    <3> DEFINE b == cpu.reg[r]
    <3>1. b \in Byte
      BY <2>1
    <3> HIDE DEF b
    <3>2. b - (b % 2) + flip \in Byte
      BY <3>1 DEF Byte
    <3> QED
      BY <3>2 DEF b
  <2>3. TaskByte(cpu.current, flip, r) \in Byte
    <3> DEFINE t == cpu.current  sum == 7 * r + 40 * t + 101 * flip
    <3>1. r \in Nat
      BY RegisterNumbers
    <3>2. t \in 1..9
      BY <1>1, ContextAssumption
    <3> HIDE DEF t
    <3>3. sum \in Nat
      BY <3>1, <3>2
    <3> HIDE DEF sum
    <3>4. sum % 256 \in 0..255
      BY <3>3
    <3> QED
      BY <3>4 DEF TaskByte, Byte, sum, t
  <2>4. flip \in Byte
    BY DEF Byte
  <2> QED
    BY <2>2, <2>3, <2>4
<1> DEFINE c == [cpu EXCEPT !.reg = new(flip)]
<1> HIDE DEF new
<1>4. c = [cpu EXCEPT !.at = cpu.at, !.reg = new(flip), !.stack = cpu.stack]
  BY <1>1 DEF Cpus
<1> HIDE DEF c
<1> QED
  BY <1>1, <1>2, <1>3, <1>4, OwnSteps DEF c

LEMMA CpuEnters == CpuInv /\ (EnterReads \/ EnterMasks) => CpuInv'
<1> SUFFICES ASSUME CpuInv, EnterReads \/ EnterMasks PROVE CpuInv'
  OBVIOUS
<1>1. /\ cpu \in Cpus /\ cpu.reg \in Regs /\ cpu.stack \in Stacks
      /\ cpu.at # Start /\ Nest \in Nat /\ Len(cpu.stack) = Nest + 3
  BY CpuParts, InOwnCode DEF CpuInv, CpuType, Cpus, EnterReads, EnterMasks
<1>2. 0 \in Registers /\ SREG \in Registers /\ cpu.reg[0] \in Byte /\ cpu.reg[SREG] \in Byte
  BY <1>1, RegisterNumbers DEF Regs, SREG
<1>3. CASE EnterReads
  <2> DEFINE reg == [cpu.reg EXCEPT ![0] = cpu.reg[SREG]]
             c == [cpu EXCEPT !.reg[0] = cpu.reg[SREG], !.at = Entering]
  <2>1. reg \in Regs
    BY <1>1, <1>2 DEF Regs
  <2>2. OwnStep(c, Nest)
    BY <1>3 DEF EnterReads
  <2>3. c = [cpu EXCEPT !.at = Entering, !.reg = reg, !.stack = cpu.stack]
    BY <1>1 DEF Cpus
  <2> HIDE DEF c, reg
  <2> QED
    BY <1>1, <2>1, <2>2, <2>3, OwnSteps
<1>4. CASE EnterMasks
  <2> DEFINE reg == WithInterrupts(cpu.reg, FALSE)
             stack == Append(cpu.stack, cpu.reg[0])
             c == [cpu EXCEPT !.reg = WithInterrupts(@, FALSE),
                              !.stack = Append(@, cpu.reg[0]), !.at = InTask]
  <2>1. reg \in Regs /\ stack \in Stacks /\ Len(stack) = (Nest + 1) + 3 /\ Nest + 1 \in Nat
    <3>1. reg \in Regs
      BY <1>1, Flags
    <3>2. stack \in Stacks /\ Len(stack) = Len(cpu.stack) + 1
      BY <1>1, <1>2, PushOne, Zenon
    <3> DEFINE n == Nest  before == Len(cpu.stack)  after == Len(stack)
    <3>3. n \in Nat /\ before = n + 3 /\ after = before + 1
      BY <1>1, <3>2
    <3> HIDE DEF n, before, after
    <3>4. after = (n + 1) + 3 /\ n + 1 \in Nat
      BY <3>3
    <3> QED
      BY <3>1, <3>2, <3>4 DEF n, after
  <2>2. OwnStep(c, Nest + 1)
    BY <1>4 DEF EnterMasks
  <2>3. c = [cpu EXCEPT !.at = InTask, !.reg = reg, !.stack = stack]
    BY <1>1 DEF Cpus
  <2> HIDE DEF c, reg, stack
  <2> QED
    BY <1>1, <2>1, <2>2, <2>3, OwnSteps
<1> QED
  BY <1>3, <1>4

LEMMA CpuExits == CpuInv /\ portEXIT_CRITICAL => CpuInv'
<1> SUFFICES ASSUME CpuInv, portEXIT_CRITICAL PROVE CpuInv'
  OBVIOUS
<1>1. /\ cpu \in Cpus /\ cpu.reg \in Regs /\ cpu.stack \in Stacks
      /\ cpu.at # Start /\ Nest \in Nat /\ Len(cpu.stack) = Nest + 3 /\ cpu.at = InTask /\ Nest > 0
  BY CpuParts, InOwnCode DEF CpuInv, CpuType, Cpus, portEXIT_CRITICAL
<1> DEFINE flags == Top(cpu.stack)
           stack == Popped(cpu.stack, 1)
           reg == [[cpu.reg EXCEPT ![0] = flags] EXCEPT ![SREG] = flags]
           c == [cpu EXCEPT !.reg[0] = Top(cpu.stack), !.reg[SREG] = Top(cpu.stack),
                            !.stack = Popped(@, 1)]
<1>2. flags \in Byte
  BY <1>1 DEF Top, Stacks
<1>3. stack \in Stacks /\ Len(stack) = (Nest - 1) + 3 /\ Nest - 1 \in Nat
  <2>1. /\ Len(cpu.stack) - 1 = Nest + 2 /\ Nest - 1 \in Nat
        /\ (Nest - 1) + 3 = Nest + 2 /\ Nest + 2 \in Nat
    <3> DEFINE n == Nest  before == Len(cpu.stack)
    <3>1. n \in Nat /\ before = n + 3 /\ n > 0
      BY <1>1
    <3> HIDE DEF n, before
    <3>2. before - 1 = n + 2 /\ n - 1 \in Nat /\ (n - 1) + 3 = n + 2 /\ n + 2 \in Nat
      BY <3>1
    <3> QED
      BY <3>2 DEF n, before
  <2>2. stack = SubSeq(cpu.stack, 1, Nest + 2)
    BY <2>1 DEF Popped
  <2>3. SubSeq(cpu.stack, 1, Nest + 2) \in Stacks /\ Len(SubSeq(cpu.stack, 1, Nest + 2)) = Nest + 2
    <3> DEFINE n == Nest + 2
    <3>1. n \in Nat /\ n <= Len(cpu.stack)
      BY <1>1, <2>1
    <3> HIDE DEF n
    <3>2. SubSeq(cpu.stack, 1, n) \in Stacks /\ Len(SubSeq(cpu.stack, 1, n)) = n
      BY <1>1, <3>1 DEF Stacks
    <3> QED
      BY <3>2 DEF n
  <2> QED
    BY <2>1, <2>2, <2>3, Zenon
<1> HIDE DEF flags, stack
<1>4. reg \in Regs
  BY <1>1, <1>2 DEF Regs
<1>5. OwnStep(c, Nest - 1)
  BY DEF portEXIT_CRITICAL
<1>6. c = [cpu EXCEPT !.at = cpu.at, !.reg = reg, !.stack = stack]
  BY <1>1 DEF Cpus, flags, stack
<1> HIDE DEF c, reg
<1> QED
  BY <1>1, <1>3, <1>4, <1>5, <1>6, OwnSteps

\* What is known wherever a task runs.
LEMMA CpuRuns ==
  ASSUME CpuInv, cpu.at # Start
  PROVE  /\ cpu \in Cpus /\ cpu.nvic \in BOOLEAN /\ cpu.reg \in Regs /\ cpu.at \in Addresses
         /\ cpu.stack \in Stacks /\ cpu.current \in CpuTasks /\ cpu.pending \in BOOLEAN
         /\ (cpu.pending => cpu.nvic) /\ cpu.own[cpu.current] \in Owns
         /\ Resumes(cpu.nvic, cpu.current, cpu.own[cpu.current], cpu.at, cpu.reg, cpu.stack)
BY CpuParts DEF CpuInv, CpuType, Cpus

\* The routines that yield: a switch the task asks for, or the controller's interrupt.
LEMMA CpuYields == CpuInv /\ portYIELD => CpuInv'
<1> SUFFICES ASSUME CpuInv, portYIELD PROVE CpuInv'
  OBVIOUS
<1>1. cpu.at = InTask /\ cpu.at # Start /\ Save # Start /\ Save \in Addresses /\ InTask \in Addresses
  BY Places DEF portYIELD
<1> DEFINE t == cpu.current  o == cpu.own[t]
<1>2. /\ cpu \in Cpus /\ cpu.nvic \in BOOLEAN /\ cpu.reg \in Regs /\ cpu.at \in Addresses
      /\ cpu.stack \in Stacks /\ t \in CpuTasks /\ cpu.pending \in BOOLEAN
      /\ (cpu.pending => cpu.nvic) /\ Resumes(cpu.nvic, t, o, cpu.at, cpu.reg, cpu.stack)
  BY <1>1, CpuRuns
<1>3. CASE cpu.nvic
  <2>1. cpu' = [cpu EXCEPT !.pending = TRUE]
    BY <1>3 DEF portYIELD
  <2>2. cpu' = [cpu EXCEPT !.at = cpu.at, !.reg = cpu.reg, !.stack = cpu.stack, !.pending = TRUE]
    BY <1>2, <2>1 DEF Cpus
  <2> QED
    BY <1>1, <1>2, <1>3, <2>2, Moves
<1>4. CASE ~cpu.nvic
  <2> DEFINE stack == cpu.stack \o Address(InTask)
  <2>1. stack \in Stacks
    BY <1>1, <1>2, PushAddress, Zenon
  <2>2. cpu' = [cpu EXCEPT !.stack = stack, !.at = Save]
    BY <1>4 DEF portYIELD
  <2>3. InCode(t, o, InTask, cpu.reg, cpu.stack)
    <3> HIDE DEF t, o
    <3> QED
      BY <1>1, <1>2, OwnCode
  <2>4. AtTask(cpu.nvic, t, o, Save, cpu.reg, stack)
    <3>1. InSwitch(Save, cpu.reg, stack, cpu.reg, stack)
      BY DEF InSwitch
    <3> QED
      BY <1>1, <1>2, <1>4, <2>3, <3>1 DEF AtTask
  <2> HIDE DEF stack
  <2>5. cpu' = [cpu EXCEPT !.at = Save, !.reg = cpu.reg, !.stack = stack, !.pending = cpu.pending]
    BY <1>2, <2>2 DEF Cpus
  <2>6. Resumes(cpu.nvic, t, o, Save, cpu.reg, stack)
    BY <2>4 DEF Resumes
  <2> QED
    BY <1>1, <1>2, <2>1, <2>5, <2>6, Moves
<1> QED
  BY <1>3, <1>4

\* An interrupt that switches finds the task outside the handlers.
LEMMA InterruptsKeep ==
  ASSUME CpuInv, Interrupted, NEW stack,
         stack = Handling(cpu.nvic, cpu.stack \o Address(cpu.at)),
         cpu' = [cpu EXCEPT !.at = Save, !.reg = WithInterrupts(cpu.reg, FALSE),
                            !.stack = stack, !.pending = FALSE]
  PROVE  CpuInv'
<1> DEFINE t == cpu.current  o == cpu.own[t]  reg == WithInterrupts(cpu.reg, FALSE)
<1>1. cpu.at # Start /\ InterruptsOn(cpu.reg) /\ Save # Start /\ Save \in Addresses
  BY Places DEF Interrupted
<1>2. /\ cpu \in Cpus /\ cpu.nvic \in BOOLEAN /\ cpu.reg \in Regs /\ cpu.at \in Addresses
      /\ cpu.stack \in Stacks /\ t \in CpuTasks
      /\ Resumes(cpu.nvic, t, o, cpu.at, cpu.reg, cpu.stack)
  BY <1>1, CpuRuns
<1>3. AtTask(cpu.nvic, t, o, cpu.at, cpu.reg, cpu.stack)
  <2> HIDE DEF t, o
  <2> QED
    BY <1>1, <1>2, HandlerOff DEF Resumes
<1>4. reg \in Regs /\ stack \in Stacks
  BY <1>2, Flags, HandlingStack
<1>5. InSwitch(Save, reg, stack, reg, Handling(cpu.nvic, cpu.stack \o Address(cpu.at)))
  BY DEF InSwitch
<1>6. Interrupting(cpu.nvic, t, o, Save, reg, stack)
  BY <1>1, <1>2, <1>3, <1>5 DEF Interrupting
<1>7. /\ Resumes(cpu.nvic, cpu.current, cpu.own[cpu.current], Save,
                 WithInterrupts(cpu.reg, FALSE), stack)
      /\ WithInterrupts(cpu.reg, FALSE) \in Regs
  BY <1>4, <1>6 DEF Resumes
<1> HIDE DEF reg, t, o
<1> QED
  BY <1>1, <1>4, <1>7, Moves

LEMMA CpuInterrupted == CpuInv /\ (timer0_handler \/ sti_handler) => CpuInv'
<1> SUFFICES ASSUME CpuInv, timer0_handler \/ sti_handler PROVE CpuInv'
  OBVIOUS
<1> DEFINE below == cpu.stack \o Address(cpu.at)
<1>1. cpu.at # Start /\ Interrupted
  BY DEF timer0_handler, sti_handler, Interrupted
<1>2. /\ cpu \in Cpus /\ cpu.nvic \in BOOLEAN /\ cpu.reg \in Regs /\ cpu.at \in Addresses
      /\ cpu.stack \in Stacks /\ cpu.pending \in BOOLEAN /\ (cpu.pending => cpu.nvic)
      /\ Resumes(cpu.nvic, cpu.current, cpu.own[cpu.current], cpu.at, cpu.reg, cpu.stack)
  BY <1>1, CpuRuns
<1>3. CASE timer0_handler /\ cpu.nvic
  <2>1. cpu' = [cpu EXCEPT !.pending = TRUE]
    BY <1>3 DEF timer0_handler
  <2>2. cpu' = [cpu EXCEPT !.at = cpu.at, !.reg = cpu.reg, !.stack = cpu.stack, !.pending = TRUE]
    BY <1>2, <2>1 DEF Cpus
  <2> QED
    BY <1>1, <1>2, <1>3, <2>2, Moves
<1>4. CASE timer0_handler /\ ~cpu.nvic
  <2> DEFINE stack == below \o Address(HandlerEnd)
  <2>1. cpu' = [Taken EXCEPT !.stack = @ \o Address(HandlerEnd), !.at = Save]
    BY <1>4 DEF timer0_handler
  <2>2. Taken.stack = below
    BY <1>2 DEF Taken, Cpus
  <2>3. cpu' = [Taken EXCEPT !.stack = stack, !.at = Save]
    BY <2>1, <2>2
  <2>4. stack = Handling(cpu.nvic, below)
    BY <1>4 DEF Handling
  <2> HIDE DEF stack, below
  <2>5. cpu' = [cpu EXCEPT !.at = Save, !.reg = WithInterrupts(cpu.reg, FALSE),
                           !.stack = stack, !.pending = FALSE]
    BY <1>2, <1>4, <2>3 DEF Taken, Cpus
  <2> QED
    BY <1>1, <1>2, <2>4, <2>5, InterruptsKeep DEF below
<1>5. CASE sti_handler
  <2>1. cpu' = [Taken EXCEPT !.pending = FALSE, !.at = Save] /\ cpu.pending
    BY <1>5 DEF sti_handler
  <2>2. below = Handling(cpu.nvic, below)
    BY <1>2, <2>1 DEF Handling
  <2>3. Taken = [cpu EXCEPT !.stack = below, !.reg = WithInterrupts(cpu.reg, FALSE)]
    BY <1>2 DEF Taken, Cpus
  <2> HIDE DEF below
  <2>4. cpu' = [cpu EXCEPT !.at = Save, !.reg = WithInterrupts(cpu.reg, FALSE),
                           !.stack = below, !.pending = FALSE]
    BY <1>2, <2>1, <2>3 DEF Cpus
  <2> QED
    BY <1>1, <2>2, <2>4, InterruptsKeep DEF below
<1> QED
  BY <1>3, <1>4, <1>5

\* The instructions of a switch, and the returns.
LEMMA CpuSaves == CpuInv /\ (SavePushes \/ SaveReads) => CpuInv'
<1> SUFFICES ASSUME CpuInv, SavePushes \/ SaveReads PROVE CpuInv'
  OBVIOUS
<1> DEFINE t == cpu.current  o == cpu.own[t]
<1>1. /\ cpu.at # Start /\ {Save, SaveFlags, SaveMask} \subseteq Addresses
      /\ SaveFlags # Start /\ SaveMask # Start
  BY Places DEF SavePushes, SaveReads
<1>2. /\ cpu \in Cpus /\ cpu.nvic \in BOOLEAN /\ cpu.reg \in Regs /\ cpu.stack \in Stacks
      /\ t \in CpuTasks /\ cpu.pending \in BOOLEAN /\ (cpu.pending => cpu.nvic)
      /\ Resumes(cpu.nvic, t, o, cpu.at, cpu.reg, cpu.stack)
  BY <1>1, CpuRuns
<1> HIDE DEF t, o
<1>3. CASE SavePushes
  <2> DEFINE stack == Append(cpu.stack, cpu.reg[0])
  <2>1. cpu.at = Save /\ cpu' = [cpu EXCEPT !.stack = stack, !.at = SaveFlags]
    BY <1>3 DEF SavePushes
  <2>2. Follows(Save, cpu.reg, cpu.stack, SaveFlags, cpu.reg, stack)
    BY <1>2, SwitchPlaces DEF Follows
  <2> HIDE DEF stack
  <2>3. Resumes(cpu.nvic, t, o, SaveFlags, cpu.reg, stack) /\ stack \in Stacks
    BY <1>2, <2>1, <2>2, SwitchStep
  <2>4. cpu' = [cpu EXCEPT !.at = SaveFlags, !.reg = cpu.reg, !.stack = stack,
                           !.pending = cpu.pending]
    BY <1>2, <2>1 DEF Cpus
  <2> QED
    BY <1>1, <1>2, <2>3, <2>4, Moves DEF t, o
<1>4. CASE SaveReads
  <2> DEFINE reg == [cpu.reg EXCEPT ![0] = cpu.reg[SREG]]
  <2>1. cpu.at = SaveFlags /\ cpu' = [cpu EXCEPT !.reg = reg, !.at = SaveMask]
    BY <1>4 DEF SaveReads
  <2>2. Follows(SaveFlags, cpu.reg, cpu.stack, SaveMask, reg, cpu.stack)
    BY <1>2, SwitchPlaces DEF Follows
  <2> HIDE DEF reg
  <2>3. Resumes(cpu.nvic, t, o, SaveMask, reg, cpu.stack) /\ reg \in Regs
    BY <1>2, <2>1, <2>2, SwitchStep
  <2>4. cpu' = [cpu EXCEPT !.at = SaveMask, !.reg = reg, !.stack = cpu.stack,
                           !.pending = cpu.pending]
    BY <1>2, <2>1 DEF Cpus
  <2> QED
    BY <1>1, <1>2, <2>3, <2>4, Moves DEF t, o
<1> QED
  BY <1>3, <1>4

LEMMA CpuPops == CpuInv /\ RestorePops => CpuInv'
<1> SUFFICES ASSUME CpuInv, RestorePops PROVE CpuInv'
  OBVIOUS
<1> DEFINE t == cpu.current  o == cpu.own[t]
           reg == [cpu.reg EXCEPT ![0] = Top(cpu.stack)]
           stack == Popped(cpu.stack, 1)
<1>1. cpu.at = Restored /\ cpu.at # Start /\ Return \in Addresses /\ Return # Start
  BY Places DEF RestorePops
<1>2. /\ cpu \in Cpus /\ cpu.nvic \in BOOLEAN /\ cpu.reg \in Regs /\ cpu.stack \in Stacks
      /\ t \in CpuTasks /\ cpu.pending \in BOOLEAN /\ (cpu.pending => cpu.nvic)
      /\ Resumes(cpu.nvic, t, o, cpu.at, cpu.reg, cpu.stack)
  BY <1>1, CpuRuns
<1>3. cpu' = [cpu EXCEPT !.reg = reg, !.stack = stack, !.at = Return]
  BY DEF RestorePops
<1>4. Follows(Restored, cpu.reg, cpu.stack, Return, reg, stack)
  BY <1>2, SwitchPlaces DEF Follows
<1> HIDE DEF t, o, reg, stack
<1>5. Resumes(cpu.nvic, t, o, Return, reg, stack) /\ reg \in Regs /\ stack \in Stacks
  <2>1. Resumes(cpu.nvic, t, o, Restored, cpu.reg, cpu.stack)
    BY <1>1, <1>2
  <2>2. Restored \in {Save, SaveFlags, SaveMask, Restored}
    OBVIOUS
  <2> QED
    BY <1>2, <1>4, <2>1, <2>2, SwitchStep
<1>6. cpu' = [cpu EXCEPT !.at = Return, !.reg = reg, !.stack = stack, !.pending = cpu.pending]
  BY <1>2, <1>3 DEF Cpus
<1> QED
  BY <1>1, <1>2, <1>5, <1>6, Moves DEF t, o

LEMMA CpuReturns == CpuInv /\ (RoutineReturns \/ ReturnsFromInterrupt) => CpuInv'
<1> SUFFICES ASSUME CpuInv, RoutineReturns \/ ReturnsFromInterrupt PROVE CpuInv'
  OBVIOUS
<1> DEFINE t == cpu.current  o == cpu.own[t]
           on == WithInterrupts(cpu.reg, TRUE)
           at == AddressOn(cpu.stack)
           stack == Popped(cpu.stack, 2)
<1>1. cpu.at # Start
  <2>1. cpu.at = Return \/ cpu.at = HandlerEnd
    BY Zenon DEF RoutineReturns, ReturnsFromInterrupt
  <2> QED
    BY <2>1, Places
<1>2. /\ cpu \in Cpus /\ cpu.nvic \in BOOLEAN /\ cpu.reg \in Regs /\ cpu.stack \in Stacks
      /\ t \in CpuTasks /\ o \in Owns /\ cpu.pending \in BOOLEAN /\ (cpu.pending => cpu.nvic)
      /\ Resumes(cpu.nvic, t, o, cpu.at, cpu.reg, cpu.stack)
  BY <1>1, CpuRuns
<1>3. Returned = [cpu EXCEPT !.at = at, !.stack = stack]
  BY DEF Returned
<1> HIDE DEF t, o
<1>4. CASE RoutineReturns
  <2> DEFINE reg == IF cpu.nvic THEN on ELSE cpu.reg
  <2>1. cpu.at = Return /\ cpu' = IF cpu.nvic THEN [Returned EXCEPT !.reg = WithInterrupts(@, TRUE)]
                                  ELSE Returned
    BY <1>4 DEF RoutineReturns
  <2>2. Resumes(cpu.nvic, t, o, Return, cpu.reg, cpu.stack)
    BY <1>2, <2>1
  <2>3. /\ Resumes(cpu.nvic, t, o, at, reg, stack)
        /\ at \in Addresses /\ at # Start /\ reg \in Regs /\ stack \in Stacks
    BY <1>2, <2>2, SwitchReturns
  <2>4. Returned.reg = cpu.reg
    BY <1>2, <1>3 DEF Cpus
  <2>5. cpu' = IF cpu.nvic THEN [Returned EXCEPT !.reg = on] ELSE Returned
    BY <2>1, <2>4
  <2> HIDE DEF at, on, stack
  <2>6. cpu' = [cpu EXCEPT !.at = at, !.reg = reg, !.stack = stack, !.pending = cpu.pending]
    <3>1. CASE cpu.nvic
      BY <1>2, <1>3, <2>5, <3>1 DEF Cpus
    <3>2. CASE ~cpu.nvic
      BY <1>2, <1>3, <2>5, <3>2 DEF Cpus
    <3> QED
      BY <3>1, <3>2
  <2> HIDE DEF reg
  <2> QED
    BY <1>1, <1>2, <2>3, <2>6, Moves DEF t, o
<1>5. CASE ReturnsFromInterrupt
  <2>1. cpu.at = HandlerEnd /\ cpu' = [Returned EXCEPT !.reg = WithInterrupts(@, TRUE)]
    BY <1>5 DEF ReturnsFromInterrupt
  <2>2. Resumes(cpu.nvic, t, o, HandlerEnd, cpu.reg, cpu.stack)
    BY <1>2, <2>1
  <2>3. /\ Resumes(cpu.nvic, t, o, at, on, stack)
        /\ at \in Addresses /\ at # Start /\ on \in Regs /\ stack \in Stacks
    BY <1>2, <2>2, HandlerReturns
  <2>4. Returned.reg = cpu.reg
    BY <1>2, <1>3 DEF Cpus
  <2>5. cpu' = [Returned EXCEPT !.reg = on]
    BY <2>1, <2>4
  <2> HIDE DEF at, on, stack
  <2>6. cpu' = [cpu EXCEPT !.at = at, !.reg = on, !.stack = stack, !.pending = cpu.pending]
    BY <1>2, <1>3, <2>5 DEF Cpus
  <2> QED
    BY <1>1, <1>2, <2>3, <2>6, Moves DEF t, o
<1> QED
  BY <1>4, <1>5

-----------------------------------------------------------------------------
(* New tasks                                                               *)

\* The registers pxPortInitialiseStack writes, r0 with SREG.
Marker(r) == (r % 10) + 16 * (r \div 10)
NewReg(t) ==
  [r \in Registers |->
     CASE r \in {0, SREG} -> portFLAGS_INT_ENABLED
       [] r \in {1} \cup ToSet(EARs) -> 0
       [] r \in 2..23 -> Marker(r)
       [] r \in 24..25 -> Address(Parameter(t))[r - 23]
       [] r \in 26..31 -> <<38, 39, 40, 41, 48, 49>>[r - 25]]

LEMMA NewRegs ==
  ASSUME NEW t \in CpuTasks
  PROVE  /\ NewReg(t) \in Regs
         /\ NewReg(t)[0] = 128 /\ NewReg(t)[SREG] = 128 /\ NewReg(t)[1] = 0
         /\ \A r \in ToSet(EARs) : NewReg(t)[r] = 0
         /\ \A r \in 2..23 : NewReg(t)[r] = Marker(r)
         /\ \A r \in 24..25 : NewReg(t)[r] = Address(Parameter(t))[r - 23]
         /\ \A r \in 26..31 : NewReg(t)[r] = <<38, 39, 40, 41, 48, 49>>[r - 25]
         /\ NewReg(t)[24] + 256 * NewReg(t)[25] = Parameter(t)
<1> DEFINE new == NewReg(t)  a == Parameter(t)  tail == <<38, 39, 40, 41, 48, 49>>
<1>1. ASSUME NEW r \in 2..23 PROVE Marker(r) \in Byte
  <2>1. r % 10 \in 0..9 /\ r \div 10 \in 0..2
    OBVIOUS
  <2> DEFINE low == r % 10  high == r \div 10
  <2> HIDE DEF low, high
  <2>2. low + 16 * high \in Byte
    BY <2>1 DEF Byte, low, high
  <2> QED
    BY <2>2 DEF Marker, low, high
<1>2. /\ Address(a)[1] \in Byte /\ Address(a)[2] \in Byte
      /\ Address(a)[1] + 256 * Address(a)[2] = a
  <2>1. a \in 3001..3009
    BY Places
  <2> DEFINE b == a
  <2> HIDE DEF a
  <2>2. b % 256 \in Byte /\ b \div 256 \in Byte /\ (b % 256) + 256 * (b \div 256) = b
    BY <2>1 DEF Byte
  <2>3. Address(b)[1] = b % 256 /\ Address(b)[2] = b \div 256
    BY DEF Address
  <2> HIDE DEF b
  <2> QED
    BY <2>2, <2>3 DEF b
<1>3. \A r \in 26..31 : tail[r - 25] \in Byte
  <2>1. \A i \in 1..6 : tail[i] \in Byte
    BY DEF Byte
  <2>2. \A r \in 26..31 : r - 25 \in 1..6
    OBVIOUS
  <2> HIDE DEF tail
  <2> QED
    BY <2>1, <2>2
<1>4. \A r \in 24..25 : Address(a)[r - 23] \in Byte
  <2>1. \A r \in 24..25 : r - 23 = 1 \/ r - 23 = 2
    OBVIOUS
  <2> QED
    BY <1>2, <2>1
<1> DEFINE value(r) == CASE r \in {0, SREG} -> portFLAGS_INT_ENABLED
                         [] r \in {1} \cup ToSet(EARs) -> 0
                         [] r \in 2..23 -> Marker(r)
                         [] r \in 24..25 -> Address(a)[r - 23]
                         [] r \in 26..31 -> tail[r - 25]
<1>5. new = [r \in Registers |-> value(r)]
  BY DEF NewReg
<1> HIDE DEF tail, a, new
<1>6. \A r : r \in {0, SREG} => value(r) = 128
  BY RegisterNumbers DEF portFLAGS_INT_ENABLED, SREG
<1>7. \A r : r \in {1} \cup ToSet(EARs) => value(r) = 0
  BY RegisterNumbers DEF SREG
<1>8. \A r \in 2..23 : value(r) = Marker(r)
  BY RegisterNumbers DEF SREG
<1>9. \A r \in 24..25 : value(r) = Address(a)[r - 23]
  BY RegisterNumbers DEF SREG
<1>10. \A r \in 26..31 : value(r) = tail[r - 25]
  BY RegisterNumbers DEF SREG
<1> HIDE DEF value
<1>11. /\ 0 \in Registers /\ 1 \in Registers /\ SREG \in Registers /\ ToSet(EARs) \subseteq Registers
       /\ 2..31 \subseteq Registers
  BY RegisterNumbers DEF SREG
<1>12. ASSUME NEW r \in Registers PROVE value(r) \in Byte
  <2>1. \/ r \in {0, SREG} \/ r \in {1} \cup ToSet(EARs) \/ r \in 2..23 \/ r \in 24..25
        \/ r \in 26..31
    BY RegisterNumbers DEF SREG
  <2>2. 0 \in Byte /\ 128 \in Byte
    BY DEF Byte
  <2> QED
    BY <1>1, <1>3, <1>4, <1>6, <1>7, <1>8, <1>9, <1>10, <2>1, <2>2
<1>13. new \in Regs
  BY <1>5, <1>12 DEF Regs
<1>14. new[0] = 128 /\ new[SREG] = 128 /\ new[1] = 0 /\ \A r \in ToSet(EARs) : new[r] = 0
  BY <1>5, <1>6, <1>7, <1>11
<1>15. \A r \in 2..23 : new[r] = Marker(r)
  BY <1>5, <1>8, RegisterNumbers
<1>16. \A r \in 24..25 : new[r] = Address(a)[r - 23]
  BY <1>5, <1>9, RegisterNumbers
<1>17. \A r \in 26..31 : new[r] = tail[r - 25]
  BY <1>5, <1>10, RegisterNumbers
<1>18. new[24] + 256 * new[25] = a
  <2>1. new[24] = Address(a)[1] /\ new[25] = Address(a)[2]
    BY <1>16
  <2> QED
    BY <1>2, <2>1
<1> QED
  BY <1>13, <1>14, <1>15, <1>16, <1>17, <1>18 DEF new, a, tail

\* What is on the stack of a new task below its registers.
NewStack(t) == Append(<<17, 34, 51>> \o Address(Entry(t)), 0)

LEMMA NewStacks ==
  ASSUME NEW t \in CpuTasks
  PROVE  /\ <<17, 34, 51>> \in Stacks /\ <<17, 34, 51>> \o Address(Entry(t)) \in Stacks
         /\ NewStack(t) \in Stacks /\ Entry(t) \in Addresses
<1>1. Entry(t) \in Addresses
  BY Places DEF Addresses
<1>2. <<17, 34, 51>> \in Stacks
  BY DEF Stacks, Byte
<1>3. <<17, 34, 51>> \o Address(Entry(t)) \in Stacks
  BY <1>1, <1>2, PushAddress, Zenon
<1>4. 0 \in Byte
  BY DEF Byte
<1> QED
  BY <1>1, <1>2, <1>3, <1>4, PushOne DEF NewStack

LEMMA Concatenated ==
  ASSUME NEW s \in Seq(Nat), NEW t \in Seq(Nat)
  PROVE  /\ s \o t \in Seq(Nat) /\ Len(s \o t) = Len(s) + Len(t)
         /\ \A i \in 1..Len(s) : (s \o t)[i] = s[i]
         /\ \A i \in 1..Len(t) : (s \o t)[Len(s) + i] = t[i]
OBVIOUS

LEMMA Associative ==
  ASSUME NEW s \in Seq(Nat), NEW t \in Seq(Nat), NEW u \in Seq(Nat)
  PROVE  (s \o t) \o u = s \o (t \o u)
BY ConcatAssociative

\* pxPortInitialiseStack writes what portSAVE_CONTEXT would have.
LEMMA InitialiseStackSaved ==
  ASSUME NEW t \in CpuTasks
  PROVE  pxPortInitialiseStack(t) = Saved(NewReg(t), NewStack(t))
<1> DEFINE base == <<17, 34, 51>> \o Address(Entry(t))
           reg == NewReg(t)
           ears == [i \in 1..5 |-> reg[EARs[i]]]
           general == [i \in 1..30 |-> reg[General[i]]]
           marks == [i \in 1..22 |-> ((i + 1) % 10) + 16 * ((i + 1) \div 10)]
           a == Address(Parameter(t))
           tail == <<38, 39, 40, 41, 48, 49>>
           flags == base \o <<0, 128, 0>>
           zeros == <<0, 0, 0, 0, 0>>
<1>1. pxPortInitialiseStack(t) = (((flags \o zeros) \o marks) \o a) \o tail
  BY DEF pxPortInitialiseStack, portFLAGS_INT_ENABLED
<1>2. Saved(reg, NewStack(t)) = ((Append(base, 0) \o <<reg[0], reg[1]>>) \o ears) \o general
  BY DEF Saved, portSAVE_CONTEXT, NewStack
<1>3. base \in Stacks
  BY NewStacks
<1>4. /\ reg[0] = 128 /\ reg[1] = 0
      /\ \A r \in ToSet(EARs) : reg[r] = 0
      /\ \A r \in 2..23 : reg[r] = Marker(r)
      /\ \A r \in 24..25 : reg[r] = a[r - 23]
      /\ \A r \in 26..31 : reg[r] = tail[r - 25]
  <2>1. reg[0] = 128 /\ reg[1] = 0
    BY NewRegs
  <2>2. \A r \in ToSet(EARs) : reg[r] = 0
    BY NewRegs
  <2>3. \A r \in 2..23 : reg[r] = Marker(r)
    BY NewRegs
  <2>4. \A r \in 24..25 : reg[r] = a[r - 23]
    BY NewRegs
  <2>5. \A r \in 26..31 : reg[r] = tail[r - 25]
    BY NewRegs
  <2> QED
    BY <2>1, <2>2, <2>3, <2>4, <2>5
<1>5. ears = zeros
  <2>1. \A i \in 1..5 : EARs[i] \in ToSet(EARs)
    BY RegisterNumbers DEF EARs
  <2>2. ears = [i \in 1..5 |-> 0]
    BY <1>4, <2>1
  <2>3. [i \in 1..5 |-> 0] = zeros
    OBVIOUS
  <2> QED
    BY <2>2, <2>3
<1>6. Append(base, 0) \o <<128, 0>> = flags
  <2> HIDE DEF base
  <2> QED
    BY <1>3 DEF Stacks
<1> HIDE DEF base, flags, zeros
<1>7. general = (marks \o a) \o tail
  <2>1. \A i \in 1..30 : General[i] = i + 1
    BY DEF General
  <2>2. /\ \A i \in 1..22 : general[i] = Marker(i + 1)
        /\ general[23] = a[1] /\ general[24] = a[2]
        /\ \A i \in 25..30 : general[i] = tail[i - 24]
    <3>1. \A i \in 1..30 : general[i] = reg[i + 1]
      BY <2>1
    <3> HIDE DEF general, reg, a, tail
    <3>2. \A i \in 1..22 : i + 1 \in 2..23
      OBVIOUS
    <3>3. \A i \in 25..30 : i + 1 \in 26..31 /\ (i + 1) - 25 = i - 24
      OBVIOUS
    <3>4. 24 - 23 = 1 /\ 25 - 23 = 2
      OBVIOUS
    <3> QED
      BY <1>4, <3>1, <3>2, <3>3, <3>4
  <2>6. a \in Seq(Nat) /\ Len(a) = 2
    <3> DEFINE low == Parameter(t) % 256  high == Parameter(t) \div 256
    <3>1. Parameter(t) \in 3001..3009
      BY Places
    <3>2. low \in Nat /\ high \in Nat
      BY <3>1
    <3>3. a = <<low, high>>
      BY DEF Address
    <3> HIDE DEF low, high, a
    <3> QED
      BY <3>2, <3>3
  <2>4. /\ marks \in Seq(Nat) /\ Len(marks) = 22 /\ \A i \in 1..22 : marks[i] = Marker(i + 1)
    <3>1. \A i \in 1..22 : Marker(i + 1) \in Nat
      <4> TAKE i \in 1..22
      <4> DEFINE low == (i + 1) % 10  high == (i + 1) \div 10
      <4>1. low \in Nat /\ high \in Nat
        OBVIOUS
      <4> HIDE DEF low, high
      <4>2. low + 16 * high \in Nat
        BY <4>1
      <4> QED
        BY <4>2 DEF Marker, low, high
    <3>2. marks = [i \in 1..22 |-> Marker(i + 1)]
      BY DEF Marker
    <3> HIDE DEF marks
    <3> QED
      BY <3>1, <3>2
  <2>5. tail \in Seq(Nat) /\ Len(tail) = 6
    OBVIOUS
  <2> DEFINE both == marks \o a  all == both \o tail
  <2>7. general = [i \in 1..30 |-> general[i]]
    OBVIOUS
  <2> HIDE DEF marks, a, tail, general
  <2>12. /\ both \in Seq(Nat) /\ Len(both) = 24
         /\ \A i \in 1..22 : both[i] = marks[i]
         /\ both[23] = a[1] /\ both[24] = a[2]
    <3>1. /\ both \in Seq(Nat) /\ Len(both) = Len(marks) + Len(a)
          /\ \A i \in 1..Len(marks) : both[i] = marks[i]
          /\ \A i \in 1..Len(a) : both[Len(marks) + i] = a[i]
      BY <2>4, <2>6, Concatenated, Zenon
    <3> HIDE DEF both
    <3>2. both[22 + 1] = a[1] /\ both[22 + 2] = a[2]
      BY <2>4, <2>6, <3>1
    <3> QED
      BY <2>4, <2>6, <3>1, <3>2
  <2> HIDE DEF both
  <2>8. /\ all \in Seq(Nat) /\ Len(all) = 30
        /\ \A i \in 1..22 : all[i] = marks[i]
        /\ all[23] = a[1] /\ all[24] = a[2]
        /\ \A i \in 25..30 : all[i] = tail[i - 24]
    <3>3. /\ all \in Seq(Nat) /\ Len(all) = Len(both) + Len(tail)
          /\ \A i \in 1..Len(both) : all[i] = both[i]
          /\ \A i \in 1..Len(tail) : all[Len(both) + i] = tail[i]
      BY <2>5, <2>12, Concatenated, Zenon
    <3> HIDE DEF all
    <3>4. \A i \in 25..30 : i - 24 \in 1..6 /\ 24 + (i - 24) = i
      OBVIOUS
    <3>1. /\ all \in Seq(Nat) /\ Len(all) = 30 /\ \A i \in 1..24 : all[i] = both[i]
          /\ \A i \in 25..30 : all[i] = tail[i - 24]
      BY <2>5, <2>12, <3>3, <3>4
    <3>2. 23 \in 1..24 /\ 24 \in 1..24 /\ \A i \in 1..22 : i \in 1..24
      OBVIOUS
    <3> QED
      BY <2>12, <3>1, <3>2
  <2> HIDE DEF all
  <2>9. \A i \in 1..30 : all[i] = general[i]
    <3>1. \A i \in 1..30 : i \in 1..22 \/ i = 23 \/ i = 24 \/ i \in 25..30
      OBVIOUS
    <3> QED
      BY <2>2, <2>4, <2>8, <3>1
  <2>10. all = [i \in 1..30 |-> all[i]]
    BY <2>8
  <2>11. all = general
    BY <2>7, <2>9, <2>10
  <2> QED
    BY <2>11 DEF all, both
<1>8. (((flags \o zeros) \o marks) \o a) \o tail = (flags \o zeros) \o ((marks \o a) \o tail)
  <2>1. flags \o zeros \in Seq(Nat)
    <3>0. Byte \subseteq Nat
      BY DEF Byte
    <3>1. base \in Seq(Nat)
      BY <1>3, <3>0, SeqMonotonic DEF Stacks
    <3> QED
      BY <3>1 DEF flags, zeros
  <2>2. marks \in Seq(Nat) /\ a \in Seq(Nat) /\ tail \in Seq(Nat)
    <3>1. Parameter(t) \in Nat
      BY Places
    <3>2. a \in Seq(Nat)
      BY <3>1 DEF Address
    <3>3. marks \in Seq(Nat)
      OBVIOUS
    <3> QED
      BY <3>2, <3>3
  <2> DEFINE front == flags \o zeros
  <2> HIDE DEF front, marks, a, tail
  <2>3. ((front \o marks) \o a) \o tail = front \o ((marks \o a) \o tail)
    <3>1. front \in Seq(Nat) /\ front \o marks \in Seq(Nat)
      BY <2>1, <2>2 DEF front
    <3>2. ((front \o marks) \o a) \o tail = (front \o marks) \o (a \o tail)
      BY <2>2, <3>1, Associative, Zenon
    <3>3. a \o tail \in Seq(Nat)
      BY <2>2
    <3>4. (front \o marks) \o (a \o tail) = front \o (marks \o (a \o tail))
      BY <2>2, <3>1, <3>3, Associative, Zenon
    <3>5. marks \o (a \o tail) = (marks \o a) \o tail
      BY <2>2, Associative, Zenon
    <3> QED
      BY <3>2, <3>4, <3>5, Zenon
  <2> QED
    BY <2>3 DEF front
<1> QED
  BY <1>1, <1>2, <1>4, <1>5, <1>6, <1>7, <1>8 DEF base, flags, zeros

\* A new task is suspended at the start of its code.
LEMMA NewTask ==
  ASSUME NEW nvic \in BOOLEAN, NEW t \in CpuTasks
  PROVE  pxPortInitialiseStack(t) \in Stacks /\ Suspended(nvic, t, <<>>, pxPortInitialiseStack(t))
<1> DEFINE reg == NewReg(t)
           stack == NewStack(t)
           reg0 == [reg EXCEPT ![0] = 0]
           below == <<17, 34, 51>>
           a == Entry(t)
<1>1. /\ below \in Stacks /\ stack \in Stacks /\ a \in Addresses
      /\ stack = Append(below \o Address(a), 0)
  BY NewStacks DEF NewStack
<1>2. /\ reg \in Regs /\ reg[0] = 128 /\ reg[SREG] = 128 /\ reg[1] = 0
      /\ reg[24] + 256 * reg[25] = Parameter(t)
  BY NewRegs
<1>3. \A r \in ToSet(EARs) : reg[r] = 0
  BY NewRegs
<1> HIDE DEF reg, stack, below, a
<1>4. 0 \in Byte /\ 0 \in Registers /\ 1 \in Registers /\ SREG \in Registers /\ SREG # 0
      /\ 24 \in Registers /\ 25 \in Registers /\ 0 \notin ToSet(EARs) /\ ToSet(EARs) \subseteq Registers
  BY RegisterNumbers DEF SREG, Byte
<1>5. reg0 \in Regs /\ reg0[0] = 0 /\ \A r \in Registers : r # 0 => reg0[r] = reg[r]
  BY <1>2, <1>4 DEF Regs
<1>6. [reg0 EXCEPT ![0] = reg0[SREG]] = reg
  <2>1. reg0[SREG] = reg[0]
    BY <1>2, <1>4, <1>5
  <2> QED
    BY <1>2, <1>4, <2>1 DEF Regs
<1> HIDE DEF reg0
<1>7. Fresh(t, reg0)
  <2>1. reg0[24] + 256 * reg0[25] = Parameter(t)
    BY <1>2, <1>4, <1>5
  <2>2. \A r \in {1} \cup ToSet(EARs) : reg0[r] = 0
    BY <1>2, <1>3, <1>4, <1>5
  <2>3. InterruptsOn(reg0)
    BY <1>2, <1>4, <1>5 DEF InterruptsOn, portFLAGS_INT_ENABLED
  <2> QED
    BY <2>1, <2>2, <2>3 DEF Fresh
<1>8. InCode(t, <<>>, a, reg0, below)
  BY <1>7 DEF InCode, a, below
<1>9. InSwitch(Restored, reg, stack, reg0, below \o Address(a))
  BY <1>1, <1>5, <1>6 DEF InSwitch
<1>10. AtTask(nvic, t, <<>>, Restored, reg, stack)
  BY <1>1, <1>5, <1>7, <1>8, <1>9 DEF AtTask, Fresh
<1>11. pxPortInitialiseStack(t) = Saved(reg, stack)
  BY InitialiseStackSaved DEF reg, stack
<1>12. Saved(reg, stack) \in Stacks
  BY <1>1, <1>2, SavedLayout, Zenon
<1>13. Resumes(nvic, t, <<>>, Restored, reg, stack)
  BY <1>10 DEF Resumes
<1> QED
  BY <1>1, <1>2, <1>11, <1>12, <1>13 DEF Suspended

LEMMA CpuInitially == CpuInit => CpuInv
<1> SUFFICES ASSUME CpuInit PROVE CpuInv
  OBVIOUS
<1> DEFINE current == CHOOSE t \in CpuTasks : TRUE
           reg == [r \in Registers |-> 255 * (r % 2)]
           top == [t \in CpuTasks |-> pxPortInitialiseStack(t)]
           own == [t \in CpuTasks |-> <<>>]
<1>1. PICK nvic \in BOOLEAN :
        cpu = [nvic |-> nvic, reg |-> reg, at |-> Start, stack |-> <<>>, current |-> current,
               pending |-> FALSE, top |-> top, own |-> own]
  BY DEF CpuInit
<1>2. current \in CpuTasks
  BY ContextAssumption
<1>3. reg \in Regs
  <2> SUFFICES ASSUME NEW r \in Registers PROVE 255 * (r % 2) \in Byte
    BY DEF Regs
  <2>1. r \in Nat
    BY RegisterNumbers
  <2>2. r % 2 = 0 \/ r % 2 = 1
    BY <2>1
  <2> QED
    BY <2>2 DEF Byte
<1>4. \A t \in CpuTasks : /\ pxPortInitialiseStack(t) \in Stacks
                          /\ Suspended(nvic, t, <<>>, pxPortInitialiseStack(t))
  BY NewTask
<1>5. top \in [CpuTasks -> Stacks]
  BY <1>4
<1>6. own \in [CpuTasks -> Owns] /\ \A t \in CpuTasks : own[t] = <<>>
  BY DEF Owns
<1>7. \A t \in CpuTasks : Suspended(nvic, t, own[t], top[t])
  BY <1>4
<1>8. <<>> \in Stacks /\ Start \in Addresses
  BY Places DEF Stacks
<1> HIDE DEF current, reg, top, own
<1>9. /\ cpu \in Cpus /\ cpu.at = Start /\ cpu.nvic = nvic /\ cpu.pending = FALSE
      /\ cpu.top = top /\ cpu.own = own
  BY <1>1, <1>2, <1>3, <1>5, <1>6, <1>8 DEF Cpus
<1>10. CpuType
  BY <1>9 DEF CpuType, Cpus
<1> QED
  BY <1>7, <1>9, <1>10 DEF CpuInv

LEMMA CpuSteps == CpuInv /\ [CpuNext]_cpu => CpuInv'
<1> SUFFICES ASSUME CpuInv, [CpuNext]_cpu PROVE CpuInv'
  OBVIOUS
<1>1. CASE xPortStartScheduler
  BY <1>1, CpuStarts
<1>2. CASE Begin
  BY <1>2, CpuBegins
<1>3. CASE Work
  BY <1>3, CpuWorks
<1>4. CASE EnterReads \/ EnterMasks
  BY <1>4, CpuEnters
<1>5. CASE portEXIT_CRITICAL
  BY <1>5, CpuExits
<1>6. CASE portYIELD
  BY <1>6, CpuYields
<1>7. CASE timer0_handler \/ sti_handler
  BY <1>7, CpuInterrupted
<1>8. CASE SavePushes \/ SaveReads
  BY <1>8, CpuSaves
<1>9. CASE SwitchesContext
  BY <1>9, CpuSwitches
<1>10. CASE RestorePops
  BY <1>10, CpuPops
<1>11. CASE RoutineReturns \/ ReturnsFromInterrupt
  BY <1>11, CpuReturns
<1>12. CASE UNCHANGED cpu
  BY <1>12 DEF CpuInv, CpuType
<1> QED
  BY <1>1, <1>2, <1>3, <1>4, <1>5, <1>6, <1>7, <1>8, <1>9, <1>10, <1>11, <1>12, Zenon DEF CpuNext

\* A task that runs again finds its registers, its flags, its stack and its
\* critical sections as it left them, wherever the interrupts came, and a new
\* task starts as port.c promises: for any tasks, any nesting and any stacks.
THEOREM TasksGoOnAsTheyLeft == CpuSpec => []ContextKept
<1>1. CpuInit => CpuInv
  BY CpuInitially
<1>2. CpuInv /\ [CpuNext]_cpu => CpuInv'
  BY CpuSteps
<1>3. CpuInv => ContextKept
  BY InvKeepsContext
<1> QED
  BY <1>1, <1>2, <1>3, PTL DEF CpuSpec

-----------------------------------------------------------------------------
(* Alignment                                                               *)

LEMMA Multiple ==
  ASSUME NEW m \in Nat \ {0}, NEW n \in Nat
  PROVE  (m * n) % m = 0
BY SMT

LEMMA Multiples ==
  ASSUME NEW m \in Nat \ {0}, NEW x \in Nat, x % m = 0, NEW y \in Nat, y % m = 0
  PROVE  (x + y) % m = 0
<1>1. /\ x \div m \in Nat /\ y \div m \in Nat
      /\ x = m * (x \div m) /\ y = m * (y \div m)
  BY SMT
<1> DEFINE p == x \div m  q == y \div m  n == p + q
<1>2. x + y = m * n /\ n \in Nat
  BY <1>1, SMT
<1> HIDE DEF p, q, n
<1>3. (m * n) % m = 0
  BY <1>2, Multiple
<1> QED
  BY <1>2, <1>3

LEMMA Rounded ==
  ASSUME NEW n \in Nat
  PROVE  /\ RoundUp(n) \in Nat /\ n =< RoundUp(n) /\ RoundUp(n) % Alignment = 0
         /\ RoundDown(n) \in Nat /\ RoundDown(n) =< n /\ n < RoundDown(n) + Alignment
         /\ RoundDown(n) % Alignment = 0
<1> DEFINE low == n % Alignment  high == n \div Alignment
<1>1. Alignment \in Nat \ {0}
  BY HeapAssumption
<1>2. low \in Nat /\ high \in Nat /\ low < Alignment /\ n = low + Alignment * high
  BY <1>1, SMT
<1>3. Alignment * high \in Nat /\ Alignment * (high + 1) = Alignment * high + Alignment
  BY <1>1, <1>2, SMT
<1>4. (Alignment * high) % Alignment = 0 /\ (Alignment * (high + 1)) % Alignment = 0
  BY <1>1, <1>2, SMT
<1>5. RoundDown(n) = n - low /\ RoundUp(n) = IF low = 0 THEN n ELSE n + Alignment - low
  BY DEF RoundDown, RoundUp
<1> HIDE DEF low, high
<1>6. RoundDown(n) = Alignment * high
  BY <1>2, <1>3, <1>5
<1>7. RoundUp(n) = Alignment * high \/ RoundUp(n) = Alignment * (high + 1)
  BY <1>1, <1>2, <1>3, <1>5
<1>8. n =< RoundUp(n)
  BY <1>1, <1>2, <1>5
<1>9. RoundUp(n) \in Nat
  BY <1>1, <1>3, <1>7
<1> QED
  BY <1>1, <1>2, <1>3, <1>4, <1>6, <1>7, <1>8, <1>9

LEMMA RegionTypes ==
  /\ 1 \in DOMAIN Regions /\ DOMAIN Regions = 1..Len(Regions) /\ Len(Regions) \in Nat
  /\ \A i \in DOMAIN Regions : Regions[i].at \in Nat /\ Regions[i].size \in Nat
<1> DEFINE S == [at : Nat, size : Nat]
<1>1. Regions \in Seq(S) /\ Regions # <<>>
  BY HeapAssumption
<1>2. \A region \in S : region.at \in Nat /\ region.size \in Nat
  OBVIOUS
<1> HIDE DEF S
<1>3. /\ 1 \in DOMAIN Regions /\ DOMAIN Regions = 1..Len(Regions) /\ Len(Regions) \in Nat
      /\ \A i \in DOMAIN Regions : Regions[i] \in S
  BY <1>1
<1> QED
  BY <1>2, <1>3

\* The first address of a space and the one behind it, and spaces next to each other.
LEMMA RegionBounds ==
  ASSUME NEW i \in DOMAIN Regions
  PROVE  /\ RegionStart(Regions[i]) \in Nat /\ RegionEnd(Regions[i]) \in Nat
         /\ RegionStart(Regions[i]) < RegionEnd(Regions[i])
         /\ RegionStart(Regions[i]) % Alignment = 0
<1>1. Regions[i].at \in Nat /\ Regions[i].size \in Nat
  BY RegionTypes
<1>2. RegionStart(Regions[i]) \in Nat /\ RegionStart(Regions[i]) % Alignment = 0
  BY <1>1, Rounded DEF RegionStart
<1>3. RegionEnd(Regions[i]) \in Int
  <2> DEFINE n == Regions[i].at + Regions[i].size - LinkSize
  <2>1. n \in Int
    BY <1>1, HeapAssumption
  <2>2. RegionEnd(Regions[i]) = n - (n % Alignment)
    BY DEF RegionEnd, RoundDown
  <2> HIDE DEF n
  <2> QED
    BY <2>1, <2>2, HeapAssumption, SMT
<1> QED
  BY <1>2, <1>3, HeapAssumption

Schemes == {1, 2, 4, 5}

SpaceOf(space) == space[1] \in Nat /\ space[2] \in Nat /\ space[1] < space[2]
                    /\ space[1] % Alignment = 0

LEMMA AlignedHeapBounds ==
  /\ AlignedHeap \in Nat /\ AlignedHeap % Alignment = 0
  /\ AdjustedSize \in Nat \ {0}
<1>1. 1 \in DOMAIN Regions /\ Regions[1].at \in Nat /\ Regions[1].size \in Nat
  BY RegionTypes
<1>2. Regions[1].at + Alignment \in Nat
  BY <1>1, HeapAssumption
<1>3. AlignedHeap \in Nat /\ AlignedHeap % Alignment = 0
  BY <1>2, Rounded DEF AlignedHeap
<1> QED
  BY <1>1, <1>3, HeapAssumption DEF AdjustedSize

LEMMA SpacesBy ==
  /\ Spaces(1) = {<<AlignedHeap, AlignedHeap + AdjustedSize>>}
  /\ Spaces(2) = {<<AlignedHeap, AlignedHeap + AdjustedSize>>}
  /\ Spaces(4) = {<<RegionStart(Regions[1]), RegionEnd(Regions[1])>>}
  /\ Spaces(5) = {<<RegionStart(Regions[i]), RegionEnd(Regions[i])>> : i \in DOMAIN Regions}
BY DEF Spaces

LEMMA SpacesApart ==
  ASSUME NEW scheme \in Schemes
  PROVE  /\ \A space \in Spaces(scheme) : SpaceOf(space)
         /\ \A m, n \in Spaces(scheme) : m # n => m[2] < n[1] \/ n[2] < m[1]
<1>1. CASE scheme \in {1, 2}
  BY <1>1, SpacesBy, AlignedHeapBounds DEF SpaceOf
<1>2. CASE scheme = 4
  <2>1. 1 \in DOMAIN Regions
    BY RegionTypes
  <2> QED
    BY <1>2, <2>1, SpacesBy, RegionBounds DEF SpaceOf
<1>3. CASE scheme = 5
  <2>1. ASSUME NEW m \in Spaces(5), NEW n \in Spaces(5), m # n
        PROVE  m[2] < n[1] \/ n[2] < m[1]
    <3>1. PICK i \in DOMAIN Regions : m = <<RegionStart(Regions[i]), RegionEnd(Regions[i])>>
      BY SpacesBy
    <3>2. PICK j \in DOMAIN Regions : n = <<RegionStart(Regions[j]), RegionEnd(Regions[j])>>
      BY SpacesBy
    <3>3. i # j /\ i \in Nat /\ j \in Nat
      BY <2>1, <3>1, <3>2, RegionTypes
    <3>4. CASE i < j
      BY <3>1, <3>2, <3>4, HeapAssumption
    <3>5. CASE j < i
      BY <3>1, <3>2, <3>5, HeapAssumption
    <3> QED
      BY <3>3, <3>4, <3>5
  <2>2. \A space \in Spaces(5) : SpaceOf(space)
    BY SpacesBy, RegionBounds DEF SpaceOf
  <2> QED
    BY <1>3, <2>1, <2>2
<1> QED
  BY <1>1, <1>2, <1>3 DEF Schemes
-----------------------------------------------------------------------------
(* Blocks in memory: addresses S, each with its size                       *)

Sized(size, S) == S \subseteq Nat /\ \A b \in S : size[b] \in Nat
Laid(size, S) == \A b, c \in S : b < c => b + size[b] =< c
Housed(size, S, spaces) ==
  \A b \in S : /\ b % Alignment = 0
               /\ \E space \in spaces : b >= space[1] /\ b + size[b] =< space[2]
Cells(size, S) == UNION {b..(b + size[b] - 1) : b \in S}
NoneNext(size, S) == \A b, c \in S : b + size[b] = c => size[c] = 0

\* What spaces are.
Disjoint(spaces) ==
  /\ \A space \in spaces : SpaceOf(space)
  /\ \A m, n \in spaces : m # n => m[2] < n[1] \/ n[2] < m[1]

\* The block f absorbs the block c that begins where it ends.
Absorbs(size, new, S, f, c) ==
  /\ Sized(size, S) /\ Laid(size, S) /\ f \in S /\ c \in S /\ size[f] > 0 /\ f + size[f] = c
  /\ new[f] = size[f] + size[c] /\ \A x \in S \ {f, c} : new[x] = size[x]

LEMMA CellsIn ==
  ASSUME NEW size, NEW S, Sized(size, S), NEW n
  PROVE  n \in Cells(size, S) <=> \E b \in S : n \in Int /\ b =< n /\ n < b + size[b]
<1>1. \A b \in S : b \in Nat /\ size[b] \in Nat
  BY DEF Sized
<1>2. \A b \in S : n \in b..(b + size[b] - 1) <=> n \in Int /\ b =< n /\ n < b + size[b]
  BY <1>1
<1> QED
  BY <1>2 DEF Cells

LEMMA AbsorbSized ==
  ASSUME NEW size, NEW new, NEW S, NEW f, NEW c, Absorbs(size, new, S, f, c)
  PROVE  Sized(new, S \ {c}) /\ f # c /\ f < c
<1>1. /\ S \subseteq Nat /\ \A b \in S : size[b] \in Nat
      /\ f \in S /\ c \in S /\ size[f] > 0 /\ f + size[f] = c
      /\ new[f] = size[f] + size[c] /\ \A x \in S \ {f, c} : new[x] = size[x]
  BY DEF Absorbs, Sized
<1>2. f < c /\ f # c
  BY <1>1
<1>3. ASSUME NEW b \in S \ {c}
      PROVE  new[b] \in Nat
  BY <1>1, <1>3
<1> QED
  BY <1>1, <1>2, <1>3 DEF Sized

LEMMA AbsorbLaid ==
  ASSUME NEW size, NEW new, NEW S, NEW f, NEW c, Absorbs(size, new, S, f, c)
  PROVE  Laid(new, S \ {c})
<1>1. /\ S \subseteq Nat /\ \A b \in S : size[b] \in Nat
      /\ f \in S /\ c \in S /\ size[f] > 0 /\ f + size[f] = c
      /\ new[f] = size[f] + size[c] /\ \A x \in S \ {f, c} : new[x] = size[x]
      /\ \A x, y \in S : x < y => x + size[x] =< y
  BY DEF Absorbs, Sized, Laid
<1>2. ASSUME NEW x \in S \ {c}, NEW y \in S \ {c}, x < y
      PROVE  x + new[x] =< y
  <2>1. x \in Nat /\ y \in Nat /\ f \in Nat /\ c \in Nat /\ size[x] \in Nat /\ size[f] \in Nat
        /\ size[c] \in Nat /\ x + size[x] =< y
    BY <1>1, <1>2
  <2>2. CASE x = f
    <3>1. c =< y /\ y # c
      BY <1>1, <1>2, <2>1, <2>2
    <3>2. c + size[c] =< y
      BY <1>1, <2>1, <3>1
    <3> QED
      BY <1>1, <2>1, <2>2, <3>2
  <2>3. CASE x # f
    BY <1>1, <1>2, <2>1, <2>3
  <2> QED
    BY <2>2, <2>3
<1> QED
  BY <1>2 DEF Laid

LEMMA AbsorbCells ==
  ASSUME NEW size, NEW new, NEW S, NEW f, NEW c, Absorbs(size, new, S, f, c),
         NEW T \in SUBSET S, f \in T, c \in T
  PROVE  Cells(new, T \ {c}) = Cells(size, T)
<1>1. /\ S \subseteq Nat /\ \A b \in S : size[b] \in Nat
      /\ f \in S /\ c \in S /\ size[f] > 0 /\ f + size[f] = c
      /\ new[f] = size[f] + size[c] /\ \A x \in S \ {f, c} : new[x] = size[x]
  BY DEF Absorbs, Sized
<1>2. Sized(size, T) /\ Sized(new, T \ {c}) /\ f # c
  BY <1>1, AbsorbSized DEF Sized
<1>3. f \in Nat /\ c \in Nat /\ size[f] \in Nat /\ size[c] \in Nat
  BY <1>1
<1>4. ASSUME NEW n \in Cells(size, T)
      PROVE  n \in Cells(new, T \ {c})
  <2>1. PICK b \in T : n \in Int /\ b =< n /\ n < b + size[b]
    BY <1>2, CellsIn
  <2>2. CASE b = f \/ b = c
    <3>1. f =< n /\ n < f + new[f]
      BY <1>1, <1>3, <2>1, <2>2
    <3> QED
      BY <1>2, <2>1, <3>1, CellsIn
  <2>3. CASE b # f /\ b # c
    <3>1. b \in T \ {c} /\ new[b] = size[b]
      BY <1>1, <2>3
    <3> QED
      BY <1>2, <2>1, <3>1, CellsIn
  <2> QED
    BY <2>2, <2>3
<1>5. ASSUME NEW n \in Cells(new, T \ {c})
      PROVE  n \in Cells(size, T)
  <2>1. PICK b \in T \ {c} : n \in Int /\ b =< n /\ n < b + new[b]
    BY <1>2, CellsIn
  <2>2. CASE b = f
    <3>1. (f =< n /\ n < f + size[f]) \/ (c =< n /\ n < c + size[c])
      BY <1>1, <1>3, <2>1, <2>2
    <3> QED
      BY <1>2, <2>1, <3>1, CellsIn
  <2>3. CASE b # f
    <3>1. b \in T /\ new[b] = size[b]
      BY <1>1, <2>3
    <3> QED
      BY <1>2, <2>1, <3>1, CellsIn
  <2> QED
    BY <2>2, <2>3
<1> QED
  BY <1>4, <1>5

LEMMA AbsorbHoused ==
  ASSUME NEW size, NEW new, NEW S, NEW f, NEW c, Absorbs(size, new, S, f, c),
         NEW spaces, Disjoint(spaces), Housed(size, S, spaces)
  PROVE  Housed(new, S \ {c}, spaces)
<1>1. /\ S \subseteq Nat /\ \A b \in S : size[b] \in Nat
      /\ f \in S /\ c \in S /\ size[f] > 0 /\ f + size[f] = c
      /\ new[f] = size[f] + size[c] /\ \A x \in S \ {f, c} : new[x] = size[x]
  BY DEF Absorbs, Sized
<1>2. f % Alignment = 0 /\ \E space \in spaces : f >= space[1] /\ f + new[f] =< space[2]
  <2>1. PICK m \in spaces : f >= m[1] /\ f + size[f] =< m[2]
    BY <1>1 DEF Housed
  <2>2. PICK n \in spaces : c >= n[1] /\ c + size[c] =< n[2]
    BY <1>1 DEF Housed
  <2>3. /\ f \in Nat /\ c \in Nat /\ size[f] \in Nat /\ size[c] \in Nat
        /\ m[1] \in Nat /\ m[2] \in Nat /\ n[1] \in Nat /\ n[2] \in Nat
    BY <1>1 DEF Disjoint, SpaceOf
  <2>4. m = n
    <3>1. ~(m[2] < n[1]) /\ ~(n[2] < m[1])
      BY <1>1, <2>1, <2>2, <2>3
    <3> QED
      BY <3>1 DEF Disjoint
  <2>5. f + new[f] =< m[2]
    BY <1>1, <2>2, <2>3, <2>4
  <2> QED
    BY <1>1, <2>1, <2>5 DEF Housed
<1>3. ASSUME NEW b \in S \ {c}, b # f
      PROVE  b % Alignment = 0 /\ \E space \in spaces : b >= space[1] /\ b + new[b] =< space[2]
  BY <1>1, <1>3 DEF Housed
<1> QED
  BY <1>2, <1>3 DEF Housed

\* No block of T but f ends where one begins.
NextBut(size, T, f) == \A b, c \in T : b # f /\ b + size[b] = c => size[c] = 0

LEMMA AbsorbNext ==
  ASSUME NEW size, NEW new, NEW S, NEW f, NEW c, Absorbs(size, new, S, f, c),
         NEW T \in SUBSET S, f \in T, c \in T, NextBut(size, T, f)
  PROVE  NoneNext(new, T \ {c})
<1>1. /\ S \subseteq Nat /\ \A b \in S : size[b] \in Nat
      /\ f \in S /\ c \in S /\ size[f] > 0 /\ f + size[f] = c
      /\ new[f] = size[f] + size[c] /\ \A x \in S \ {f, c} : new[x] = size[x]
  BY DEF Absorbs, Sized
<1>2. f \in Nat /\ c \in Nat /\ size[f] \in Nat /\ size[c] \in Nat
  BY <1>1
<1>3. ASSUME NEW x \in T \ {c}, NEW y \in T \ {c}, x + new[x] = y
      PROVE  new[y] = 0
  <2>1. x \in S /\ y \in S /\ x \in Nat /\ y \in Nat
    BY <1>1
  <2>2. CASE x = f
    <3>1. c + size[c] = y /\ c # f
      BY <1>1, <1>2, <1>3, <2>2
    <3>2. size[y] = 0
      BY <3>1 DEF NextBut
    <3> QED
      BY <1>1, <2>1, <3>2, <1>2
  <2>3. CASE x # f
    <3>1. size[y] = 0
      BY <1>1, <1>3, <2>1, <2>3 DEF NextBut
    <3> QED
      BY <1>1, <2>1, <3>1
  <2> QED
    BY <2>2, <2>3
<1> QED
  BY <1>3 DEF NoneNext
-----------------------------------------------------------------------------
(* The free list in the order of the addresses                             *)

Ascends(s) == \A m, n \in DOMAIN s : m < n => s[m] < s[n]

LEMMA AscendsWithout ==
  ASSUME NEW s, NEW u, NEW x, NEW k, Slips(Nat, s, u, x, k), Ascends(u)
  PROVE  Ascends(s)
<1>1. /\ Len(s) \in Nat /\ DOMAIN s = 1..Len(s) /\ DOMAIN u = 1..Len(u)
      /\ Len(u) = Len(s) + 1 /\ k \in 1..Len(u)
      /\ \A n \in 1..Len(s) : (n < k => u[n] = s[n]) /\ (n >= k => u[n + 1] = s[n])
  BY DEF Slips, Rows
<1> DEFINE at(n) == IF n < k THEN n ELSE n + 1
<1>2. ASSUME NEW n \in DOMAIN s
      PROVE  at(n) \in DOMAIN u /\ s[n] = u[at(n)]
  BY <1>1
<1>3. ASSUME NEW m \in DOMAIN s, NEW n \in DOMAIN s, m < n
      PROVE  s[m] < s[n]
  <2>1. at(m) < at(n)
    BY <1>1, <1>3
  <2>2. at(m) \in DOMAIN u /\ at(n) \in DOMAIN u /\ s[m] = u[at(m)] /\ s[n] = u[at(n)]
    BY <1>2
  <2> HIDE DEF at
  <2> QED
    BY <2>1, <2>2 DEF Ascends
<1> QED
  BY <1>3 DEF Ascends

LEMMA AscendsWith ==
  ASSUME NEW s, NEW u, NEW x, NEW k, Slips(Nat, s, u, x, k), Ascends(s),
         \A n \in 1..Len(s) : n < k => s[n] < x,
         \A n \in 1..Len(s) : n >= k => x < s[n]
  PROVE  Ascends(u)
<1>1. /\ Len(s) \in Nat /\ DOMAIN s = 1..Len(s) /\ DOMAIN u = 1..Len(u)
      /\ Len(u) = Len(s) + 1 /\ k \in 1..Len(u) /\ u[k] = x
      /\ \A n \in 1..Len(s) : (n < k => u[n] = s[n]) /\ (n >= k => u[n + 1] = s[n])
  BY DEF Slips, Rows
<1> DEFINE place(n) == IF n < k THEN n ELSE n - 1
<1>2. ASSUME NEW n \in DOMAIN u, n # k
      PROVE  place(n) \in DOMAIN s /\ u[n] = s[place(n)]
  BY <1>1, <1>2
<1>3. ASSUME NEW m \in DOMAIN u, NEW n \in DOMAIN u, m < n
      PROVE  u[m] < u[n]
  <2>1. CASE m = k
    <3>1. n # k /\ place(n) >= k
      BY <1>1, <1>3, <2>1
    <3> QED
      BY <1>1, <1>2, <2>1, <3>1
  <2>2. CASE n = k
    <3>1. m # k /\ place(m) < k
      BY <1>1, <1>3, <2>2
    <3> QED
      BY <1>1, <1>2, <2>2, <3>1
  <2>3. CASE m # k /\ n # k
    <3>1. /\ place(m) \in DOMAIN s /\ place(n) \in DOMAIN s
          /\ u[m] = s[place(m)] /\ u[n] = s[place(n)]
      BY <1>2, <2>3
    <3>2. place(m) < place(n)
      BY <1>1, <1>3, <2>3
    <3> HIDE DEF place
    <3> QED
      BY <3>1, <3>2 DEF Ascends
  <2> QED
    BY <2>1, <2>2, <2>3
<1> QED
  BY <1>3 DEF Ascends

\* Where InsertByAddress puts a block.
PlaceBefore(s, b) ==
  LET later == SelectInSeq(s, LAMBDA c : c >= b) IN IF later = 0 THEN Len(s) + 1 ELSE later

LEMMA PlaceByAddress ==
  ASSUME NEW s \in Rows(Nat), Ascends(s), NEW b \in Nat, b \notin ToSet(s)
  PROVE  /\ PlaceBefore(s, b) \in 1..(Len(s) + 1)
         /\ \A n \in 1..Len(s) : n < PlaceBefore(s, b) => s[n] < b
         /\ \A n \in 1..Len(s) : n >= PlaceBefore(s, b) => b < s[n]
<1> DEFINE I == {i \in 1..Len(s) : s[i] >= b}  k == PlaceBefore(s, b)
<1>1. s \in Seq(Nat) /\ Len(s) \in Nat /\ DOMAIN s = 1..Len(s) /\ \A n \in 1..Len(s) : s[n] \in Nat
  BY DEF Rows
<1>2. SelectInSeq(s, LAMBDA c : c >= b) = IF I # {} THEN Min(I) ELSE 0
  BY DEF SelectInSeq
<1>3. I # {} => Min(I) \in I /\ \A i \in I : Min(I) <= i
  <2> SUFFICES ASSUME I # {} PROVE Min(I) \in I /\ \A i \in I : Min(I) <= i
    OBVIOUS
  <2>1. I \subseteq Nat
    BY <1>1
  <2> HIDE DEF I
  <2>2. PICK n \in I : \A m \in I : n <= m
    BY <2>1, LeastElement
  <2> QED
    BY <2>2 DEF Min
<1>4. \A n \in 1..Len(s) : s[n] # b
  BY <1>1 DEF ToSet
<1>5. CASE I = {}
  <2>1. k = Len(s) + 1
    BY <1>2, <1>5 DEF PlaceBefore
  <2>2. \A n \in 1..Len(s) : s[n] < b
    BY <1>1, <1>5
  <2> HIDE DEF k
  <2> QED
    BY <1>1, <2>1, <2>2 DEF k
<1>6. CASE I # {}
  <2>1. Min(I) \in 1..Len(s) /\ s[Min(I)] >= b
    BY <1>3, <1>6
  <2>2. k = Min(I)
    BY <1>2, <1>6, <2>1 DEF PlaceBefore
  <2>3. \A n \in 1..Len(s) : s[n] >= b => Min(I) <= n
    BY <1>3, <1>6
  <2> HIDE DEF k, I
  <2>4. k \in 1..Len(s) /\ s[k] >= b /\ \A n \in 1..Len(s) : s[n] >= b => k <= n
    BY <2>1, <2>2, <2>3
  <2>5. \A n \in 1..Len(s) : n < k => s[n] < b
    BY <1>1, <2>4
  <2>6. ASSUME NEW n \in 1..Len(s), n >= k
        PROVE  b < s[n]
    <3>1. n = k \/ s[k] < s[n]
      BY <1>1, <2>4, <2>6 DEF Ascends
    <3> QED
      BY <1>1, <1>4, <2>4, <3>1
  <2> QED
    BY <1>1, <2>4, <2>5, <2>6 DEF k
<1> QED
  BY <1>5, <1>6

\* With nothing between them, what is next in the list is next in memory.
LEMMA NextInList ==
  ASSUME NEW s \in Rows(Nat), Ascends(s), NEW size, Sized(size, ToSet(s)), Laid(size, ToSet(s)),
         NEW i \in 1..Len(s), size[s[i]] > 0, NEW c \in ToSet(s), s[i] + size[s[i]] = c
  PROVE  i # Len(s) /\ i + 1 \in 1..Len(s) /\ s[i + 1] = c
<1>1. /\ s \in Seq(Nat) /\ Len(s) \in Nat /\ DOMAIN s = 1..Len(s)
      /\ \A n \in 1..Len(s) : s[n] \in Nat /\ s[n] \in ToSet(s)
  BY DEF Rows, ToSet
<1>2. PICK j \in 1..Len(s) : s[j] = c
  BY <1>1 DEF ToSet
<1>3. size[s[i]] \in Nat /\ s[i] \in Nat /\ s[i] < s[j]
  BY <1>1, <1>2 DEF Sized
<1>a. \A m, n \in 1..Len(s) : m < n => s[m] < s[n]
  BY <1>1 DEF Ascends
<1>4. i < j
  <2>1. CASE j < i
    <3>1. s[j] < s[i]
      BY <1>a, <2>1
    <3> QED
      BY <1>1, <1>3, <3>1
  <2> QED
    BY <1>1, <1>3, <2>1
<1>5. i + 1 \in 1..Len(s) /\ i + 1 <= j
  BY <1>1, <1>4
<1>6. s[i] < s[i + 1]
  BY <1>1, <1>5 DEF Ascends
<1>7. c =< s[i + 1]
  BY <1>1, <1>5, <1>6 DEF Laid
<1>8. i + 1 = j \/ s[i + 1] < s[j]
  BY <1>1, <1>5, <1>a
<1>9. s[i + 1] \in Nat /\ s[j] \in Nat /\ c \in Nat
  BY <1>1, <1>2, <1>5
<1>10. i # Len(s)
  <2>1. Len(s) \in Nat /\ i \in Nat /\ i + 1 =< Len(s)
    BY <1>1, <1>5
  <2> QED
    BY <2>1
<1>11. s[i + 1] = c
  <2>1. CASE i + 1 = j
    BY <1>2, <2>1
  <2>2. CASE s[i + 1] < s[j]
    BY <1>2, <1>7, <1>9, <2>2
  <2> QED
    BY <1>8, <2>1, <2>2
<1> QED
  BY <1>5, <1>10, <1>11
-----------------------------------------------------------------------------
(* The insertion of a block into the free list of h.  A is the set of the  *)
(* blocks that are allocated, or about to be.                              *)

Sizes == UNION {[S -> Nat] : S \in SUBSET Nat}

HeapType ==
  [scheme : Schemes, next : Nat, free : Rows(Nat), end : Nat, size : Sizes, used : Sizes,
   remaining : Int, minimum : Int]

LEMMA SizesAre ==
  /\ \A f \in Sizes : DOMAIN f \subseteq Nat /\ \A x \in DOMAIN f : f[x] \in Nat
  /\ \A f \in Sizes : \A x \in DOMAIN f : \A n \in Nat : [f EXCEPT ![x] = n] \in Sizes
  /\ \A S \in SUBSET Nat : [S -> Nat] \subseteq Sizes
<1>1. \A S \in SUBSET Nat : [S -> Nat] \subseteq Sizes
  BY DEF Sizes
<1>2. ASSUME NEW f \in Sizes
      PROVE  /\ DOMAIN f \subseteq Nat /\ \A x \in DOMAIN f : f[x] \in Nat
             /\ \A x \in DOMAIN f : \A n \in Nat : [f EXCEPT ![x] = n] \in Sizes
  <2>1. PICK S \in SUBSET Nat : f \in [S -> Nat]
    BY DEF Sizes
  <2>2. \A x \in DOMAIN f : \A n \in Nat : [f EXCEPT ![x] = n] \in [S -> Nat]
    BY <2>1
  <2> QED
    BY <1>1, <2>1, <2>2
<1> QED
  BY <1>1, <1>2

SameRest(r, h) ==
  /\ r.scheme = h.scheme /\ r.next = h.next /\ r.end = h.end /\ r.used = h.used
  /\ r.remaining = h.remaining /\ r.minimum = h.minimum

\* The blocks S and the list, but for neighbours in the list.
Ground(h, S) ==
  /\ h \in HeapType /\ S \subseteq DOMAIN h.size
  /\ Laid(h.size, S) /\ Housed(h.size, S, Spaces(h.scheme))
  /\ h.scheme \in {4, 5} => Ascends(h.free)

Sound(h, A) ==
  /\ A \subseteq Nat /\ Ground(h, Listed(h) \cup A)
  /\ h.scheme \in {4, 5} => NoneNext(h.size, Listed(h))

\* r is h with the block b in its free list.
Grown(r, h, A, b) ==
  /\ Sound(r, A) /\ SameRest(r, h) /\ DOMAIN r.size = DOMAIN h.size
  /\ Listed(r) \subseteq Listed(h) \cup {b}
  /\ \A a \in A : r.size[a] = h.size[a]
  /\ Cells(r.size, Listed(r)) = Cells(h.size, Listed(h) \cup {b})

LEMMA GroundFacts ==
  ASSUME NEW h, NEW S, Ground(h, S)
  PROVE  /\ Sized(h.size, S) /\ Laid(h.size, S) /\ Housed(h.size, S, Spaces(h.scheme))
         /\ h.size \in Sizes /\ h.free \in Rows(Nat) /\ h.scheme \in Schemes
         /\ Disjoint(Spaces(h.scheme)) /\ Listed(h) \subseteq Nat
<1>1. h.size \in Sizes /\ h.free \in Rows(Nat) /\ h.scheme \in Schemes
  BY DEF Ground, HeapType
<1>2. Disjoint(Spaces(h.scheme))
  BY <1>1, SpacesApart DEF Disjoint
<1>3. Sized(h.size, S)
  BY <1>1, SizesAre DEF Ground, Sized
<1>4. Listed(h) \subseteq Nat
  BY <1>1, EmptyRow DEF Listed
<1> QED
  BY <1>1, <1>2, <1>3, <1>4 DEF Ground

\* The block at the place i may join the next one.
Joinable(h, A, i) ==
  /\ h.scheme \in {4, 5} /\ A \subseteq Nat /\ Ground(h, Listed(h) \cup A)
  /\ Listed(h) \cap A = {} /\ i \in 1..Len(h.free) /\ h.size[h.free[i]] > 0
  /\ NextBut(h.size, Listed(h), h.free[i])

LEMMA JoinNextGrows ==
  ASSUME NEW h, NEW A, NEW i, Joinable(h, A, i)
  PROVE  Grown(JoinNext(h, i), h, A, h.free[i])
<1> USE DEF Joinable
<1> DEFINE f == h.free[i]  c == h.free[i + 1]  s == h.free  S == Listed(h) \cup A
           r == JoinNext(h, i)
<1>1. /\ h \in HeapType /\ s \in Rows(Nat) /\ Ascends(s) /\ S \subseteq DOMAIN h.size
      /\ Sized(h.size, S) /\ Laid(h.size, S) /\ Housed(h.size, S, Spaces(h.scheme))
      /\ h.size \in Sizes /\ Disjoint(Spaces(h.scheme)) /\ Listed(h) = ToSet(s)
  BY GroundFacts DEF Ground, Listed
<1>2. /\ s \in Seq(Nat) /\ Len(s) \in Nat /\ DOMAIN s = 1..Len(s)
      /\ f \in Listed(h) /\ f \in Nat /\ h.size[f] \in Nat
  BY <1>1 DEF Rows, ToSet, Sized
<1>3. CASE i = Len(s) \/ Ends(h, f) # c
  <2>1. r = h
    BY <1>3 DEF JoinNext
  <2>2. NoneNext(h.size, Listed(h))
    <3>1. ASSUME NEW x \in Listed(h), NEW y \in Listed(h), x + h.size[x] = y
          PROVE  h.size[y] = 0
      <4>1. CASE x = f
        <5>1. Sized(h.size, ToSet(s)) /\ Laid(h.size, ToSet(s))
          BY <1>1 DEF Sized, Laid
        <5>2. i # Len(s) /\ s[i + 1] = y
          BY <1>1, <3>1, <4>1, <5>1, NextInList
        <5> QED
          BY <1>3, <3>1, <4>1, <5>2 DEF Ends
      <4>2. CASE x # f
        BY <3>1, <4>2 DEF NextBut
      <4> QED
        BY <4>1, <4>2
    <3> QED
      BY <3>1 DEF NoneNext
  <2>3. Listed(h) \cup {f} = Listed(h)
    BY <1>2
  <2>4. Grown(h, h, A, f)
    BY <2>2, <2>3 DEF Grown, Sound, SameRest
  <2> QED
    BY <2>1, <2>4
<1>4. CASE i # Len(s) /\ Ends(h, f) = c
  <2> DEFINE size == [h.size EXCEPT ![f] = @ + h.size[c]]  free == RemoveAt(s, i + 1)
  <2>1. i + 1 \in 1..Len(s) /\ c \in Listed(h) /\ c \in Nat /\ h.size[c] \in Nat /\ f \in DOMAIN h.size
    <3>1. i + 1 \in 1..Len(s)
      BY <1>2, <1>4
    <3>2. c \in ToSet(s)
      BY <1>2, <3>1 DEF ToSet
    <3>3. c \in S /\ f \in S
      BY <1>1, <1>2, <3>2
    <3> HIDE DEF S, c, f
    <3> QED
      BY <1>1, <3>1, <3>2, <3>3 DEF Sized
  <2>2. r = [h EXCEPT !.size = size, !.free = free]
    BY <1>4 DEF JoinNext
  <2>3. /\ size \in Sizes /\ DOMAIN size = DOMAIN h.size
        /\ size[f] = h.size[f] + h.size[c] /\ \A x \in DOMAIN h.size \ {f} : size[x] = h.size[x]
    <3> DEFINE n == h.size[f] + h.size[c]
    <3>1. n \in Nat /\ f \in DOMAIN h.size /\ h.size \in Sizes
      BY <1>1, <1>2, <2>1
    <3>2. size = [h.size EXCEPT ![f] = n]
      OBVIOUS
    <3> HIDE DEF n, f, size
    <3>3. /\ size \in Sizes /\ DOMAIN size = DOMAIN h.size
          /\ size[f] = n /\ \A x \in DOMAIN h.size \ {f} : size[x] = h.size[x]
      BY <3>1, <3>2, SizesAre
    <3> QED
      BY <3>3 DEF n
  <2>4. Slips(Nat, free, s, c, i + 1)
    BY <1>1, <2>1, RemoveAtSlips
  <2>5. free \in Rows(Nat) /\ ToSet(free) = ToSet(s) \ {c} /\ Ascends(free)
    <3> HIDE DEF free, c, s
    <3>1. Removes(Nat, s, free, c)
      BY <1>1, <2>4, SlipsRemoves
    <3>2. Ascends(free)
      BY <1>1, <2>4, AscendsWithout
    <3> QED
      BY <3>1, <3>2 DEF Removes
  <2> HIDE DEF size, free, r
  <2>6. r \in HeapType
    BY <1>1, <2>2, <2>3, <2>5, Zenon DEF HeapType
  <2>7. r.size = size /\ r.free = free /\ SameRest(r, h)
    BY <1>1, <2>2 DEF HeapType, SameRest
  <2>8. Absorbs(h.size, size, S, f, c)
    <3>1. f + h.size[f] = c
      BY <1>4 DEF Ends
    <3>2. \A x \in S \ {f, c} : size[x] = h.size[x]
      BY <1>1, <2>3
    <3> QED
      BY <1>1, <1>2, <2>1, <2>3, <3>1, <3>2 DEF Absorbs
  <2>9. c \notin A /\ f \notin A /\ c # f
    BY <1>2, <2>1, <2>8, AbsorbSized
  <2>10. Listed(r) = Listed(h) \ {c} /\ Listed(r) \cup A = S \ {c}
    BY <1>1, <2>5, <2>7, <2>9 DEF Listed
  <2>11. /\ Laid(size, S \ {c}) /\ Housed(size, S \ {c}, Spaces(h.scheme))
         /\ Cells(size, Listed(h) \ {c}) = Cells(h.size, Listed(h))
         /\ NoneNext(size, Listed(h) \ {c})
    <3> DEFINE T == Listed(h)
    <3>1. T \in SUBSET S /\ f \in T /\ c \in T /\ NextBut(h.size, T, f)
      BY <1>2, <2>1
    <3> HIDE DEF T, S, f, c
    <3>2. Laid(size, S \ {c}) /\ Housed(size, S \ {c}, Spaces(h.scheme))
      BY <1>1, <2>8, AbsorbLaid, AbsorbHoused
    <3>3. Cells(size, T \ {c}) = Cells(h.size, T)
      BY <2>8, <3>1, AbsorbCells
    <3>4. NoneNext(size, T \ {c})
      BY <2>8, <3>1, AbsorbNext
    <3> QED
      BY <3>2, <3>3, <3>4 DEF T
  <2>12. Ground(r, Listed(r) \cup A)
    <3>1. Listed(r) \cup A \subseteq DOMAIN size
      BY <1>1, <2>3, <2>10
    <3>2. r.scheme = h.scheme
      BY <2>7 DEF SameRest
    <3> QED
      BY <2>5, <2>6, <2>7, <2>10, <2>11, <3>1, <3>2 DEF Ground
  <2>13. Sound(r, A)
    BY <2>7, <2>10, <2>11, <2>12 DEF Sound
  <2>14. \A a \in A : size[a] = h.size[a]
    BY <1>1, <2>3, <2>9
  <2>15. Listed(h) \cup {f} = Listed(h)
    BY <1>2
  <2>16. Grown(r, h, A, f)
    BY <2>3, <2>7, <2>10, <2>11, <2>13, <2>14, <2>15 DEF Grown
  <2> QED
    BY <2>16 DEF r
<1> QED
  BY <1>3, <1>4

\* b can be put into the free list of h.
Insertable(h, A, b) ==
  /\ A \subseteq Nat /\ b \in Nat /\ b \notin A /\ b \notin Listed(h) /\ h.size[b] > 0
  /\ Listed(h) \cap A = {}
  /\ Ground(h, Listed(h) \cup A \cup {b})
  /\ h.scheme \in {4, 5} => NoneNext(h.size, Listed(h))

LEMMA Smaller ==
  ASSUME NEW size, NEW S, NEW T \in SUBSET S, NEW spaces
  PROVE  /\ Sized(size, S) => Sized(size, T)
         /\ Laid(size, S) => Laid(size, T)
         /\ Housed(size, S, spaces) => Housed(size, T, spaces)
BY DEF Sized, Laid, Housed

\* The block p before b takes it in.
LEMMA JoinedBefore ==
  ASSUME NEW h, h.scheme \in {4, 5}, NEW A, NEW b, Insertable(h, A, b),
         NEW j \in 1..Len(h.free), h.free[j] + h.size[h.free[j]] = b, h.free[j] < b
  PROVE  Grown(JoinNext([h EXCEPT !.size[h.free[j]] = @ + h.size[b]], j), h, A, b)
<1> DEFINE p == h.free[j]  s == h.free  S == Listed(h) \cup A \cup {b}
           n == h.size[p] + h.size[b]  size == [h.size EXCEPT ![p] = n]
           g == [h EXCEPT !.size = size]
<1>1. /\ h \in HeapType /\ s \in Rows(Nat) /\ Ascends(s) /\ S \subseteq DOMAIN h.size
      /\ Sized(h.size, S) /\ Laid(h.size, S) /\ Housed(h.size, S, Spaces(h.scheme))
      /\ h.size \in Sizes /\ Disjoint(Spaces(h.scheme)) /\ Listed(h) = ToSet(s)
  BY GroundFacts DEF Ground, Listed, Insertable
<1>2. /\ A \in SUBSET Nat /\ b \in Nat /\ b \notin A /\ b \notin Listed(h) /\ h.size[b] > 0
      /\ Listed(h) \cap A = {} /\ NoneNext(h.size, Listed(h))
  BY DEF Insertable
<1>3. DOMAIN s = 1..Len(s) /\ p \in Listed(h) /\ p # b
  BY <1>1, <1>2 DEF Rows, ToSet
<1>4. p \in S /\ b \in S /\ p \in Nat /\ h.size[p] \in Nat /\ h.size[b] \in Nat
  <2>1. p \in S /\ b \in S
    BY <1>3
  <2> HIDE DEF S, p
  <2> QED
    BY <1>1, <2>1 DEF Sized
<1>5. p + h.size[p] = b /\ h.size[p] > 0 /\ n \in Nat /\ n > 0
  BY <1>2, <1>4
<1>6. g = [h EXCEPT !.size[h.free[j]] = @ + h.size[b]]
  OBVIOUS
<1>7. /\ size \in Sizes /\ DOMAIN size = DOMAIN h.size
      /\ size[p] = n /\ \A x \in DOMAIN h.size \ {p} : size[x] = h.size[x]
  <2>1. p \in DOMAIN h.size
    BY <1>1, <1>4
  <2> HIDE DEF n, p
  <2> QED
    BY <1>1, <1>5, <2>1, SizesAre
<1> HIDE DEF size
<1>8. g \in HeapType /\ g.size = size /\ g.free = s /\ SameRest(g, h) /\ Listed(g) = Listed(h)
  <2>1. g \in HeapType
    BY <1>1, <1>7, Zenon DEF HeapType
  <2> QED
    BY <1>1, <2>1 DEF HeapType, SameRest, Listed
<1> HIDE DEF g
<1>9. Absorbs(h.size, size, S, p, b)
  <2>1. \A x \in S \ {p, b} : size[x] = h.size[x]
    BY <1>1, <1>7
  <2>2. size[p] = h.size[p] + h.size[b]
    BY <1>7
  <2> HIDE DEF S, p
  <2> QED
    BY <1>1, <1>4, <1>5, <2>1, <2>2 DEF Absorbs
<1>10. S \ {b} = Listed(h) \cup A
  BY <1>2
<1>11. /\ Laid(size, Listed(h) \cup A) /\ Housed(size, Listed(h) \cup A, Spaces(h.scheme))
  <2> HIDE DEF S
  <2> QED
    BY <1>1, <1>9, <1>10, AbsorbLaid, AbsorbHoused
<1>12. Cells(size, Listed(h)) = Cells(h.size, Listed(h) \cup {b})
  <2> DEFINE T == Listed(h) \cup {b}
  <2>1. T \in SUBSET S /\ p \in T /\ b \in T /\ T \ {b} = Listed(h)
    BY <1>2, <1>3
  <2> HIDE DEF T, S
  <2>2. Cells(size, T \ {b}) = Cells(h.size, T)
    BY <1>9, <2>1, AbsorbCells
  <2> QED
    BY <2>1, <2>2 DEF T
<1>13. g.scheme \in {4, 5} /\ g.scheme = h.scheme
  BY <1>8 DEF SameRest
<1>14. Ground(g, Listed(g) \cup A)
  <2>1. Listed(g) \cup A \subseteq DOMAIN g.size
    BY <1>1, <1>7, <1>8
  <2>2. Ascends(g.free) /\ Laid(g.size, Listed(g) \cup A)
        /\ Housed(g.size, Listed(g) \cup A, Spaces(g.scheme))
    BY <1>1, <1>8, <1>11, <1>13
  <2> QED
    BY <1>8, <2>1, <2>2 DEF Ground
<1>15. NextBut(size, Listed(h), p)
  <2>1. ASSUME NEW x \in Listed(h), NEW y \in Listed(h), x # p, x + size[x] = y
        PROVE  size[y] = 0
    <3>1. x \in DOMAIN h.size /\ y \in DOMAIN h.size
      BY <1>1
    <3>2. size[x] = h.size[x]
      BY <1>7, <2>1, <3>1
    <3>3. h.size[y] = 0
      BY <1>2, <2>1, <3>2 DEF NoneNext
    <3>4. y # p
      BY <1>4, <1>5, <3>3
    <3> QED
      BY <1>7, <3>1, <3>3, <3>4
  <2> QED
    BY <2>1 DEF NextBut
<1>16. Grown(JoinNext(g, j), g, A, p)
  <2>1. j \in 1..Len(g.free) /\ g.free[j] = p /\ g.size[p] > 0
    BY <1>5, <1>7, <1>8
  <2>2. Listed(g) \cap A = {} /\ NextBut(g.size, Listed(g), p)
    BY <1>2, <1>8, <1>15
  <2> HIDE DEF p
  <2>3. NextBut(g.size, Listed(g), g.free[j]) /\ g.size[g.free[j]] > 0
    BY <2>1, <2>2
  <2>4. Joinable(g, A, j)
    BY <1>2, <1>13, <1>14, <2>1, <2>2, <2>3 DEF Joinable
  <2> QED
    BY <2>1, <2>4, JoinNextGrows
<1> DEFINE r == JoinNext(g, j)
<1> HIDE DEF r, p
<1>17. Grown(r, g, A, p)
  BY <1>16 DEF r
<1>18. Grown(r, h, A, b)
  <2>1. Sound(r, A) /\ SameRest(r, h) /\ DOMAIN r.size = DOMAIN h.size
    BY <1>7, <1>8, <1>17 DEF Grown, SameRest
  <2>2. Listed(r) \subseteq Listed(h) \cup {b}
    BY <1>3, <1>8, <1>17 DEF Grown
  <2>3. \A a \in A : r.size[a] = h.size[a]
    <3>1. \A a \in A : a \in DOMAIN h.size /\ a # p
      BY <1>1, <1>2, <1>3
    <3> QED
      BY <1>7, <1>8, <1>17, <3>1 DEF Grown
  <2>4. Cells(r.size, Listed(r)) = Cells(h.size, Listed(h) \cup {b})
    <3>1. Listed(g) \cup {p} = Listed(h)
      BY <1>3, <1>8
    <3> QED
      BY <1>8, <1>12, <1>17, <3>1 DEF Grown
  <2> QED
    BY <2>1, <2>2, <2>3, <2>4 DEF Grown
<1> QED
  BY <1>6, <1>18 DEF r, p

\* No block before b takes it in.
LEMMA PutAtPlace ==
  ASSUME NEW h, h.scheme \in {4, 5}, NEW A, NEW b, Insertable(h, A, b),
         NEW i, i = PlaceBefore(h.free, b),
         i > 1 => h.free[i - 1] + h.size[h.free[i - 1]] # b
  PROVE  Grown(JoinNext([h EXCEPT !.free = InsertAt(@, i, b)], i), h, A, b)
<1> DEFINE s == h.free  S == Listed(h) \cup A \cup {b}  u == InsertAt(s, i, b)
           g == [h EXCEPT !.free = u]  r == JoinNext(g, i)
<1>1. /\ h \in HeapType /\ s \in Rows(Nat) /\ Ascends(s) /\ S \subseteq DOMAIN h.size
      /\ Sized(h.size, S) /\ Laid(h.size, S) /\ Housed(h.size, S, Spaces(h.scheme))
      /\ Listed(h) = ToSet(s)
  BY GroundFacts DEF Ground, Listed, Insertable
<1>2. /\ A \subseteq Nat /\ b \in Nat /\ b \notin A /\ b \notin ToSet(s) /\ h.size[b] > 0
      /\ Listed(h) \cap A = {} /\ NoneNext(h.size, Listed(h))
  BY DEF Insertable, Listed
<1>3. Len(s) \in Nat /\ DOMAIN s = 1..Len(s) /\ \A n \in 1..Len(s) : s[n] \in Listed(h)
  BY <1>1 DEF Rows, ToSet
<1>4. /\ i \in 1..(Len(s) + 1)
      /\ \A n \in 1..Len(s) : n < i => s[n] < b
      /\ \A n \in 1..Len(s) : n >= i => b < s[n]
  <2> HIDE DEF s
  <2> QED
    BY <1>1, <1>2, PlaceByAddress DEF s
<1>5. Slips(Nat, s, u, b, i)
  BY <1>1, <1>2, <1>4, InsertSlips
<1> HIDE DEF u
<1>6. u \in Rows(Nat) /\ ToSet(u) = ToSet(s) \cup {b} /\ i \in 1..Len(u) /\ u[i] = b
  <2>1. u \in Rows(Nat) /\ ToSet(u) = ToSet(s) \cup {b}
    BY <1>2, <1>5, SlipsMembers
  <2> QED
    BY <1>5, <2>1 DEF Slips
<1>7. Ascends(u)
  <2> HIDE DEF s
  <2> QED
    BY <1>1, <1>4, <1>5, AscendsWith
<1>8. g \in HeapType /\ g.size = h.size /\ g.free = u /\ SameRest(g, h)
  <2>1. g \in HeapType
    BY <1>1, <1>6, Zenon DEF HeapType
  <2> QED
    BY <1>1, <2>1 DEF HeapType, SameRest
<1>9. Listed(g) = Listed(h) \cup {b}
  BY <1>1, <1>6, <1>8 DEF Listed
<1>10. g.scheme \in {4, 5} /\ g.scheme = h.scheme
  BY <1>8 DEF SameRest
<1> HIDE DEF g
<1>11. Ground(g, Listed(g) \cup A)
  <2>1. Listed(g) \cup A = S
    BY <1>9
  <2> HIDE DEF S
  <2> QED
    BY <1>1, <1>7, <1>8, <1>10, <2>1 DEF Ground
<1>12. NextBut(h.size, Listed(h) \cup {b}, b)
  <2>1. ASSUME NEW x \in Listed(h), NEW y \in Listed(h) \cup {b}, x + h.size[x] = y
        PROVE  h.size[y] = 0
    <3>1. CASE y = b
      <4>1. PICK n \in 1..Len(s) : s[n] = x
        BY <1>1, <1>3 DEF ToSet
      <4>2. x \in Nat /\ h.size[x] \in Nat /\ x \in S
        BY <1>1 DEF Sized
      <4>3. x # b
        BY <1>1, <1>2
      <4>4. x < b
        BY <1>2, <2>1, <3>1, <4>2, <4>3
      <4>5. n < i
        BY <1>2, <1>3, <1>4, <4>1, <4>2, <4>4
      <4>6. n = i - 1 \/ (n < i - 1 /\ i - 1 \in 1..Len(s))
        BY <1>3, <1>4, <4>5
      <4>7. CASE n = i - 1
        BY <1>4, <2>1, <3>1, <4>1, <4>7
      <4>8. CASE n < i - 1 /\ i - 1 \in 1..Len(s)
        <5> DEFINE z == s[i - 1]
        <5>1. x < z
          BY <1>1, <1>3, <4>1, <4>8 DEF Ascends
        <5>2. i - 1 < i
          BY <1>4
        <5>3. z < b
          BY <1>4, <4>8, <5>2
        <5>4. z \in S /\ z \in Nat
          BY <1>1, <1>3, <4>8 DEF Sized
        <5> HIDE DEF z, S
        <5>5. x + h.size[x] =< z
          BY <1>1, <4>2, <5>1, <5>4 DEF Laid
        <5> QED
          BY <1>2, <2>1, <3>1, <4>2, <5>3, <5>4, <5>5
      <4> QED
        BY <4>6, <4>7, <4>8
    <3>2. CASE y \in Listed(h)
      BY <1>2, <2>1, <3>2 DEF NoneNext
    <3> QED
      BY <3>1, <3>2
  <2> QED
    BY <2>1 DEF NextBut
<1>13. Joinable(g, A, i)
  <2>1. Listed(g) \cap A = {}
    BY <1>2, <1>9
  <2>2. i \in 1..Len(g.free) /\ g.size[g.free[i]] > 0
    BY <1>2, <1>6, <1>8
  <2>3. NextBut(g.size, Listed(g), g.free[i])
    BY <1>6, <1>8, <1>9, <1>12
  <2> QED
    BY <1>2, <1>10, <1>11, <2>1, <2>2, <2>3 DEF Joinable
<1>14. Grown(r, g, A, b)
  BY <1>6, <1>8, <1>13, JoinNextGrows
<1> HIDE DEF r
<1>15. Grown(r, h, A, b)
  <2>1. Sound(r, A) /\ SameRest(r, h) /\ DOMAIN r.size = DOMAIN h.size
    BY <1>8, <1>14 DEF Grown, SameRest
  <2>2. Listed(g) \cup {b} = Listed(h) \cup {b}
    BY <1>9
  <2> QED
    BY <1>8, <1>9, <1>14, <2>1, <2>2 DEF Grown
<1> QED
  BY <1>15 DEF r, g, u

LEMMA InsertByAddressGrows ==
  ASSUME NEW h, h.scheme \in {4, 5}, NEW A, NEW b, Insertable(h, A, b)
  PROVE  Grown(InsertByAddress(h, b), h, A, b)
<1> DEFINE s == h.free  i == PlaceBefore(s, b)  p == s[i - 1]
<1>1. InsertByAddress(h, b)
        = IF i > 1 /\ Ends(h, p) = b
          THEN JoinNext([h EXCEPT !.size[p] = @ + h.size[b]], i - 1)
          ELSE JoinNext([h EXCEPT !.free = InsertAt(@, i, b)], i)
  BY DEF InsertByAddress, PlaceBefore
<1>2. s \in Rows(Nat) /\ Ascends(s) /\ b \in Nat /\ b \notin ToSet(s)
  BY GroundFacts DEF Ground, Listed, Insertable
<1>3. Len(s) \in Nat
  BY <1>2 DEF Rows
<1>4. i \in 1..(Len(s) + 1) /\ \A n \in 1..Len(s) : n < i => s[n] < b
  <2> HIDE DEF s
  <2> QED
    BY <1>2, PlaceByAddress
<1> HIDE DEF i
<1>5. CASE i > 1 /\ Ends(h, p) = b
  <2> DEFINE j == i - 1
  <2>1. j \in 1..Len(s) /\ j < i
    BY <1>3, <1>4, <1>5
  <2>2. h.free[j] < b /\ h.free[j] + h.size[h.free[j]] = b
    BY <1>4, <1>5, <2>1 DEF Ends
  <2> HIDE DEF j
  <2>3. Grown(JoinNext([h EXCEPT !.size[h.free[j]] = @ + h.size[b]], j), h, A, b)
    BY <2>1, <2>2, JoinedBefore
  <2> QED
    BY <1>1, <1>5, <2>3 DEF j
<1>6. CASE ~(i > 1 /\ Ends(h, p) = b)
  <2>1. i > 1 => h.free[i - 1] + h.size[h.free[i - 1]] # b
    BY <1>6 DEF Ends
  <2>2. i = PlaceBefore(h.free, b)
    BY DEF i
  <2>3. Grown(JoinNext([h EXCEPT !.free = InsertAt(@, i, b)], i), h, A, b)
    BY <2>1, <2>2, PutAtPlace
  <2> QED
    BY <1>1, <1>6, <2>3
<1> QED
  BY <1>5, <1>6

\* heap_2 joins nothing.
LEMMA InsertBySizeGrows ==
  ASSUME NEW h, h.scheme = 2, NEW A, NEW b, Insertable(h, A, b)
  PROVE  Grown(InsertBySize(h, b), h, A, b)
<1> DEFINE s == h.free  S == Listed(h) \cup A \cup {b}
           larger == SelectInSeq(h.free, LAMBDA c : h.size[c] >= h.size[b])
           i == IF larger = 0 THEN Len(s) + 1 ELSE larger
           u == InsertAt(s, i, b)  r == [h EXCEPT !.free = u]
<1>1. InsertBySize(h, b) = r
  BY DEF InsertBySize
<1>2. /\ h \in HeapType /\ s \in Rows(Nat) /\ S \subseteq DOMAIN h.size
      /\ Laid(h.size, S) /\ Housed(h.size, S, Spaces(h.scheme)) /\ Listed(h) = ToSet(s)
  BY GroundFacts DEF Ground, Listed, Insertable
<1>3. /\ A \subseteq Nat /\ b \in Nat /\ b \notin ToSet(s)
  BY DEF Insertable, Listed
<1>4. i \in 1..(Len(s) + 1)
  <2> DEFINE I == {n \in 1..Len(s) : h.size[s[n]] >= h.size[b]}
  <2>1. Len(s) \in Nat
    BY <1>2 DEF Rows
  <2>2. larger = IF I # {} THEN Min(I) ELSE 0
    BY DEF SelectInSeq
  <2>3. I # {} => Min(I) \in I
    <3> SUFFICES ASSUME I # {} PROVE Min(I) \in I
      OBVIOUS
    <3>1. I \subseteq Nat
      BY <2>1
    <3> HIDE DEF I
    <3>2. PICK n \in I : \A m \in I : n <= m
      BY <3>1, LeastElement
    <3> QED
      BY <3>2 DEF Min
  <2>4. larger \in 0..Len(s)
    BY <2>1, <2>2, <2>3
  <2> HIDE DEF larger
  <2> QED
    BY <2>1, <2>4
<1> HIDE DEF i
<1>5. Slips(Nat, s, u, b, i)
  BY <1>2, <1>3, <1>4, InsertSlips
<1> HIDE DEF u
<1>6. u \in Rows(Nat) /\ ToSet(u) = ToSet(s) \cup {b}
  BY <1>3, <1>5, SlipsMembers
<1>7. r \in HeapType /\ r.size = h.size /\ r.free = u /\ SameRest(r, h)
  <2>1. r \in HeapType
    BY <1>2, <1>6, Zenon DEF HeapType
  <2> QED
    BY <1>2, <2>1 DEF HeapType, SameRest
<1>8. Listed(r) = Listed(h) \cup {b}
  BY <1>2, <1>6, <1>7 DEF Listed
<1>9. r.scheme = 2 /\ h.scheme = 2
  BY <1>7 DEF SameRest
<1> HIDE DEF r
<1>10. Ground(r, Listed(r) \cup A)
  <2>1. Listed(r) \cup A = S
    BY <1>8
  <2> HIDE DEF S
  <2> QED
    BY <1>2, <1>7, <1>9, <2>1 DEF Ground
<1>11. Sound(r, A)
  BY <1>3, <1>9, <1>10 DEF Sound
<1> QED
  BY <1>1, <1>7, <1>8, <1>11 DEF Grown

LEMMA InsertGrows ==
  ASSUME NEW h, h.scheme \in {2, 4, 5}, NEW A, NEW b, Insertable(h, A, b)
  PROVE  Grown(prvInsertBlockIntoFreeList(h, b), h, A, b)
<1>1. CASE h.scheme = 2
  BY <1>1, InsertBySizeGrows DEF prvInsertBlockIntoFreeList
<1>2. CASE h.scheme \in {4, 5}
  BY <1>2, InsertByAddressGrows DEF prvInsertBlockIntoFreeList
<1> QED
  BY <1>1, <1>2

-----------------------------------------------------------------------------
(* Counting bytes                                                          *)

LEMMA CellsUnion ==
  ASSUME NEW size, NEW S, NEW T
  PROVE  Cells(size, S \cup T) = Cells(size, S) \cup Cells(size, T)
BY DEF Cells

LEMMA CellsSame ==
  ASSUME NEW size, NEW new, NEW S, \A b \in S : new[b] = size[b]
  PROVE  Cells(new, S) = Cells(size, S)
<1>1. \A b \in S : b..(b + new[b] - 1) = b..(b + size[b] - 1)
  OBVIOUS
<1> QED
  BY <1>1 DEF Cells

LEMMA SpacesEnd ==
  ASSUME NEW scheme \in Schemes
  PROVE  \E N \in Nat : \A space \in Spaces(scheme) : space[2] =< N
<1>1. CASE scheme \in {1, 2}
  <2>1. AlignedHeap + AdjustedSize \in Nat
    BY AlignedHeapBounds
  <2> QED
    BY <1>1, <2>1, SpacesBy
<1>2. CASE scheme = 4
  BY <1>2, SpacesBy, RegionBounds, RegionTypes
<1>3. CASE scheme = 5
  <2> DEFINE N == RegionEnd(Regions[Len(Regions)])
  <2>1. Len(Regions) \in DOMAIN Regions
    BY RegionTypes
  <2>2. N \in Nat
    BY <2>1, RegionBounds
  <2>3. ASSUME NEW i \in DOMAIN Regions
        PROVE  RegionEnd(Regions[i]) =< N
    <3>1. CASE i = Len(Regions)
      BY <2>2, <3>1
    <3>2. CASE i # Len(Regions)
      <4>1. i < Len(Regions)
        BY <3>2, RegionTypes
      <4>2. RegionEnd(Regions[i]) < RegionStart(Regions[Len(Regions)])
        BY <2>1, <4>1, HeapAssumption
      <4> QED
        BY <2>1, <4>2, RegionBounds
    <3> QED
      BY <3>1, <3>2
  <2> QED
    BY <1>3, <2>2, <2>3, SpacesBy
<1> QED
  BY <1>1, <1>2, <1>3 DEF Schemes

LEMMA CellsFinite ==
  ASSUME NEW scheme \in Schemes, NEW size, NEW S, Sized(size, S),
         Housed(size, S, Spaces(scheme))
  PROVE  IsFiniteSet(Cells(size, S))
<1>1. PICK N \in Nat : \A space \in Spaces(scheme) : space[2] =< N
  BY SpacesEnd
<1>2. ASSUME NEW n \in Cells(size, S)
      PROVE  n \in 0..N
  <2>1. PICK b \in S : n \in Int /\ b =< n /\ n < b + size[b]
    BY CellsIn
  <2>2. PICK space \in Spaces(scheme) : b + size[b] =< space[2]
    BY DEF Housed
  <2>3. b \in Nat /\ size[b] \in Nat /\ space[2] \in Nat /\ space[2] =< N
    BY <1>1, SpacesApart DEF Sized, SpaceOf
  <2> QED
    BY <2>1, <2>2, <2>3
<1>3. IsFiniteSet(0..N)
  BY FS_Interval
<1>4. Cells(size, S) \subseteq 0..N
  BY <1>2
<1> HIDE DEF Cells
<1> QED
  BY <1>3, <1>4, FS_Subset

\* A block more is as many bytes more.
LEMMA OneMore ==
  ASSUME NEW size, NEW S, NEW b, b \notin S, Sized(size, S \cup {b}), Laid(size, S \cup {b}),
         IsFiniteSet(Cells(size, S))
  PROVE  /\ IsFiniteSet(Cells(size, S \cup {b}))
         /\ Cardinality(Cells(size, S \cup {b})) = Cardinality(Cells(size, S)) + size[b]
<1> DEFINE C == Cells(size, S)  B == b..(b + size[b] - 1)  D == Cells(size, S \cup {b})
<1>1. b \in Nat /\ size[b] \in Nat /\ Sized(size, S)
  BY DEF Sized
<1>2. D = C \cup B
  BY DEF Cells
<1>3. C \cap B = {}
  <2>1. ASSUME NEW n \in C, n \in B
        PROVE  FALSE
    <3>1. PICK x \in S : n \in Int /\ x =< n /\ n < x + size[x]
      BY <1>1, CellsIn
    <3>2. x \in Nat /\ size[x] \in Nat /\ x # b
      BY <1>1 DEF Sized
    <3>3. b =< n /\ n < b + size[b]
      BY <1>1, <2>1
    <3>4. CASE x < b
      <4>1. x + size[x] =< b
        BY <3>4 DEF Laid
      <4> QED
        BY <1>1, <3>1, <3>2, <3>3, <4>1
    <3>5. CASE b < x
      <4>1. b + size[b] =< x
        BY <3>5 DEF Laid
      <4> QED
        BY <1>1, <3>1, <3>2, <3>3, <4>1
    <3> QED
      BY <1>1, <3>2, <3>4, <3>5
  <2> QED
    BY <2>1
<1>4. IsFiniteSet(B) /\ Cardinality(B) = size[b]
  <2>1. b \in Int /\ b + size[b] - 1 \in Int
    BY <1>1
  <2> DEFINE last == b + size[b] - 1
  <2> HIDE DEF last
  <2>a. last \in Int /\ B = b..last
    BY <2>1 DEF last
  <2>2. IsFiniteSet(B) /\ Cardinality(B) = IF b > last THEN 0 ELSE last - b + 1
    <3> HIDE DEF B
    <3> QED
      BY <2>1, <2>a, FS_Interval
  <2>3. last = b + size[b] - 1
    BY DEF last
  <2> HIDE DEF B
  <2> QED
    BY <1>1, <2>2, <2>3
<1> HIDE DEF B, C, D
<1>5. IsFiniteSet(C)
  BY DEF C
<1>6. IsFiniteSet(D) /\ Cardinality(D) = Cardinality(C) + Cardinality(B) - Cardinality(C \cap B)
  BY <1>2, <1>4, <1>5, FS_Union
<1>7. Cardinality(C \cap B) = 0
  BY <1>3, FS_EmptySet
<1>8. Cardinality(C) \in Nat
  BY <1>5, FS_CardinalityType
<1> QED
  BY <1>1, <1>4, <1>6, <1>7, <1>8 DEF C, D

-----------------------------------------------------------------------------
(* A block is cut in two                                                   *)

Splits(size, new, S, b, n) ==
  /\ Sized(size, S) /\ Laid(size, S) /\ b \in S /\ n \in Nat \ {0} /\ n < size[b]
  /\ new[b] = n /\ new[b + n] = size[b] - n
  /\ \A x \in S : x # b /\ x # b + n => new[x] = size[x]

LEMMA SplitLaid ==
  ASSUME NEW size, NEW new, NEW S, NEW b, NEW n, Splits(size, new, S, b, n)
  PROVE  /\ b + n \notin S /\ Sized(new, S \cup {b + n}) /\ Laid(new, S \cup {b + n})
         /\ Absorbs(new, size, S \cup {b + n}, b, b + n)
<1> DEFINE c == b + n
<1>1. /\ S \subseteq Nat /\ \A x \in S : size[x] \in Nat
      /\ b \in S /\ n \in Nat \ {0} /\ n < size[b] /\ new[b] = n /\ new[c] = size[b] - n
      /\ \A x, y \in S : x < y => x + size[x] =< y
      /\ \A x \in S : x # b /\ x # c => new[x] = size[x]
  BY DEF Splits, Sized, Laid
<1>2. c \in Nat /\ b \in Nat /\ size[b] \in Nat /\ b < c /\ c < b + size[b]
  BY <1>1
<1>a. c = b + n /\ n \in Nat
  BY <1>1
<1> HIDE DEF c
<1>3. c \notin S
  BY <1>1, <1>2
<1>4. Sized(new, S \cup {c})
  <2>1. new[b] \in Nat /\ new[c] \in Nat
    BY <1>1, <1>2
  <2>2. \A x \in S : x # b => new[x] \in Nat
    BY <1>1, <1>3
  <2> QED
    BY <1>1, <1>2, <2>1, <2>2 DEF Sized
<1>5. ASSUME NEW x \in S \cup {c}, NEW y \in S \cup {c}, x < y
      PROVE  x + new[x] =< y
  <2>1. x \in Nat /\ y \in Nat
    BY <1>1, <1>2
  <2>2. CASE x = b
    <3>1. y = c \/ b + size[b] =< y
      BY <1>1, <1>5, <2>2
    <3> QED
      BY <1>1, <1>2, <1>a, <2>1, <2>2, <3>1
  <2>3. CASE x = c
    <3>1. y \in S /\ b < y
      BY <1>2, <1>5, <2>1, <2>3
    <3>2. b + size[b] =< y
      BY <1>1, <3>1
    <3> QED
      BY <1>1, <1>2, <1>a, <2>1, <2>3, <3>2
  <2>4. CASE x # b /\ x # c
    <3>1. x \in S /\ new[x] = size[x] /\ size[x] \in Nat
      BY <1>1, <2>4
    <3>2. CASE y = c
      <4>1. x < b \/ b < x
        BY <1>2, <2>1, <2>4
      <4>2. CASE x < b
        <5>1. x + size[x] =< b
          BY <1>1, <3>1, <4>2
        <5> QED
          BY <1>2, <2>1, <3>1, <3>2, <5>1
      <4>3. CASE b < x
        <5>1. b + size[b] =< x
          BY <1>1, <3>1, <4>3
        <5> QED
          BY <1>2, <1>5, <2>1, <3>2, <5>1
      <4> QED
        BY <4>1, <4>2, <4>3
    <3>3. CASE y # c
      BY <1>1, <1>5, <3>1, <3>3
    <3> QED
      BY <3>2, <3>3
  <2> QED
    BY <2>2, <2>3, <2>4
<1>6. Laid(new, S \cup {c})
  BY <1>5 DEF Laid
<1>7. Absorbs(new, size, S \cup {c}, b, c)
  <2>1. new[b] > 0 /\ b + new[b] = c /\ size[b] = new[b] + new[c]
    BY <1>1, <1>2, <1>a
  <2>2. \A x \in (S \cup {c}) \ {b, c} : size[x] = new[x]
    BY <1>1
  <2> QED
    BY <1>1, <1>4, <1>6, <2>1, <2>2 DEF Absorbs
<1> QED
  BY <1>3, <1>4, <1>6, <1>7 DEF c

LEMMA SplitHoused ==
  ASSUME NEW size, NEW new, NEW S, NEW b, NEW n, Splits(size, new, S, b, n), n % Alignment = 0,
         NEW spaces, Disjoint(spaces), Housed(size, S, spaces)
  PROVE  Housed(new, S \cup {b + n}, spaces)
<1> DEFINE c == b + n
<1>1. /\ S \subseteq Nat /\ size[b] \in Nat
      /\ b \in S /\ n \in Nat \ {0} /\ n < size[b] /\ new[b] = n /\ new[c] = size[b] - n
      /\ \A x \in S : x # b /\ x # c => new[x] = size[x]
  BY DEF Splits, Sized
<1>2. PICK space \in spaces : b >= space[1] /\ b + size[b] =< space[2]
  BY <1>1 DEF Housed
<1>3. space[1] \in Nat /\ space[2] \in Nat
  BY DEF Disjoint, SpaceOf
<1>4. b + new[b] =< space[2] /\ c >= space[1] /\ c + new[c] =< space[2]
  BY <1>1, <1>2, <1>3
<1>5. b % Alignment = 0 /\ c % Alignment = 0
  <2>1. b % Alignment = 0 /\ b \in Nat /\ n \in Nat /\ Alignment \in Nat \ {0}
    BY <1>1, HeapAssumption DEF Housed
  <2> QED
    BY <2>1, Multiples
<1> HIDE DEF c
<1>6. ASSUME NEW x \in S, x # b, x # c
      PROVE  x % Alignment = 0 /\ \E m \in spaces : x >= m[1] /\ x + new[x] =< m[2]
  BY <1>1, <1>6 DEF Housed
<1> HIDE DEF Housed
<1>7. Housed(new, S \cup {c}, spaces)
  BY <1>2, <1>4, <1>5, <1>6 DEF Housed
<1> QED
  BY <1>7 DEF c

\* What Split makes of g, when b is off the list and n bytes of it are wanted.
Takeable(g, A, b, n) ==
  /\ g.scheme \in {2, 4, 5} /\ Sound(g, A) /\ Listed(g) \cap A = {} /\ b \in A
  /\ n \in Nat \ {0} /\ n % Alignment = 0 /\ n =< g.size[b]

Cut(t, g, A, b, n) ==
  /\ Sound(t, A) /\ SameRest(t, g) /\ Listed(t) \cap A = {}
  /\ n =< t.size[b] /\ \A a \in A \ {b} : t.size[a] = g.size[a]
  /\ Cells(t.size, Listed(t) \cup {b}) = Cells(g.size, Listed(g) \cup {b})

LEMMA SplitCuts ==
  ASSUME NEW g, NEW A, NEW b, NEW n, Takeable(g, A, b, n)
  PROVE  Cut(Split(g, b, n), g, A, b, n)
<1> DEFINE S == Listed(g) \cup A  c == b + n
           size == Updated(Updated(g.size, b, n), b + n, g.size[b] - n)
           d == [g EXCEPT !.size = size]
<1>1. /\ g.scheme \in {2, 4, 5} /\ Listed(g) \cap A = {} /\ b \in A
      /\ n \in Nat \ {0} /\ n % Alignment = 0 /\ n =< g.size[b]
      /\ A \subseteq Nat /\ Ground(g, S) /\ Sound(g, A)
      /\ g.scheme \in {4, 5} => NoneNext(g.size, Listed(g))
  BY DEF Takeable, Sound
<1>2. /\ g \in HeapType /\ S \subseteq DOMAIN g.size /\ Sized(g.size, S) /\ Laid(g.size, S)
      /\ Housed(g.size, S, Spaces(g.scheme)) /\ g.size \in Sizes /\ Disjoint(Spaces(g.scheme))
      /\ g.scheme \in {4, 5} => Ascends(g.free)
  <2> HIDE DEF S
  <2> QED
    BY <1>1, GroundFacts DEF Ground
<1>3. b \in Nat /\ b \in S /\ g.size[b] \in Nat
  <2>1. b \in S
    BY <1>1
  <2> HIDE DEF S
  <2> QED
    BY <1>1, <1>2, <2>1 DEF Sized
<1>4. CASE ~(g.size[b] - n > MinimumBlockSize)
  <2>1. Split(g, b, n) = g
    BY <1>4 DEF Split
  <2>2. SameRest(g, g)
    BY DEF SameRest
  <2> QED
    BY <1>1, <2>1, <2>2 DEF Cut
<1>5. CASE g.size[b] - n > MinimumBlockSize
  <2>1. Split(g, b, n) = prvInsertBlockIntoFreeList(d, c)
    BY <1>5 DEF Split
  <2>2. n < g.size[b]
    BY <1>1, <1>3, <1>5, HeapAssumption DEF MinimumBlockSize
  <2>3. c \in Nat /\ g.size[b] - n \in Nat /\ g.size[b] - n > 0 /\ c # b
    BY <1>1, <1>3, <2>2
  <2>4. /\ DOMAIN size = DOMAIN g.size \cup {b, c}
        /\ size[b] = n /\ size[c] = g.size[b] - n
        /\ \A x \in DOMAIN g.size \ {b, c} : size[x] = g.size[x]
    BY <2>3 DEF Updated
  <2> HIDE DEF size, c
  <2>5. size \in Sizes
    <3> DEFINE D == DOMAIN size
    <3>1. D \in SUBSET Nat
      BY <1>2, <1>3, <2>3, <2>4, SizesAre
    <3>2. \A x \in D : size[x] \in Nat
      BY <1>1, <1>2, <1>3, <2>3, <2>4, SizesAre
    <3>3. size = [x \in D |-> size[x]]
      BY <2>4 DEF size, Updated
    <3> HIDE DEF D
    <3>4. size \in [D -> Nat]
      BY <3>2, <3>3
    <3> QED
      BY <3>1, <3>4, SizesAre
  <2>6. d \in HeapType /\ d.size = size /\ d.free = g.free /\ SameRest(d, g) /\ Listed(d) = Listed(g)
    <3>1. d \in HeapType
      BY <1>2, <2>5, Zenon DEF HeapType
    <3> QED
      BY <1>2, <3>1 DEF HeapType, SameRest, Listed
  <2> HIDE DEF d
  <2>7. d.scheme = g.scheme
    BY <2>6 DEF SameRest
  <2>8. Splits(g.size, size, S, b, n)
    <3>1. size[b + n] = g.size[b] - n
      BY <2>4 DEF c
    <3>2. \A x \in S : x # b /\ x # b + n => size[x] = g.size[x]
      BY <1>2, <2>4 DEF c
    <3> HIDE DEF S
    <3> QED
      BY <1>1, <1>2, <1>3, <2>2, <2>4, <3>1, <3>2 DEF Splits
  <2>9. /\ c \notin S /\ Sized(size, S \cup {c}) /\ Laid(size, S \cup {c})
        /\ Absorbs(size, g.size, S \cup {c}, b, c)
        /\ Housed(size, S \cup {c}, Spaces(g.scheme))
    <3> HIDE DEF S
    <3>1. Housed(size, S \cup {b + n}, Spaces(g.scheme))
      BY <1>1, <1>2, <2>8, SplitHoused
    <3>2. /\ b + n \notin S /\ Sized(size, S \cup {b + n}) /\ Laid(size, S \cup {b + n})
          /\ Absorbs(size, g.size, S \cup {b + n}, b, b + n)
      BY <2>8, SplitLaid
    <3> QED
      BY <3>1, <3>2 DEF c
  <2>10. c \notin A /\ c \notin Listed(g) /\ b \notin Listed(g)
    BY <1>1, <2>9
  <2>11. Listed(d) \cup A \cup {c} = S \cup {c}
    BY <2>6
  <2>12. Ground(d, Listed(d) \cup A \cup {c})
    <3>1. S \cup {c} \subseteq DOMAIN d.size
      BY <1>2, <2>4, <2>6
    <3>2. d.scheme \in {4, 5} => Ascends(d.free)
      BY <1>2, <2>6, <2>7
    <3>3. Ground(d, S \cup {c})
      <4> HIDE DEF S
      <4> QED
        BY <2>6, <2>7, <2>9, <3>1, <3>2 DEF Ground
    <3> QED
      BY <2>11, <3>3
  <2>13. \A x \in Listed(g) \cup (A \ {b}) : size[x] = g.size[x]
    BY <1>2, <2>4, <2>10, <1>1
  <2>14. d.scheme \in {4, 5} => NoneNext(d.size, Listed(d))
    BY <1>1, <2>6, <2>7, <2>13 DEF NoneNext
  <2>15. Insertable(d, A, c)
    <3>1. Listed(d) \cap A = {} /\ c \notin Listed(d)
      BY <1>1, <2>6, <2>10
    <3>2. d.size[c] > 0
      BY <2>3, <2>4, <2>6
    <3> QED
      BY <1>1, <2>3, <2>10, <2>12, <2>14, <3>1, <3>2 DEF Insertable
  <2> DEFINE t == prvInsertBlockIntoFreeList(d, c)
  <2>16. Grown(t, d, A, c)
    BY <1>1, <2>7, <2>15, InsertGrows
  <2> HIDE DEF t
  <2>17. /\ Sound(t, A) /\ SameRest(t, d) /\ Listed(t) \subseteq Listed(d) \cup {c}
         /\ \A a \in A : t.size[a] = d.size[a]
         /\ Cells(t.size, Listed(t)) = Cells(d.size, Listed(d) \cup {c})
    BY <2>16 DEF Grown
  <2>18. Listed(t) \cap A = {} /\ SameRest(t, g)
    BY <1>1, <2>6, <2>10, <2>17 DEF SameRest
  <2>19. n =< t.size[b] /\ \A a \in A \ {b} : t.size[a] = g.size[a]
    BY <1>1, <2>4, <2>6, <2>13, <2>17
  <2>20. Cells(t.size, Listed(t) \cup {b}) = Cells(g.size, Listed(g) \cup {b})
    <3> DEFINE L == Listed(g)  T == L \cup {b} \cup {c}
    <3>1. t.size[b] = size[b]
      BY <1>1, <2>6, <2>17
    <3>2. Cells(t.size, {b}) = Cells(size, {b})
      BY <3>1, CellsSame
    <3>3. Cells(t.size, Listed(t) \cup {b}) = Cells(t.size, Listed(t)) \cup Cells(t.size, {b})
      BY CellsUnion
    <3>4. Cells(t.size, Listed(t)) = Cells(size, L \cup {c})
      BY <2>6, <2>17
    <3>5. Cells(size, (L \cup {c}) \cup {b}) = Cells(size, L \cup {c}) \cup Cells(size, {b})
      BY CellsUnion
    <3>6. (L \cup {c}) \cup {b} = T /\ T \in SUBSET (S \cup {c}) /\ b \in T /\ c \in T
          /\ T \ {c} = L \cup {b}
      BY <1>3, <2>3, <2>10
    <3> HIDE DEF T, L, S
    <3>7. Cells(g.size, T \ {c}) = Cells(size, T)
      BY <2>9, <3>6, AbsorbCells
    <3>8. Cells(g.size, L \cup {b}) = Cells(size, T)
      BY <3>6, <3>7
    <3>9. Cells(t.size, Listed(t) \cup {b}) = Cells(size, T)
      BY <3>2, <3>3, <3>4, <3>5, <3>6
    <3> QED
      BY <3>8, <3>9 DEF L
  <2>21. Cut(t, g, A, b, n)
    BY <2>17, <2>18, <2>19, <2>20 DEF Cut
  <2> QED
    BY <2>1, <2>21 DEF t
<1> QED
  BY <1>4, <1>5

-----------------------------------------------------------------------------
(* The inductive invariant of the heap                                     *)

Full(scheme) == UNION {space[1]..(space[2] - 1) : space \in Spaces(scheme)}

Counted(h) ==
  /\ h.remaining = Cardinality(Cells(h.size, Listed(h)))
  /\ Cells(h.size, Listed(h) \cup Allocated(h)) = Full(h.scheme)

\* heap_1 gives out what follows on the last block.
Following(h) ==
  /\ Listed(h) = {} /\ h.next % Alignment = 0 /\ h.next < AdjustedSize
  /\ \A b \in Allocated(h) : b + h.size[b] =< AlignedHeap + h.next

HeapInv(h) ==
  /\ h \in HeapType
  /\ Sound(h, Allocated(h))
  /\ Apart(h)
  /\ h.scheme # 1 => Counted(h)
  /\ h.scheme \in {4, 5} => h.minimum =< h.remaining
  /\ h.scheme = 1 => Following(h)

LEMMA InvSound ==
  ASSUME NEW h, HeapInv(h)
  PROVE  InPlace(h) /\ Apart(h) /\ Accounted(h) /\ Joined(h)
<1>1. /\ h \in HeapType /\ Sound(h, Allocated(h)) /\ Apart(h)
      /\ h.scheme # 1 => Counted(h)
      /\ h.scheme \in {4, 5} => h.minimum =< h.remaining
  BY DEF HeapInv
<1>2. /\ Laid(h.size, Blocks(h)) /\ Housed(h.size, Blocks(h), Spaces(h.scheme))
      /\ h.scheme \in {4, 5} => NoneNext(h.size, Listed(h))
      /\ Sized(h.size, Blocks(h))
  BY <1>1, GroundFacts DEF Sound, Ground, Blocks
<1>3. InPlace(h)
  BY <1>2 DEF InPlace, Laid, Housed, Ends
<1>4. Accounted(h)
  <2>1. ASSUME NEW S \in SUBSET Blocks(h)
        PROVE  Bytes(h, S) = Cells(h.size, S)
    <3>1. \A b \in S : b \in Nat /\ h.size[b] \in Nat
      BY <1>2 DEF Sized
    <3>2. \A b \in S : b..(Ends(h, b) - 1) = b..(b + h.size[b] - 1)
      BY <3>1 DEF Ends
    <3> QED
      BY <3>2 DEF Bytes, Cells
  <2>2. Listed(h) \in SUBSET Blocks(h) /\ Blocks(h) \in SUBSET Blocks(h)
    BY DEF Blocks
  <2> QED
    BY <1>1, <2>1, <2>2 DEF Accounted, Counted, Blocks, Full
<1>5. Joined(h)
  BY <1>1, <1>2 DEF Joined, NoneNext, Ends
<1> QED
  BY <1>1, <1>3, <1>4, <1>5

Updates(u, f, x, v) ==
  /\ u \in Sizes /\ DOMAIN u = DOMAIN f \cup {x} /\ u[x] = v
  /\ \A y \in DOMAIN f : y # x => u[y] = f[y]

LEMMA UpdatedIs ==
  ASSUME NEW f \in Sizes, NEW x \in Nat, NEW v \in Nat
  PROVE  Updates(Updated(f, x, v), f, x, v)
<1> DEFINE D == DOMAIN f \cup {x}  u == Updated(f, x, v)
<1>1. D \in SUBSET Nat /\ \A y \in DOMAIN f : f[y] \in Nat
  BY SizesAre
<1>2. u = [y \in D |-> IF y = x THEN v ELSE f[y]]
  BY DEF Updated
<1> HIDE DEF u
<1>3. u \in [D -> Nat]
  BY <1>1, <1>2
<1>4. u \in Sizes
  <2> HIDE DEF D
  <2> QED
    BY <1>1, <1>3, SizesAre
<1>5. DOMAIN u = DOMAIN f \cup {x} /\ u[x] = v /\ \A y \in DOMAIN f : y # x => u[y] = f[y]
  BY <1>2
<1> QED
  BY <1>4, <1>5 DEF u, Updates

\* The bytes of the free blocks and of the block b, and of all blocks.
Recut(new, size, A, b, L, T) ==
  /\ b \in A /\ \A a \in A \ {b} : new[a] = size[a]
  /\ Cells(new, L \cup {b}) = Cells(size, T \cup {b})

LEMMA CellsOfAll ==
  ASSUME NEW new, NEW size, NEW A, NEW b, NEW L, NEW T, Recut(new, size, A, b, L, T)
  PROVE  Cells(new, L \cup A) = Cells(size, T \cup A)
<1> USE DEF Recut
<1> DEFINE B == A \ {b}
<1>1. L \cup A = (L \cup {b}) \cup B /\ T \cup A = (T \cup {b}) \cup B
  OBVIOUS
<1>2. Cells(new, B) = Cells(size, B)
  BY CellsSame
<1> HIDE DEF B
<1>3. Cells(new, (L \cup {b}) \cup B) = Cells(new, L \cup {b}) \cup Cells(new, B)
  BY CellsUnion
<1>4. Cells(size, (T \cup {b}) \cup B) = Cells(size, T \cup {b}) \cup Cells(size, B)
  BY CellsUnion
<1> QED
  BY <1>1, <1>2, <1>3, <1>4

LEMMA AllocateKeeps ==
  ASSUME NEW h, HeapInv(h), h.scheme \in {2, 4, 5}, NEW i \in 1..Len(h.free),
         NEW n \in Nat \ {0}, n % Alignment = 0, n =< h.size[h.free[i]],
         NEW wanted \in Nat, n >= wanted + LinkSize
  PROVE  HeapInv(Allocate(h, i, n, wanted))
<1> DEFINE s == h.free  b == s[i]  u == RemoveAt(s, i)  g == [h EXCEPT !.free = u]
           t == Split(g, b, n)  A == Allocated(h) \cup {b}
           r == Allocate(h, i, n, wanted)  S == Listed(h) \cup Allocated(h)
<1>1. /\ h \in HeapType /\ Sound(h, Allocated(h)) /\ Apart(h) /\ Counted(h)
      /\ h.scheme \in {4, 5} => h.minimum =< h.remaining
  BY DEF HeapInv
<1>2. /\ Listed(h) \cap Allocated(h) = {}
      /\ \A a \in Allocated(h) : h.size[a] >= h.used[a] + LinkSize
  BY <1>1 DEF Apart
<1>3. /\ Allocated(h) \subseteq Nat /\ Ground(h, S)
      /\ h.scheme \in {4, 5} => NoneNext(h.size, Listed(h))
  BY <1>1 DEF Sound
<1>4. /\ S \subseteq DOMAIN h.size /\ Sized(h.size, S) /\ Laid(h.size, S)
      /\ Housed(h.size, S, Spaces(h.scheme)) /\ h.size \in Sizes /\ h.used \in Sizes
      /\ s \in Rows(Nat)
      /\ h.scheme \in {4, 5} => Ascends(s)
      /\ h.remaining \in Int /\ h.minimum \in Int /\ h.scheme \in Schemes
  <2> HIDE DEF S
  <2> QED
    BY <1>1, <1>3, GroundFacts DEF Ground, HeapType
<1>5. Slips(Nat, u, s, b, i)
  BY <1>4, RemoveAtSlips
<1>6. /\ u \in Rows(Nat) /\ ToSet(u) = ToSet(s) \ {b} /\ b \in ToSet(s)
      /\ h.scheme \in {4, 5} => Ascends(u)
  <2> HIDE DEF u, b, s
  <2>1. Removes(Nat, s, u, b) /\ b \in ToSet(s)
    BY <1>4, <1>5, SlipsRemoves
  <2>2. h.scheme \in {4, 5} => Ascends(u)
    BY <1>4, <1>5, AscendsWithout
  <2> QED
    BY <2>1, <2>2 DEF Removes
<1>7. b \in Nat /\ b \in Listed(h) /\ b \notin Allocated(h) /\ h.size[b] \in Nat /\ b \in S
  <2>1. b \in Listed(h)
    BY <1>6 DEF Listed
  <2>2. b \in S
    BY <2>1
  <2> HIDE DEF S, b
  <2> QED
    BY <1>2, <1>4, <2>1, <2>2 DEF Sized
<1> HIDE DEF u
<1>8. g \in HeapType /\ g.size = h.size /\ g.free = u /\ SameRest(g, h)
  <2>1. g \in HeapType
    BY <1>1, <1>6, Zenon DEF HeapType
  <2> QED
    BY <1>1, <2>1 DEF HeapType, SameRest
<1> HIDE DEF g, b
<1>9. Listed(g) = Listed(h) \ {b} /\ Listed(g) \cup A = S /\ g.scheme = h.scheme
  BY <1>6, <1>7, <1>8 DEF Listed, SameRest
<1>10. Takeable(g, A, b, n)
  <2>1. Ground(g, S)
    <3> HIDE DEF S
    <3> QED
      BY <1>4, <1>6, <1>8, <1>9 DEF Ground
  <2>2. g.scheme \in {4, 5} => NoneNext(g.size, Listed(g))
    BY <1>3, <1>8, <1>9 DEF NoneNext
  <2>3. A \subseteq Nat
    BY <1>3, <1>7
  <2>4. Sound(g, A)
    BY <1>9, <2>1, <2>2, <2>3 DEF Sound
  <2>5. Listed(g) \cap A = {}
    BY <1>2, <1>9
  <2>6. n =< g.size[b]
    BY <1>8 DEF b
  <2> QED
    BY <1>9, <2>4, <2>5, <2>6 DEF Takeable
<1>11. Cut(t, g, A, b, n)
  BY <1>10, SplitCuts
<1> HIDE DEF t
<1>12. /\ Sound(t, A) /\ SameRest(t, h) /\ Listed(t) \cap A = {}
       /\ n =< t.size[b] /\ \A a \in A \ {b} : t.size[a] = h.size[a]
       /\ Cells(t.size, Listed(t) \cup {b}) = Cells(h.size, Listed(h))
  <2>1. Listed(g) \cup {b} = Listed(h)
    BY <1>7, <1>9
  <2> QED
    BY <1>8, <1>11, <2>1 DEF Cut, SameRest
<1> DEFINE used == Updated(h.used, b, wanted)  left == h.remaining - t.size[b]
           low == IF h.scheme = 2 THEN h.minimum ELSE Min({h.minimum, left})
<1>13. r = [t EXCEPT !.used = used, !.remaining = left, !.minimum = low]
  BY <1>12 DEF Allocate, g, t, b, u, SameRest
<1>14. used \in Sizes /\ DOMAIN used = A /\ used[b] = wanted
       /\ \A a \in Allocated(h) : used[a] = h.used[a]
  <2> DEFINE f == h.used
  <2>1. f \in Sizes /\ DOMAIN f = Allocated(h) /\ used = Updated(f, b, wanted)
    BY <1>4 DEF Allocated
  <2> HIDE DEF f, used
  <2>2. used \in Sizes /\ DOMAIN used = DOMAIN f \cup {b} /\ used[b] = wanted
        /\ \A y \in DOMAIN f : y # b => used[y] = f[y]
    <3>1. Updates(used, f, b, wanted)
      BY <1>7, <2>1, UpdatedIs
    <3> QED
      BY <3>1 DEF Updates
  <2>3. \A a \in Allocated(h) : used[a] = f[a]
    BY <1>7, <2>1, <2>2
  <2> QED
    BY <2>1, <2>2, <2>3 DEF f
<1>15. /\ t \in HeapType /\ Sized(t.size, Listed(t) \cup A) /\ Laid(t.size, Listed(t) \cup A)
       /\ Housed(t.size, Listed(t) \cup A, Spaces(h.scheme))
  BY <1>12, GroundFacts DEF Sound, Ground, SameRest
<1>16. t.size[b] \in Nat
  BY <1>15 DEF Sized
<1>17. left \in Int /\ low \in Int /\ (h.scheme \in {4, 5} => low =< left)
  <2>1. left \in Int
    BY <1>4, <1>16
  <2> HIDE DEF left
  <2>2. \A x, y \in Int : Min({x, y}) \in Int /\ Min({x, y}) =< y
    <3>1. ASSUME NEW x \in Int, NEW y \in Int
          PROVE  Min({x, y}) = IF x =< y THEN x ELSE y
      BY <3>1, SMT DEF Min
    <3> QED
      BY <3>1
  <2>3. h.minimum \in Int
    BY <1>4
  <2>4. Min({h.minimum, left}) \in Int /\ Min({h.minimum, left}) =< left
    BY <2>1, <2>2, <2>3
  <2> QED
    BY <2>1, <2>3, <2>4
<1> HIDE DEF used, left, low
<1>18. r \in HeapType
  BY <1>13, <1>14, <1>15, <1>17, Zenon DEF HeapType
<1>19. /\ r.size = t.size /\ r.free = t.free /\ r.used = used /\ r.remaining = left
       /\ r.minimum = low /\ r.scheme = h.scheme /\ Listed(r) = Listed(t) /\ Allocated(r) = A
  BY <1>12, <1>13, <1>14, <1>15 DEF HeapType, Listed, Allocated, SameRest
<1> HIDE DEF r
<1>20. Sound(r, A)
  BY <1>12, <1>18, <1>19 DEF Sound, Ground, SameRest
<1>21. Apart(r)
  <2>1. Listed(r) \cap Allocated(r) = {}
    BY <1>12, <1>19
  <2>2. ASSUME NEW a \in Allocated(r)
        PROVE  r.size[a] >= r.used[a] + LinkSize
    <3>1. CASE a = b
      <4>1. r.size[a] = t.size[b] /\ r.used[a] = wanted
        BY <1>14, <1>19, <3>1
      <4>2. LinkSize \in Nat /\ n \in Nat
        BY HeapAssumption
      <4> QED
        BY <1>12, <1>16, <4>1, <4>2
    <3>2. CASE a # b
      <4>1. a \in Allocated(h) /\ r.size[a] = h.size[a] /\ r.used[a] = h.used[a]
        BY <1>12, <1>14, <1>19, <2>2, <3>2
      <4> QED
        BY <1>2, <4>1
    <3> QED
      BY <3>1, <3>2
  <2>3. r.scheme # 1
    BY <1>19
  <2> QED
    BY <2>1, <2>2, <2>3 DEF Apart
<1>22. r.remaining = Cardinality(Cells(r.size, Listed(r)))
  <2> DEFINE L == Listed(t)
  <2>1. b \notin L /\ L \in SUBSET (L \cup A) /\ L \cup {b} \in SUBSET (L \cup A)
    BY <1>12
  <2> HIDE DEF L, A
  <2>2. /\ Sized(t.size, L) /\ Housed(t.size, L, Spaces(h.scheme))
        /\ Sized(t.size, L \cup {b}) /\ Laid(t.size, L \cup {b})
    BY <1>15, <2>1, Smaller DEF L
  <2>3. IsFiniteSet(Cells(t.size, L))
    BY <1>4, <2>2, CellsFinite
  <2>4. Cardinality(Cells(t.size, L \cup {b})) = Cardinality(Cells(t.size, L)) + t.size[b]
    BY <2>1, <2>2, <2>3, OneMore
  <2>5. Cardinality(Cells(t.size, L)) \in Nat
    BY <2>3, FS_CardinalityType
  <2>6. h.remaining = Cardinality(Cells(t.size, L \cup {b}))
    BY <1>1, <1>12 DEF Counted, L
  <2>7. left = h.remaining - t.size[b]
    BY DEF left
  <2>8. left = Cardinality(Cells(t.size, L))
    BY <1>16, <2>4, <2>5, <2>6, <2>7
  <2> QED
    BY <1>19, <2>8 DEF L
<1>23. Cells(r.size, Listed(r) \cup Allocated(r)) = Full(r.scheme)
  <2>1. Listed(h) \cup {b} = Listed(h) /\ Listed(h) \cup A = S /\ b \in A
    BY <1>7
  <2>2. Cells(t.size, Listed(t) \cup {b}) = Cells(h.size, Listed(h) \cup {b})
    BY <1>12, <2>1
  <2> HIDE DEF A, S
  <2>3. Cells(t.size, Listed(t) \cup A) = Cells(h.size, Listed(h) \cup A)
    <3> DEFINE new == t.size  size == h.size  L == Listed(t)  T == Listed(h)
    <3>1. Recut(new, size, A, b, L, T)
      BY <1>12, <2>1, <2>2 DEF Recut
    <3> HIDE DEF new, size, L, T
    <3>2. Cells(new, L \cup A) = Cells(size, T \cup A)
      BY <3>1, CellsOfAll
    <3> QED
      BY <3>2 DEF new, size, L, T
  <2>4. Cells(h.size, S) = Full(h.scheme)
    BY <1>1 DEF Counted, S
  <2> QED
    BY <1>19, <2>1, <2>3, <2>4
<1>24. HeapInv(r)
  <2>1. Counted(r)
    BY <1>22, <1>23 DEF Counted
  <2> QED
    BY <1>17, <1>18, <1>19, <1>20, <1>21, <2>1 DEF HeapInv
<1> QED
  BY <1>24 DEF r

LEMMA FirstFitKeeps ==
  ASSUME NEW h, HeapInv(h), h.scheme \in {2, 4, 5}, NEW wanted \in Requests
  PROVE  HeapInv(TakeFirstFit(h, wanted))
<1> DEFINE n == RoundUp(wanted + LinkSize)  s == h.free
           i == SelectInSeq(h.free, LAMBDA b : h.size[b] >= n)
           allowed == /\ wanted > 0 /\ n > 0
                      /\ IF h.scheme = 2 THEN n < AdjustedSize ELSE wanted < SizeMod \div 2
<1>0. wanted \in Nat /\ LinkSize \in Nat \ {0}
  BY HeapAssumption
<1>1. TakeFirstFit(h, wanted) = IF allowed /\ i # 0 THEN Allocate(h, i, n, wanted) ELSE h
  <2> DEFINE m == wanted + LinkSize
  <2>1. m \in Nat /\ SizeMod \in Nat \ {0} /\ RoundUp(m) < SizeMod
    BY <1>0, SizeAssumption
  <2> HIDE DEF m
  <2>2. RoundUp(m) \in Nat /\ m =< RoundUp(m)
    BY <2>1, Rounded
  <2>3. m % SizeMod = m /\ RoundUp(m) % SizeMod = RoundUp(m)
    BY <2>1, <2>2
  <2> DEFINE size == RoundUp((wanted + LinkSize) % SizeMod) % SizeMod
             Fit(k) == LET j == SelectInSeq(h.free, LAMBDA b : h.size[b] >= k)
                           fits == /\ wanted > 0 /\ k > 0
                                   /\ IF h.scheme = 2 THEN k < AdjustedSize
                                                      ELSE wanted < SizeMod \div 2
                       IN  IF fits /\ j # 0 THEN Allocate(h, j, k, wanted) ELSE h
  <2>4. TakeFirstFit(h, wanted) = Fit(size)
    BY DEF TakeFirstFit
  <2>5. size = n
    BY <2>3 DEF m
  <2>6. Fit(n) = IF allowed /\ i # 0 THEN Allocate(h, i, n, wanted) ELSE h
    OBVIOUS
  <2> HIDE DEF Fit, size, n
  <2>7. TakeFirstFit(h, wanted) = Fit(n)
    BY <2>4, <2>5
  <2> QED
    BY <2>6, <2>7
<1>2. n \in Nat \ {0} /\ n % Alignment = 0 /\ n >= wanted + LinkSize
  <2> DEFINE m == wanted + LinkSize
  <2>1. m \in Nat /\ m > 0
    BY <1>0
  <2> HIDE DEF m
  <2>2. RoundUp(m) \in Nat /\ m =< RoundUp(m) /\ RoundUp(m) % Alignment = 0
    BY <2>1, Rounded
  <2>3. RoundUp(m) # 0
    BY <2>1, <2>2
  <2> QED
    BY <2>2, <2>3 DEF m
<1>3. i # 0 => i \in 1..Len(s) /\ n =< h.size[s[i]]
  <2> DEFINE I == {m \in 1..Len(s) : h.size[s[m]] >= n}
  <2>1. s \in Rows(Nat)
    BY DEF HeapInv, HeapType
  <2>2. Len(s) \in Nat
    BY <2>1 DEF Rows
  <2>3. i = IF I # {} THEN Min(I) ELSE 0
    BY DEF SelectInSeq
  <2>4. I # {} => Min(I) \in I
    <3> SUFFICES ASSUME I # {} PROVE Min(I) \in I
      OBVIOUS
    <3>1. I \subseteq Nat
      BY <2>2
    <3> HIDE DEF I
    <3>2. PICK m \in I : \A k \in I : m <= k
      BY <3>1, LeastElement
    <3> QED
      BY <3>2 DEF Min
  <2>5. ASSUME i # 0
        PROVE  i \in 1..Len(s) /\ h.size[s[i]] >= n
    <3>1. i \in I
      BY <2>3, <2>4, <2>5
    <3> HIDE DEF i, n, s
    <3> QED
      BY <3>1
  <2>6. ASSUME i # 0, NEW x, x >= n
        PROVE  n =< x
    BY <2>6
  <2> QED
    BY <2>5, <2>6
<1>4. CASE allowed /\ i # 0
  <2> HIDE DEF n, i
  <2>1. HeapInv(Allocate(h, i, n, wanted))
    BY <1>0, <1>2, <1>3, <1>4, AllocateKeeps
  <2> QED
    BY <1>1, <1>4, <2>1
<1>5. CASE ~(allowed /\ i # 0)
  BY <1>1, <1>5
<1> QED
  BY <1>4, <1>5

LEMMA RestrictedIs ==
  ASSUME NEW f \in Sizes, NEW D, D \subseteq DOMAIN f
  PROVE  /\ Restrict(f, D) \in Sizes /\ DOMAIN Restrict(f, D) = D
         /\ \A y \in D : Restrict(f, D)[y] = f[y]
<1>1. Restrict(f, D) = [y \in D |-> f[y]]
  BY DEF Restrict
<1>2. D \in SUBSET Nat /\ \A y \in D : f[y] \in Nat
  BY SizesAre
<1>3. [y \in D |-> f[y]] \in [D -> Nat]
  BY <1>2
<1> QED
  BY <1>1, <1>2, <1>3, SizesAre

LEMMA FreeKeeps ==
  ASSUME NEW h, HeapInv(h), h.scheme \in {2, 4, 5}, NEW b \in Allocated(h)
  PROVE  HeapInv(vPortFree(h, b))
<1> DEFINE A == Allocated(h) \ {b}  S == Listed(h) \cup Allocated(h)
           used == Restrict(h.used, DOMAIN h.used \ {b})
           left == h.remaining + h.size[b]
           g == GivenBack(h, b)  t == prvInsertBlockIntoFreeList(g, b)
           size == Restrict(t.size, ToSet(t.free) \cup DOMAIN t.used)
           r == vPortFree(h, b)
<1>1. /\ h \in HeapType /\ Sound(h, Allocated(h)) /\ Apart(h) /\ Counted(h)
      /\ h.scheme \in {4, 5} => h.minimum =< h.remaining
  BY DEF HeapInv
<1>2. /\ Listed(h) \cap Allocated(h) = {}
      /\ \A a \in Allocated(h) : h.size[a] >= h.used[a] + LinkSize
  BY <1>1 DEF Apart
<1>3. /\ Allocated(h) \subseteq Nat /\ Ground(h, S)
      /\ h.scheme \in {4, 5} => NoneNext(h.size, Listed(h))
  BY <1>1 DEF Sound
<1>4. /\ S \subseteq DOMAIN h.size /\ Sized(h.size, S) /\ Laid(h.size, S)
      /\ Housed(h.size, S, Spaces(h.scheme)) /\ h.size \in Sizes /\ h.used \in Sizes
      /\ h.free \in Rows(Nat) /\ h.remaining \in Int /\ h.minimum \in Int /\ h.scheme \in Schemes
  <2> HIDE DEF S
  <2> QED
    BY <1>1, <1>3, GroundFacts DEF Ground, HeapType
<1>5. b \in Nat /\ b \in S /\ h.size[b] \in Nat /\ h.size[b] > 0
  <2>1. b \in Nat /\ b \in S
    BY <1>3
  <2>2. h.size[b] \in Nat
    BY <1>4, <2>1 DEF Sized
  <2>3. h.used[b] \in Nat /\ LinkSize \in Nat \ {0}
    BY <1>4, SizesAre, HeapAssumption DEF Allocated
  <2>4. h.size[b] >= h.used[b] + LinkSize
    BY <1>2
  <2> QED
    BY <2>1, <2>2, <2>3, <2>4
<1>6. used \in Sizes /\ DOMAIN used = A /\ \A a \in A : used[a] = h.used[a]
  <2> DEFINE f == h.used
  <2>1. A \subseteq DOMAIN f /\ f \in Sizes /\ A = DOMAIN h.used \ {b}
    BY <1>4 DEF Allocated
  <2> HIDE DEF f, A
  <2>2. /\ Restrict(f, A) \in Sizes /\ DOMAIN Restrict(f, A) = A
        /\ \A y \in A : Restrict(f, A)[y] = f[y]
    BY <2>1, RestrictedIs
  <2> QED
    BY <2>1, <2>2 DEF f
<1>7. left \in Int /\ left >= h.remaining
  BY <1>4, <1>5
<1>8. g = [h EXCEPT !.remaining = left, !.used = used]
  BY DEF GivenBack
<1> HIDE DEF used, left, g
<1>9. g \in HeapType
  BY <1>1, <1>6, <1>7, <1>8, Zenon DEF HeapType
<1>10. /\ g.scheme = h.scheme /\ g.next = h.next /\ g.end = h.end /\ g.free = h.free
       /\ g.size = h.size /\ g.used = used /\ g.remaining = left /\ g.minimum = h.minimum
       /\ Listed(g) = Listed(h)
  BY <1>1, <1>8 DEF HeapType, Listed
<1>11. Insertable(g, A, b)
  <2>1. Listed(g) \cup A \cup {b} = S
    BY <1>10
  <2>2. Ground(g, S)
    <3> HIDE DEF S
    <3> QED
      BY <1>3, <1>9, <1>10 DEF Ground
  <2>3. b \notin Listed(g) /\ Listed(g) \cap A = {} /\ A \subseteq Nat
    BY <1>2, <1>3, <1>10
  <2> QED
    BY <1>3, <1>5, <1>10, <2>1, <2>2, <2>3 DEF Insertable
<1>12. Grown(t, g, A, b)
  BY <1>10, <1>11, InsertGrows
<1> HIDE DEF t
<1>13. /\ Sound(t, A) /\ SameRest(t, g) /\ Listed(t) \subseteq Listed(h) \cup {b}
       /\ \A a \in A : t.size[a] = h.size[a]
       /\ Cells(t.size, Listed(t)) = Cells(h.size, Listed(h) \cup {b})
  BY <1>10, <1>12 DEF Grown
<1>14. /\ t \in HeapType /\ t.used = used /\ t.remaining = left /\ t.minimum = h.minimum
       /\ t.scheme = h.scheme /\ t.size \in Sizes
       /\ Listed(t) \cup A \subseteq DOMAIN t.size
  BY <1>10, <1>13, GroundFacts DEF Sound, Ground, SameRest
<1>15. size \in Sizes /\ DOMAIN size = Listed(t) \cup A
       /\ \A x \in Listed(t) \cup A : size[x] = t.size[x]
  <2> DEFINE f == t.size  D == Listed(t) \cup A
  <2>1. D \subseteq DOMAIN f /\ f \in Sizes /\ size = Restrict(f, D)
    BY <1>6, <1>14 DEF Listed
  <2> HIDE DEF f, D, size
  <2>2. /\ Restrict(f, D) \in Sizes /\ DOMAIN Restrict(f, D) = D
        /\ \A y \in D : Restrict(f, D)[y] = f[y]
    BY <2>1, RestrictedIs
  <2> QED
    BY <2>1, <2>2 DEF f, D
<1>16. r = [t EXCEPT !.size = size]
  BY DEF vPortFree, t, g
<1> HIDE DEF size, r
<1>17. r \in HeapType
  BY <1>14, <1>15, <1>16, Zenon DEF HeapType
<1>18. /\ r.size = size /\ r.free = t.free /\ r.used = used /\ r.remaining = left
       /\ r.minimum = h.minimum /\ r.scheme = h.scheme /\ Listed(r) = Listed(t)
       /\ Allocated(r) = A
  BY <1>6, <1>14, <1>16 DEF HeapType, Listed, Allocated
<1>19. Sound(r, A)
  <2> DEFINE R == Listed(t) \cup A
  <2>1. Ground(t, R) /\ A \subseteq Nat
    BY <1>13 DEF Sound
  <2>2. \A x \in R : size[x] = t.size[x]
    BY <1>15
  <2>3. R = DOMAIN size /\ Listed(t) \subseteq R
    BY <1>15
  <2> HIDE DEF R
  <2>4. Laid(size, R)
    BY <2>1, <2>2 DEF Ground, Laid
  <2>5. Housed(size, R, Spaces(h.scheme))
    BY <1>14, <2>1, <2>2 DEF Ground, Housed
  <2>6. h.scheme \in {4, 5} => Ascends(r.free)
    BY <1>14, <1>18, <2>1 DEF Ground
  <2>7. Ground(r, R)
    BY <1>17, <1>18, <2>3, <2>4, <2>5, <2>6 DEF Ground
  <2>8. h.scheme \in {4, 5} => NoneNext(size, Listed(t))
    <3>1. h.scheme \in {4, 5} => NoneNext(t.size, Listed(t))
      BY <1>13, <1>14 DEF Sound
    <3> QED
      BY <2>2, <2>3, <3>1 DEF NoneNext
  <2> QED
    BY <1>18, <2>1, <2>7, <2>8 DEF Sound, R
<1>20. Apart(r)
  <2>1. Listed(r) \cap Allocated(r) = {}
    BY <1>2, <1>13, <1>18
  <2>2. ASSUME NEW a \in Allocated(r)
        PROVE  r.size[a] >= r.used[a] + LinkSize
    <3>1. a \in A /\ a \in Allocated(h)
      BY <1>18
    <3>2. r.size[a] = h.size[a] /\ r.used[a] = h.used[a]
      BY <1>6, <1>13, <1>15, <1>18, <3>1
    <3> QED
      BY <1>2, <3>1, <3>2
  <2> QED
    BY <1>18, <2>1, <2>2 DEF Apart
<1>21. Cells(size, Listed(t)) = Cells(h.size, Listed(h) \cup {b})
  <2>1. Cells(size, Listed(t)) = Cells(t.size, Listed(t))
    BY <1>15, CellsSame
  <2> QED
    BY <1>13, <2>1
<1>22. r.remaining = Cardinality(Cells(r.size, Listed(r)))
  <2> DEFINE L == Listed(h)
  <2>1. b \notin L /\ L \in SUBSET S /\ L \cup {b} \in SUBSET S
    BY <1>2
  <2> HIDE DEF L, S
  <2>2. /\ Sized(h.size, L) /\ Housed(h.size, L, Spaces(h.scheme))
        /\ Sized(h.size, L \cup {b}) /\ Laid(h.size, L \cup {b})
    BY <1>4, <2>1, Smaller
  <2>3. IsFiniteSet(Cells(h.size, L))
    BY <1>4, <2>2, CellsFinite
  <2>4. Cardinality(Cells(h.size, L \cup {b})) = Cardinality(Cells(h.size, L)) + h.size[b]
    BY <2>1, <2>2, <2>3, OneMore
  <2>5. h.remaining = Cardinality(Cells(h.size, L))
    BY <1>1 DEF Counted, L
  <2>6. left = Cardinality(Cells(h.size, L \cup {b}))
    BY <2>4, <2>5 DEF left
  <2> QED
    BY <1>18, <1>21, <2>6 DEF L
<1>23. Cells(r.size, Listed(r) \cup Allocated(r)) = Full(r.scheme)
  <2> DEFINE L == Listed(t)  T == Listed(h) \cup {b}
  <2>1. Cells(size, L \cup A) = Cells(size, L) \cup Cells(size, A)
    BY CellsUnion
  <2>2. Cells(h.size, T \cup A) = Cells(h.size, T) \cup Cells(h.size, A)
    BY CellsUnion
  <2>3. Cells(size, A) = Cells(h.size, A)
    <3>1. \A a \in A : size[a] = h.size[a]
      BY <1>13, <1>15
    <3> HIDE DEF A
    <3> QED
      BY <3>1, CellsSame
  <2>4. T \cup A = S
    BY <1>5
  <2>5. Cells(h.size, S) = Full(h.scheme)
    BY <1>1 DEF Counted
  <2> HIDE DEF T, L, A, S
  <2>6. Cells(size, L) = Cells(h.size, T)
    BY <1>21 DEF L, T
  <2>7. Cells(size, L \cup A) = Full(h.scheme)
    BY <2>1, <2>2, <2>3, <2>4, <2>5, <2>6
  <2> QED
    BY <1>18, <2>7 DEF L
<1>24. HeapInv(r)
  <2>1. Counted(r)
    BY <1>22, <1>23 DEF Counted
  <2>2. r.scheme \in {4, 5} => r.minimum =< r.remaining
    <3>1. h.scheme \in {4, 5} => h.minimum =< left
      BY <1>1, <1>4, <1>7
    <3> QED
      BY <1>18, <3>1
  <2>3. r.scheme # 1
    BY <1>18
  <2> QED
    BY <1>17, <1>18, <1>19, <1>20, <2>1, <2>2, <2>3 DEF HeapInv
<1> QED
  BY <1>24 DEF r

LEMMA NextKeeps ==
  ASSUME NEW h, HeapInv(h), h.scheme = 1, NEW wanted \in Nat
  PROVE  HeapInv(TakeNext(h, wanted))
<1> DEFINE n == RoundUp(wanted)  b == AlignedHeap + h.next  A == Allocated(h) \cup {b}
           used == Updated(h.used, b, wanted)  size == Updated(h.size, b, n)  next == h.next + n
           r == [h EXCEPT !.next = next, !.used = used, !.size = size]
<1>1. TakeNext(h, wanted) = IF h.next + n < AdjustedSize /\ n > 0 THEN r ELSE h
  BY DEF TakeNext
<1>2. /\ h \in HeapType /\ Sound(h, Allocated(h)) /\ Apart(h) /\ Following(h)
  BY DEF HeapInv
<1>3. /\ Listed(h) = {} /\ h.next % Alignment = 0
      /\ \A a \in Allocated(h) : a + h.size[a] =< b
      /\ \A a \in Allocated(h) : h.size[a] >= h.used[a]
  <2>1. \A a \in Allocated(h) : h.size[a] >= h.used[a]
    <3>1. \A a \in Allocated(h) : h.used[a] \in Nat /\ h.size[a] >= h.used[a] + 0
      BY <1>2, SizesAre DEF Apart, Allocated, HeapType
    <3>2. h.size \in Sizes /\ Allocated(h) \subseteq DOMAIN h.size
      BY <1>2, GroundFacts DEF Sound, Ground
    <3>3. \A a \in Allocated(h) : h.size[a] \in Nat
      BY <3>2, SizesAre
    <3> QED
      BY <3>1, <3>3
  <2> QED
    BY <1>2, <2>1 DEF Following
<1>4. /\ Allocated(h) \subseteq DOMAIN h.size /\ Allocated(h) \subseteq Nat
      /\ Sized(h.size, Allocated(h)) /\ Laid(h.size, Allocated(h))
      /\ Housed(h.size, Allocated(h), Spaces(1)) /\ h.size \in Sizes /\ h.used \in Sizes
      /\ h.next \in Nat
  <2>1. Ground(h, Allocated(h)) /\ Allocated(h) \subseteq Nat
    <3>1. Listed(h) \cup Allocated(h) = Allocated(h)
      BY <1>3
    <3> QED
      BY <1>2, <3>1 DEF Sound
  <2> QED
    BY <1>2, <2>1, GroundFacts DEF Ground, HeapType
<1>5. n \in Nat /\ wanted =< n /\ n % Alignment = 0
  BY Rounded
<1>6. /\ b \in Nat /\ b % Alignment = 0 /\ next \in Nat /\ next % Alignment = 0
      /\ b + n = AlignedHeap + next
  <2>1. AlignedHeap \in Nat /\ AlignedHeap % Alignment = 0 /\ Alignment \in Nat \ {0}
    BY AlignedHeapBounds, HeapAssumption
  <2>2. b % Alignment = 0
    BY <1>3, <1>4, <2>1, Multiples
  <2> HIDE DEF n
  <2>3. next % Alignment = 0
    BY <1>3, <1>4, <1>5, <2>1, Multiples
  <2>4. AlignedHeap \in Nat /\ h.next \in Nat /\ n \in Nat
    BY <1>4, <1>5, <2>1
  <2>5. b \in Nat /\ next \in Nat /\ b + n = AlignedHeap + next
    BY <2>4
  <2> HIDE DEF b, next
  <2> QED
    BY <2>2, <2>3, <2>5
<1>7. used \in Sizes /\ DOMAIN used = A /\ used[b] = wanted
      /\ \A a \in Allocated(h) : a # b => used[a] = h.used[a]
  <2> HIDE DEF b
  <2>1. Updates(used, h.used, b, wanted)
    BY <1>4, <1>6, UpdatedIs
  <2> HIDE DEF used
  <2> QED
    BY <2>1 DEF Updates, Allocated
<1>8. size \in Sizes /\ DOMAIN size = DOMAIN h.size \cup {b} /\ size[b] = n
      /\ \A a \in Allocated(h) : a # b => size[a] = h.size[a]
  <2> HIDE DEF b, n
  <2>1. Updates(size, h.size, b, n)
    BY <1>4, <1>5, <1>6, UpdatedIs
  <2> HIDE DEF size
  <2> QED
    BY <1>4, <2>1 DEF Updates
<1> HIDE DEF used, size, next, n, b
<1>9. CASE h.next + n < AdjustedSize /\ n > 0
  <2>1. r \in HeapType
    BY <1>2, <1>6, <1>7, <1>8, Zenon DEF HeapType
  <2>2. /\ r.size = size /\ r.used = used /\ r.next = next /\ r.scheme = 1 /\ r.free = h.free
        /\ Listed(r) = {} /\ Allocated(r) = A
    BY <1>2, <1>3, <1>7 DEF HeapType, Listed, Allocated
  <2>3. Laid(size, A)
    <3>1. ASSUME NEW x \in A, NEW y \in A, x < y
          PROVE  x + size[x] =< y
      <4>1. \A a \in Allocated(h) : a \in Nat /\ h.size[a] \in Nat /\ a =< b
        BY <1>3, <1>4, <1>6 DEF Sized
      <4>2. x # b /\ x \in Allocated(h)
        BY <1>6, <3>1, <4>1
      <4>3. CASE y = b
        BY <1>3, <1>8, <4>2, <4>3
      <4>4. CASE y # b
        BY <1>4, <1>8, <3>1, <4>2, <4>4 DEF Laid
      <4> QED
        BY <4>3, <4>4
    <3> QED
      BY <3>1 DEF Laid
  <2>4. Housed(size, A, Spaces(1))
    <3> DEFINE space == <<AlignedHeap, AlignedHeap + AdjustedSize>>
    <3>1. space \in Spaces(1)
      BY SpacesBy
    <3>2. b >= space[1] /\ b + size[b] =< space[2]
      BY <1>4, <1>5, <1>8, <1>9, AlignedHeapBounds DEF b
    <3>3. ASSUME NEW x \in Allocated(h), x # b
          PROVE  x % Alignment = 0 /\ \E m \in Spaces(1) : x >= m[1] /\ x + size[x] =< m[2]
      BY <1>4, <1>8, <3>3 DEF Housed
    <3> HIDE DEF space
    <3> QED
      BY <1>6, <3>1, <3>2, <3>3 DEF Housed
  <2>5. Sound(r, A)
    <3>1. A \subseteq Nat /\ A \subseteq DOMAIN size /\ Listed(r) \cup A = A
      BY <1>4, <1>6, <1>8, <2>2
    <3> HIDE DEF A
    <3>2. Ground(r, A)
      BY <2>1, <2>2, <2>3, <2>4, <3>1 DEF Ground
    <3> QED
      BY <2>2, <3>1, <3>2 DEF Sound
  <2>6. Apart(r)
    <3>1. ASSUME NEW a \in A
          PROVE  size[a] >= used[a]
      <4>1. CASE a = b
        BY <1>5, <1>7, <1>8, <4>1
      <4>2. CASE a # b
        BY <1>3, <1>7, <1>8, <3>1, <4>2
      <4> QED
        BY <4>1, <4>2
    <3>2. \A a \in A : used[a] \in Nat
      BY <1>7, SizesAre
    <3>3. \A a \in A : size[a] >= used[a] + 0
      BY <3>1, <3>2
    <3> QED
      BY <2>2, <3>3 DEF Apart
  <2>7. Following(r)
    <3>1. next < AdjustedSize
      BY <1>9 DEF next
    <3>2. ASSUME NEW a \in A
          PROVE  a + size[a] =< AlignedHeap + next
      <4>1. CASE a = b
        <5>1. AlignedHeap + next \in Nat
          BY <1>6, AlignedHeapBounds
        <5> QED
          BY <1>6, <1>8, <4>1, <5>1
      <4>2. CASE a # b
        <5>1. a + size[a] =< b /\ size[a] \in Nat /\ a \in Nat
          BY <1>3, <1>4, <1>8, <3>2, <4>2 DEF Sized
        <5>2. b =< b + n
          BY <1>5, <1>6
        <5> QED
          BY <1>5, <1>6, <5>1, <5>2
      <4> QED
        BY <4>1, <4>2
    <3> QED
      BY <1>6, <2>2, <3>1, <3>2 DEF Following
  <2>8. HeapInv(r)
    BY <2>1, <2>2, <2>5, <2>6, <2>7 DEF HeapInv
  <2> QED
    BY <1>1, <1>9, <2>8
<1>10. CASE ~(h.next + n < AdjustedSize /\ n > 0)
  BY <1>1, <1>10
<1> QED
  BY <1>9, <1>10

-----------------------------------------------------------------------------
(* The initial states of the heap                                          *)

LEMMA Nothing ==
  /\ <<>> \in Sizes /\ DOMAIN <<>> = {}
  /\ \A scheme \in Schemes :
       /\ NoHeap(scheme) \in HeapType /\ NoHeap(scheme).scheme = scheme
       /\ NoHeap(scheme).next = 0 /\ NoHeap(scheme).free = <<>> /\ NoHeap(scheme).end = 0
       /\ NoHeap(scheme).size = <<>> /\ NoHeap(scheme).used = <<>>
       /\ NoHeap(scheme).remaining = 0 /\ NoHeap(scheme).minimum = 0
<1>1. DOMAIN <<>> = {} /\ <<>> \in [{} -> Nat]
  OBVIOUS
<1>2. <<>> \in Sizes
  <2>1. {} \in SUBSET Nat
    OBVIOUS
  <2> QED
    BY <1>1, <2>1, SizesAre
<1>3. ASSUME NEW scheme \in Schemes
      PROVE  NoHeap(scheme) \in HeapType
  <2>1. <<>> \in Rows(Nat)
    BY EmptyRow
  <2>2. 0 \in Nat /\ 0 \in Int
    OBVIOUS
  <2> QED
    BY <1>2, <2>1, <2>2, Zenon DEF NoHeap, HeapType
<1> QED
  BY <1>1, <1>2, <1>3 DEF NoHeap

LEMMA HeapOneInv == HeapInv(NoHeap(1))
<1> DEFINE h == NoHeap(1)
<1>1. /\ h \in HeapType /\ h.scheme = 1 /\ h.next = 0 /\ h.free = <<>> /\ h.used = <<>>
      /\ Listed(h) = {} /\ Allocated(h) = {}
  BY Nothing, EmptyRow DEF Schemes, Listed, Allocated
<1> HIDE DEF h
<1>2. Sound(h, {})
  BY <1>1 DEF Sound, Ground, Laid, Housed
<1>3. Apart(h)
  BY <1>1 DEF Apart
<1>4. Following(h)
  <2>1. 0 % Alignment = 0
    BY HeapAssumption, SMT
  <2> QED
    BY <1>1, <2>1, AlignedHeapBounds DEF Following
<1>5. HeapInv(h)
  BY <1>1, <1>2, <1>3, <1>4 DEF HeapInv
<1> QED
  BY <1>5 DEF h

\* The cells of one block, and how many there are.
LEMMA OneBlockCells ==
  ASSUME NEW size, NEW b \in Nat, size[b] \in Nat
  PROVE  /\ Cells(size, {b}) = b..(b + size[b] - 1)
         /\ IsFiniteSet(Cells(size, {b})) /\ Cardinality(Cells(size, {b})) = size[b]
<1>1. Cells(size, {b}) = b..(b + size[b] - 1)
  BY DEF Cells
<1>2. Cells(size, {}) = {}
  BY DEF Cells
<1>3. IsFiniteSet(Cells(size, {})) /\ Cardinality(Cells(size, {})) = 0
  BY <1>2, FS_EmptySet
<1>4. Sized(size, {} \cup {b}) /\ Laid(size, {} \cup {b}) /\ {} \cup {b} = {b} /\ b \notin {}
  BY DEF Sized, Laid
<1> HIDE DEF Cells
<1>5. IsFiniteSet(Cells(size, {b})) /\ Cardinality(Cells(size, {b})) = 0 + size[b]
  BY <1>3, <1>4, OneMore
<1> QED
  BY <1>1, <1>5

LEMMA OneRow ==
  ASSUME NEW b \in Nat
  PROVE  <<b>> \in Rows(Nat) /\ ToSet(<<b>>) = {b} /\ Ascends(<<b>>)
<1>1. Append(<<>>, b) = <<b>>
  OBVIOUS
<1>2. <<b>> \in Rows(Nat) /\ ToSet(<<b>>) = {} \cup {b}
  <2> DEFINE s == <<>>  u == <<b>>
  <2>1. s \in Rows(Nat) /\ ToSet(s) = {} /\ b \notin ToSet(s) /\ u = Append(s, b)
    BY <1>1, EmptyRow
  <2> HIDE DEF s, u
  <2>2. u \in Rows(Nat) /\ ToSet(u) = ToSet(s) \cup {b}
    BY <2>1, Appended
  <2> QED
    BY <2>1, <2>2 DEF u
<1>3. Ascends(<<b>>)
  BY DEF Ascends
<1> QED
  BY <1>2, <1>3

LEMMA FullOfOne ==
  ASSUME NEW scheme, NEW x, NEW y, Spaces(scheme) = {<<x, y>>}
  PROVE  Full(scheme) = x..(y - 1)
<1>1. \A space \in Spaces(scheme) : space[1] = x /\ space[2] = y
  OBVIOUS
<1>2. \E space \in Spaces(scheme) : space[1] = x /\ space[2] = y
  OBVIOUS
<1>3. \A n : n \in Full(scheme) <=> \E space \in Spaces(scheme) : n \in space[1]..(space[2] - 1)
  BY DEF Full
<1>4. \A n : n \in Full(scheme) <=> n \in x..(y - 1)
  BY <1>1, <1>2, <1>3
<1> QED
  BY <1>4

LEMMA HeapTwoInv == HeapInv(OneBlock)
<1> DEFINE h == OneBlock  b == AlignedHeap  n == AdjustedSize  size == Updated(<<>>, b, n)
           free == <<b>>
<1>1. b \in Nat /\ n \in Nat \ {0} /\ b % Alignment = 0
  BY AlignedHeapBounds
<1>2. size \in Sizes /\ DOMAIN size = {b} /\ size[b] = n
  <2> HIDE DEF b, n
  <2>1. Updates(size, <<>>, b, n)
    BY <1>1, Nothing, UpdatedIs
  <2> HIDE DEF size
  <2> QED
    BY <2>1, Nothing DEF Updates
<1>3. free \in Rows(Nat) /\ ToSet(free) = {b}
  BY <1>1, OneRow
<1>4. h = [NoHeap(2) EXCEPT !.free = free, !.size = size, !.remaining = n]
  BY Nothing DEF OneBlock, Schemes
<1>5. /\ NoHeap(2) \in HeapType /\ NoHeap(2).used = <<>> /\ NoHeap(2).scheme = 2
  BY Nothing DEF Schemes
<1> HIDE DEF h, b, size, n, free
<1>6. h \in HeapType
  <2>1. n \in Int
    BY <1>1
  <2> QED
    BY <1>2, <1>3, <1>4, <1>5, <2>1, Zenon DEF HeapType
<1>7. /\ h.scheme = 2 /\ h.size = size /\ h.used = <<>> /\ h.remaining = n
      /\ Listed(h) = {b} /\ Allocated(h) = {} /\ Listed(h) \cup Allocated(h) = {b}
  BY <1>3, <1>4, <1>5, Nothing DEF HeapType, Listed, Allocated
<1>8. Housed(size, {b}, Spaces(2))
  <2>1. <<AlignedHeap, AlignedHeap + AdjustedSize>> \in Spaces(2)
    BY SpacesBy
  <2> DEFINE space == <<AlignedHeap, AlignedHeap + AdjustedSize>>
  <2>2. b >= space[1] /\ b + size[b] =< space[2]
    BY <1>1, <1>2, AlignedHeapBounds DEF b, n
  <2> HIDE DEF space
  <2> QED
    BY <1>1, <2>1, <2>2 DEF Housed, space
<1>9. Sound(h, {})
  <2>1. Laid(size, {b})
    BY <1>1 DEF Laid
  <2>2. Ground(h, {b})
    BY <1>2, <1>6, <1>7, <1>8, <2>1 DEF Ground
  <2> QED
    BY <1>7, <2>2 DEF Sound
<1>10. Apart(h)
  BY <1>7 DEF Apart
<1>11. Counted(h)
  <2>1. Cells(size, {b}) = b..(b + n - 1) /\ Cardinality(Cells(size, {b})) = n
    BY <1>1, <1>2, OneBlockCells
  <2>2. Full(2) = b..(b + n - 1)
    <3> DEFINE c == b + n
    <3>1. Spaces(2) = {<<b, c>>} /\ c \in Nat /\ c - 1 = b + n - 1
      BY <1>1, SpacesBy DEF b, n
    <3> HIDE DEF c
    <3> QED
      BY <3>1, FullOfOne
  <2> QED
    BY <1>7, <2>1, <2>2 DEF Counted
<1>12. HeapInv(h)
  BY <1>6, <1>7, <1>9, <1>10, <1>11 DEF HeapInv
<1> QED
  BY <1>12 DEF h

\* The bytes of the first n regions.
RegionCells(n) == UNION {RegionStart(Regions[i])..(RegionEnd(Regions[i]) - 1) : i \in 1..n}

\* What vPortDefineHeapRegions has made of the first n regions.
Built(h, scheme, n) ==
  /\ h \in HeapType /\ h.scheme = scheme /\ h.used = <<>> /\ h.free # <<>>
  /\ Ascends(h.free) /\ Listed(h) \subseteq DOMAIN h.size
  /\ Laid(h.size, Listed(h)) /\ Housed(h.size, Listed(h), Spaces(scheme))
  /\ NoneNext(h.size, Listed(h))
  /\ Cells(h.size, Listed(h)) = RegionCells(n)
  /\ h.remaining = Cardinality(Cells(h.size, Listed(h))) /\ h.minimum = h.remaining
  /\ h.end = RegionEnd(Regions[n])
  /\ \A x \in DOMAIN h.size : x < h.end
  /\ \A x \in Listed(h) : x + h.size[x] =< h.end

LEMMA RegionHeap ==
  ASSUME NEW scheme \in {4, 5}
  PROVE  /\ <<RegionStart(Regions[1]), RegionEnd(Regions[1])>> \in Spaces(scheme)
         /\ scheme = 5 => \A i \in DOMAIN Regions :
              <<RegionStart(Regions[i]), RegionEnd(Regions[i])>> \in Spaces(scheme)
BY SpacesBy, RegionTypes

LEMMA BuiltInv ==
  ASSUME NEW h, NEW scheme \in {4, 5}, NEW n, n = IF scheme = 4 THEN 1 ELSE Len(Regions),
         Built(h, scheme, n)
  PROVE  HeapInv(h)
<1>1. Full(scheme) = RegionCells(n)
  <2>1. CASE scheme = 4
    <3> DEFINE x == RegionStart(Regions[1])  y == RegionEnd(Regions[1])
    <3>1. Spaces(4) = {<<x, y>>}
      BY SpacesBy
    <3>2. RegionCells(1) = x..(y - 1)
      <4>1. 1..1 = {1}
        OBVIOUS
      <4> QED
        BY <4>1 DEF RegionCells
    <3> HIDE DEF x, y
    <3> QED
      BY <2>1, <3>1, <3>2, FullOfOne
  <2>2. CASE scheme = 5
    <3>1. \A i \in 1..n : <<RegionStart(Regions[i]), RegionEnd(Regions[i])>> \in Spaces(5)
      BY <2>2, SpacesBy, RegionTypes
    <3>2. \A space \in Spaces(5) : \E i \in 1..n :
            space[1] = RegionStart(Regions[i]) /\ space[2] = RegionEnd(Regions[i])
      BY <2>2, SpacesBy, RegionTypes
    <3>3. ASSUME NEW x
          PROVE  x \in Full(5) <=> x \in RegionCells(n)
      <4>1. x \in Full(5) <=> \E space \in Spaces(5) : x \in space[1]..(space[2] - 1)
        BY DEF Full
      <4>2. x \in RegionCells(n)
              <=> \E i \in 1..n : x \in RegionStart(Regions[i])..(RegionEnd(Regions[i]) - 1)
        BY DEF RegionCells
      <4>3. ASSUME NEW space \in Spaces(5), x \in space[1]..(space[2] - 1)
            PROVE  x \in RegionCells(n)
        BY <3>2, <4>2, <4>3
      <4>4. ASSUME NEW i \in 1..n, x \in RegionStart(Regions[i])..(RegionEnd(Regions[i]) - 1)
            PROVE  x \in Full(5)
        <5> DEFINE space == <<RegionStart(Regions[i]), RegionEnd(Regions[i])>>
        <5>1. space \in Spaces(5) /\ space[1] = RegionStart(Regions[i])
                /\ space[2] = RegionEnd(Regions[i])
          BY <3>1
        <5> HIDE DEF space
        <5> QED
          BY <4>1, <4>4, <5>1
      <4> QED
        BY <4>1, <4>2, <4>3, <4>4
    <3> QED
      BY <2>2, <3>3
  <2> QED
    BY <2>1, <2>2
<1>2. /\ h \in HeapType /\ h.scheme = scheme /\ h.used = <<>> /\ Allocated(h) = {}
      /\ Listed(h) \cup Allocated(h) = Listed(h)
  BY Nothing DEF Built, Allocated
<1>3. Sound(h, {})
  <2>1. Ground(h, Listed(h)) /\ Listed(h) \cup {} = Listed(h)
    BY <1>2 DEF Built, Ground
  <2> QED
    BY <1>2, <2>1 DEF Built, Sound
<1>4. Apart(h)
  BY <1>2 DEF Apart
<1>5. Counted(h)
  BY <1>1, <1>2 DEF Built, Counted
<1>6. h.minimum =< h.remaining
  BY <1>2 DEF Built, HeapType
<1> QED
  BY <1>2, <1>3, <1>4, <1>5, <1>6 DEF HeapInv

LEMMA FirstBuilt ==
  ASSUME NEW scheme \in {4, 5}
  PROVE  Built(AddRegion(NoHeap(scheme), Regions[1]), scheme, 1)
<1> DEFINE h == NoHeap(scheme)  r == AddRegion(h, Regions[1])
           b == RegionStart(Regions[1])  end == RegionEnd(Regions[1])  n == end - b
           zero == Updated(<<>>, 0, 0)  size == Updated(zero, b, n)  free == <<b>>
<1>1. b \in Nat /\ end \in Nat /\ n \in Nat \ {0} /\ b % Alignment = 0 /\ b + n = end /\ b < end
      /\ 0 + end - b = n
  BY RegionTypes, RegionBounds
<1>2. size \in Sizes /\ DOMAIN size = {0, b} /\ size[b] = n
  <2> HIDE DEF b, n, end
  <2>1. Updates(zero, <<>>, 0, 0)
    BY Nothing, UpdatedIs
  <2> HIDE DEF zero
  <2>2. zero \in Sizes /\ DOMAIN zero = {0}
    BY <2>1, Nothing DEF Updates
  <2>3. Updates(size, zero, b, n)
    BY <1>1, <2>2, UpdatedIs
  <2> HIDE DEF size
  <2> QED
    BY <2>2, <2>3 DEF Updates
<1>3. free \in Rows(Nat) /\ ToSet(free) = {b} /\ Ascends(free) /\ free # <<>>
  BY <1>1, OneRow
<1>4. /\ h \in HeapType /\ h.free = <<>> /\ h.end = 0 /\ h.size = <<>> /\ h.remaining = 0
      /\ h.minimum = 0 /\ h.used = <<>> /\ h.scheme = scheme
  BY Nothing DEF Schemes
<1>5. r = [h EXCEPT !.free = free, !.size = size, !.end = end, !.remaining = 0 + end - b,
                    !.minimum = 0 + end - b]
  BY <1>4 DEF AddRegion
<1>6. r = [h EXCEPT !.free = free, !.size = size, !.end = end, !.remaining = n, !.minimum = n]
  <2>1. 0 + end - b = n
    BY <1>1
  <2> QED
    BY <1>5, <2>1, Zenon
<1> HIDE DEF h, r, b, end, n, zero, size, free
<1>7. r \in HeapType
  <2>1. n \in Int
    BY <1>1
  <2> QED
    BY <1>1, <1>2, <1>3, <1>4, <1>6, <2>1, Zenon DEF HeapType
<1>8. /\ r.scheme = scheme /\ r.used = <<>> /\ r.free = free /\ r.size = size /\ r.end = end
      /\ r.remaining = n /\ r.minimum = n /\ Listed(r) = {b}
  BY <1>3, <1>4, <1>6 DEF HeapType, Listed
<1>9. Housed(size, {b}, Spaces(scheme))
  <2> DEFINE space == <<b, end>>
  <2>1. space \in Spaces(scheme) /\ space[1] = b /\ space[2] = end
    BY RegionHeap DEF b, end
  <2> HIDE DEF space
  <2>2. b >= space[1] /\ b + size[b] =< space[2]
    BY <1>1, <1>2, <2>1
  <2> QED
    BY <1>1, <2>1, <2>2 DEF Housed
<1>10. Laid(size, {b}) /\ NoneNext(size, {b})
  BY <1>1, <1>2 DEF Laid, NoneNext
<1>11. Cells(size, {b}) = RegionCells(1) /\ Cardinality(Cells(size, {b})) = n
  <2>1. Cells(size, {b}) = b..(b + n - 1) /\ Cardinality(Cells(size, {b})) = n
    BY <1>1, <1>2, OneBlockCells
  <2>2. b + n - 1 = end - 1
    BY <1>1
  <2>3. RegionCells(1) = b..(end - 1)
    <3>1. 1..1 = {1}
      OBVIOUS
    <3> QED
      BY <3>1 DEF RegionCells, b, end
  <2> QED
    BY <2>1, <2>2, <2>3
<1>12. \A x \in {0, b} : x < end
  BY <1>1
<1>13. Built(r, scheme, 1)
  <2>1. b + size[b] =< end
    BY <1>1, <1>2
  <2>2. r.end = RegionEnd(Regions[1])
    BY <1>8 DEF end
  <2>3. {b} \subseteq DOMAIN size
    BY <1>2
  <2> QED
    BY <1>2, <1>3, <1>7, <1>8, <1>9, <1>10, <1>11, <1>12, <2>1, <2>2, <2>3 DEF Built
<1> QED
  BY <1>13 DEF r, h

LEMMA NextBuilt ==
  ASSUME NEW h, NEW n \in Nat \ {0}, n + 1 \in DOMAIN Regions, Built(h, 5, n)
  PROVE  Built(AddRegion(h, Regions[n + 1]), 5, n + 1)
<1> DEFINE s == h.free  e == h.end  b == RegionStart(Regions[n + 1])
           end == RegionEnd(Regions[n + 1])  m == end - b
           mid == Updated(h.size, e, 0)  size == Updated(mid, b, m)
           u == Append(s, e)  free == Append(u, b)  S == Listed(h)
           left == h.remaining + m
           r == AddRegion(h, Regions[n + 1])
<1>1. /\ h \in HeapType /\ h.scheme = 5 /\ h.used = <<>> /\ s # <<>> /\ Ascends(s)
      /\ S \subseteq DOMAIN h.size /\ Laid(h.size, S) /\ Housed(h.size, S, Spaces(5))
      /\ NoneNext(h.size, S) /\ Cells(h.size, S) = RegionCells(n)
      /\ h.remaining = Cardinality(Cells(h.size, S)) /\ h.minimum = h.remaining
      /\ e = RegionEnd(Regions[n])
      /\ \A x \in DOMAIN h.size : x < e
      /\ \A x \in S : x + h.size[x] =< e
  BY DEF Built
<1>2. /\ h.size \in Sizes /\ s \in Rows(Nat) /\ e \in Nat /\ S = ToSet(s) /\ S \subseteq Nat
      /\ h.remaining \in Int /\ Sized(h.size, S)
  <2>1. h.size \in Sizes /\ s \in Rows(Nat) /\ e \in Nat /\ h.remaining \in Int
    BY <1>1 DEF HeapType
  <2>2. S = ToSet(s) /\ S \subseteq Nat
    BY <2>1, EmptyRow DEF Listed
  <2>3. Sized(h.size, S)
    BY <1>1, <2>1, <2>2, SizesAre DEF Sized
  <2> QED
    BY <2>1, <2>2, <2>3
<1>3. n \in DOMAIN Regions /\ n < n + 1
  BY RegionTypes
<1>4. /\ b \in Nat /\ end \in Nat /\ m \in Nat \ {0} /\ b % Alignment = 0 /\ b + m = end
      /\ b < end /\ e < b
  <2>1. e < b
    BY <1>1, <1>3, HeapAssumption, RegionBounds
  <2> QED
    BY <2>1, RegionBounds
<1>5. e % Alignment = 0 /\ RegionStart(Regions[n]) \in Nat /\ RegionStart(Regions[n]) < e
  <2> DEFINE k == Regions[n].at + Regions[n].size - LinkSize
  <2>1. RegionStart(Regions[n]) \in Nat /\ RegionStart(Regions[n]) < e
    BY <1>1, <1>3, RegionBounds
  <2>2. Regions[n].at \in Nat /\ Regions[n].size \in Nat /\ LinkSize \in Nat
        /\ Alignment \in Nat \ {0}
    BY <1>3, RegionTypes, HeapAssumption
  <2>3. k \in Int /\ e = k - (k % Alignment)
    BY <1>1, <2>2 DEF RegionEnd, RoundDown
  <2> HIDE DEF k, e
  <2>4. k \in Nat
    BY <1>2, <2>1, <2>2, <2>3, SMT DEF e
  <2>5. RoundDown(k) % Alignment = 0
    BY <2>4, Rounded
  <2> QED
    BY <2>1, <2>3, <2>5 DEF RoundDown
<1> HIDE DEF s, e, b, end, m
<1>6. e \notin DOMAIN h.size /\ b \notin DOMAIN h.size /\ e \notin S /\ b \notin S /\ e # b
  BY <1>1, <1>2, <1>4
<1>7. size \in Sizes /\ DOMAIN size = DOMAIN h.size \cup {e, b}
      /\ size[e] = 0 /\ size[b] = m /\ \A x \in DOMAIN h.size : size[x] = h.size[x]
  <2>1. Updates(mid, h.size, e, 0)
    BY <1>2, UpdatedIs
  <2> HIDE DEF mid
  <2>2. mid \in Sizes
    BY <2>1 DEF Updates
  <2>3. Updates(size, mid, b, m)
    BY <1>4, <2>2, UpdatedIs
  <2> HIDE DEF size
  <2> QED
    BY <1>6, <2>1, <2>3 DEF Updates
<1>8. /\ u \in Rows(Nat) /\ ToSet(u) = S \cup {e} /\ Slips(Nat, s, u, e, Len(s) + 1)
  <2>1. Slips(Nat, s, u, e, Len(s) + 1)
    BY <1>2, AppendSlips
  <2> HIDE DEF u
  <2> QED
    BY <1>2, <1>6, <2>1, SlipsMembers
<1> HIDE DEF u
<1>9. /\ free \in Rows(Nat) /\ ToSet(free) = S \cup {e, b} /\ Slips(Nat, u, free, b, Len(u) + 1)
  <2>1. Slips(Nat, u, free, b, Len(u) + 1)
    BY <1>4, <1>8, AppendSlips
  <2> HIDE DEF free
  <2>2. b \notin ToSet(u)
    BY <1>6, <1>8
  <2> QED
    BY <1>8, <2>1, <2>2, SlipsMembers
<1>10. Ascends(free)
  <2>1. Len(s) \in Nat /\ \A i \in 1..Len(s) : s[i] \in S
    BY <1>2 DEF Rows, ToSet
  <2>2. \A x \in S : x < e
    BY <1>1
  <2>3. Ascends(u)
    <3> DEFINE k == Len(s) + 1
    <3>1. \A i \in 1..Len(s) : i < k => s[i] < e
      BY <2>1, <2>2
    <3>2. \A i \in 1..Len(s) : i >= k => e < s[i]
      BY <2>1
    <3> HIDE DEF k
    <3> QED
      BY <1>1, <1>8, <3>1, <3>2, AscendsWith DEF k
  <2>4. Len(u) \in Nat /\ \A i \in 1..Len(u) : u[i] \in S \cup {e}
    BY <1>8 DEF Rows, ToSet
  <2>5. \A x \in S \cup {e} : x < b
    BY <1>2, <1>4, <2>2
  <2> DEFINE k == Len(u) + 1
  <2>6. \A i \in 1..Len(u) : i < k => u[i] < b
    BY <2>4, <2>5
  <2>7. \A i \in 1..Len(u) : i >= k => b < u[i]
    BY <2>4
  <2> HIDE DEF k, free
  <2> QED
    BY <1>9, <2>3, <2>6, <2>7, AscendsWith DEF k
<1>11. s \o <<e, b>> = free
  <2>1. s \in Seq(Nat)
    BY <1>2 DEF Rows
  <2> QED
    BY <1>2, <1>4, <2>1 DEF u
<1>12. r = [h EXCEPT !.free = free, !.size = size, !.end = end, !.remaining = left, !.minimum = left]
  <2>1. h.remaining + end - b = left
    BY <1>2, <1>4 DEF m
  <2>2. h.minimum + end - b = left
    BY <1>1, <2>1
  <2>3. r = [h EXCEPT !.free = s \o <<e, b>>, !.size = size, !.end = end,
                      !.remaining = h.remaining + end - b, !.minimum = h.minimum + end - b]
    BY <1>1 DEF AddRegion, s, e, b, end, m
  <2> QED
    BY <1>11, <2>1, <2>2, <2>3, Zenon
<1>13. left \in Int
  BY <1>2, <1>4
<1> DEFINE T == S \cup {e, b}
<1> HIDE DEF r, size, free, left
<1>14. r \in HeapType
  BY <1>1, <1>4, <1>7, <1>9, <1>12, <1>13, Zenon DEF HeapType
<1>15. /\ r.scheme = 5 /\ r.used = <<>> /\ r.free = free /\ r.size = size /\ r.end = end
       /\ r.remaining = left /\ r.minimum = left /\ Listed(r) = T
  BY <1>1, <1>9, <1>12 DEF HeapType, Listed
<1>16. \A x \in S : size[x] = h.size[x] /\ x \in Nat /\ h.size[x] \in Nat /\ x < e
                      /\ x + h.size[x] =< e
  BY <1>1, <1>2, <1>7 DEF Sized
<1>17. Laid(size, T)
  <2>1. ASSUME NEW x \in T, NEW y \in T, x < y
        PROVE  x + size[x] =< y
    <3>1. CASE x = b
      BY <1>2, <1>4, <1>16, <2>1, <3>1
    <3>2. CASE x = e
      BY <1>2, <1>4, <1>7, <1>16, <2>1, <3>2
    <3>3. CASE x \in S
      <4>1. CASE y \in S
        BY <1>1, <1>16, <2>1, <3>3, <4>1 DEF Laid
      <4>2. CASE y = e
        BY <1>16, <3>3, <4>2
      <4>3. CASE y = b
        BY <1>2, <1>4, <1>16, <3>3, <4>3
      <4> QED
        BY <4>1, <4>2, <4>3
    <3> QED
      BY <3>1, <3>2, <3>3
  <2> QED
    BY <2>1 DEF Laid
<1>18. NoneNext(size, T)
  <2>1. ASSUME NEW x \in T, NEW y \in T, x + size[x] = y
        PROVE  size[y] = 0
    <3>1. CASE y = e
      BY <1>7, <3>1
    <3>2. CASE y = b
      <4>1. x # b
        BY <1>4, <1>7, <2>1, <3>2
      <4>2. x # e
        BY <1>2, <1>4, <1>7, <2>1, <3>2
      <4>3. x \in S
        BY <4>1, <4>2
      <4> QED
        BY <1>2, <1>4, <1>16, <2>1, <3>2, <4>3
    <3>3. CASE y \in S
      <4>1. x # b
        BY <1>2, <1>4, <1>7, <1>16, <2>1, <3>3
      <4>2. x # e
        BY <1>2, <1>7, <1>16, <2>1, <3>3
      <4>3. x \in S
        BY <4>1, <4>2
      <4> QED
        BY <1>1, <1>16, <2>1, <3>3, <4>3 DEF NoneNext
    <3> QED
      BY <3>1, <3>2, <3>3
  <2> QED
    BY <2>1 DEF NoneNext
<1>19. Housed(size, T, Spaces(5))
  <2>1. ASSUME NEW x \in S
        PROVE  x % Alignment = 0 /\ \E space \in Spaces(5) : x >= space[1] /\ x + size[x] =< space[2]
    BY <1>1, <1>16 DEF Housed
  <2>2. \E space \in Spaces(5) : e >= space[1] /\ e + size[e] =< space[2]
    <3> DEFINE space == <<RegionStart(Regions[n]), RegionEnd(Regions[n])>>
    <3>1. space \in Spaces(5) /\ space[1] = RegionStart(Regions[n]) /\ space[2] = e
      BY <1>1, <1>3, RegionHeap
    <3> HIDE DEF space
    <3>2. e >= space[1] /\ e + size[e] =< space[2]
      BY <1>2, <1>5, <1>7, <3>1
    <3> QED
      BY <3>1, <3>2
  <2>3. \E space \in Spaces(5) : b >= space[1] /\ b + size[b] =< space[2]
    <3> DEFINE space == <<b, end>>
    <3>1. space \in Spaces(5) /\ space[1] = b /\ space[2] = end
      BY RegionHeap DEF b, end
    <3> HIDE DEF space
    <3>2. b >= space[1] /\ b + size[b] =< space[2]
      BY <1>4, <1>7, <3>1
    <3> QED
      BY <3>1, <3>2
  <2> QED
    BY <1>4, <1>5, <2>1, <2>2, <2>3 DEF Housed
<1>20. Cells(size, T) = RegionCells(n + 1)
  <2>1. Cells(size, T) = (Cells(size, S) \cup Cells(size, {e})) \cup Cells(size, {b})
    <3> DEFINE V == S \cup {e}
    <3>1. T = V \cup {b}
      OBVIOUS
    <3>2. Cells(size, V) = Cells(size, S) \cup Cells(size, {e})
      BY CellsUnion
    <3> HIDE DEF V, T
    <3>3. Cells(size, V \cup {b}) = Cells(size, V) \cup Cells(size, {b})
      BY CellsUnion
    <3> QED
      BY <3>1, <3>2, <3>3
  <2>2. Cells(size, S) = RegionCells(n)
    <3>1. Cells(size, S) = Cells(h.size, S)
      BY <1>16, CellsSame
    <3> QED
      BY <1>1, <3>1
  <2>3. Cells(size, {e}) = {}
    <3>1. Cells(size, {e}) = e..(e + size[e] - 1)
      BY <1>2, <1>7, OneBlockCells
    <3> QED
      BY <1>2, <1>7, <3>1
  <2>4. Cells(size, {b}) = b..(end - 1)
    <3>1. Cells(size, {b}) = b..(b + size[b] - 1)
      BY <1>4, <1>7, OneBlockCells
    <3>2. b + size[b] - 1 = end - 1
      BY <1>4, <1>7
    <3> QED
      BY <3>1, <3>2
  <2>5. RegionCells(n + 1) = RegionCells(n) \cup (b..(end - 1))
    <3>1. 1..(n + 1) = (1..n) \cup {n + 1}
      OBVIOUS
    <3> QED
      BY <3>1 DEF RegionCells, b, end
  <2> QED
    BY <2>1, <2>2, <2>3, <2>4, <2>5
<1>21. left = Cardinality(Cells(size, T))
  <2> DEFINE V == S \cup {e}
  <2>1. V \cup {b} = T /\ b \notin V
    BY <1>6
  <2>2. Sized(size, T) /\ Sized(size, V) /\ Sized(size, S)
    <3>1. T \subseteq Nat /\ \A x \in T : size[x] \in Nat
      BY <1>2, <1>4, <1>7, <1>16
    <3> QED
      BY <3>1 DEF Sized
  <2>3. Laid(size, V) /\ Housed(size, S, Spaces(5))
    BY <1>17, <1>19 DEF Laid, Housed
  <2>4. IsFiniteSet(Cells(size, S))
    BY <2>2, <2>3, CellsFinite DEF Schemes
  <2> HIDE DEF S, T
  <2>5. IsFiniteSet(Cells(size, V)) /\ Cardinality(Cells(size, V)) = Cardinality(Cells(size, S)) + size[e]
    BY <1>6, <2>2, <2>3, <2>4, OneMore
  <2> HIDE DEF V
  <2>6. Sized(size, V \cup {b}) /\ Laid(size, V \cup {b})
    BY <1>17, <2>1, <2>2
  <2>7. Cardinality(Cells(size, T)) = Cardinality(Cells(size, V)) + size[b]
    BY <2>1, <2>5, <2>6, OneMore
  <2>8. Cells(size, S) = Cells(h.size, S)
    BY <1>16, CellsSame
  <2>9. Cardinality(Cells(size, S)) = h.remaining /\ h.remaining \in Int
    BY <1>1, <1>2, <2>8
  <2> QED
    BY <1>4, <1>7, <2>5, <2>7, <2>9 DEF left
<1>22. Built(r, 5, n + 1)
  <2>1. \A x \in DOMAIN size : x < end
    <3>1. \A x \in DOMAIN h.size : x \in Nat /\ x < e
      BY <1>1, <1>2, SizesAre
    <3> QED
      BY <1>2, <1>4, <1>7, <3>1
  <2>2. \A x \in T : x + size[x] =< end
    <3>1. \A x \in S : x + size[x] =< end
      BY <1>2, <1>4, <1>16
    <3> QED
      BY <1>2, <1>4, <1>7, <3>1
  <2>3. T \subseteq DOMAIN size
    BY <1>1, <1>7
  <2>4. free # <<>>
    BY <1>9, EmptyRow
  <2>5. r.end = RegionEnd(Regions[n + 1])
    BY <1>15 DEF end
  <2> HIDE DEF T, S
  <2> QED
    BY <1>10, <1>14, <1>15, <1>17, <1>18, <1>19, <1>20, <1>21, <2>1, <2>2, <2>3, <2>4, <2>5 DEF Built
<1> QED
  BY <1>22 DEF r

\* vPortDefineHeapRegions is what it is said to be for the first n regions.
Defines(f, n) ==
  f = [k \in 0..n |-> IF k = 0 THEN NoHeap(5) ELSE AddRegion(f[k - 1], Regions[k])]

LEMMA Defined ==
  ASSUME NEW N \in Nat
  PROVE  \E f : Defines(f, N)
<1> DEFINE T == {n \in 0..N : \E f : Defines(f, n)}
<1>1. 0 \in T
  <2> DEFINE f == [k \in 0..0 |-> NoHeap(5)]
  <2>1. f = [k \in 0..0 |-> IF k = 0 THEN NoHeap(5) ELSE AddRegion(f[k - 1], Regions[k])]
    <3>1. \A k \in 0..0 : k = 0
      OBVIOUS
    <3> QED
      BY <3>1
  <2> HIDE DEF f
  <2>2. Defines(f, 0)
    BY <2>1 DEF Defines
  <2> QED
    BY <2>2
<1>2. ASSUME NEW n \in 0..N, n \in T, n # N
      PROVE  n + 1 \in T
  <2>1. PICK f : Defines(f, n)
    BY <1>2
  <2>2. f = [k \in 0..n |-> IF k = 0 THEN NoHeap(5) ELSE AddRegion(f[k - 1], Regions[k])]
    BY <2>1 DEF Defines
  <2> DEFINE g == [k \in 0..(n + 1) |-> IF k = n + 1 THEN AddRegion(f[n], Regions[n + 1]) ELSE f[k]]
             body(k) == IF k = 0 THEN NoHeap(5) ELSE AddRegion(g[k - 1], Regions[k])
  <2>3. \A k \in 0..n : g[k] = f[k]
    OBVIOUS
  <2>4. g[n + 1] = AddRegion(f[n], Regions[n + 1])
    OBVIOUS
  <2>5. DOMAIN g = 0..(n + 1) /\ g = [k \in 0..(n + 1) |-> g[k]]
    OBVIOUS
  <2> HIDE DEF g
  <2>6. ASSUME NEW k \in 0..(n + 1)
        PROVE  g[k] = body(k)
    <3>1. CASE k = n + 1
      <4>1. k # 0 /\ k - 1 = n /\ n \in 0..n
        BY <3>1
      <4>2. g[k - 1] = f[n]
        BY <2>3, <4>1
      <4> QED
        BY <2>4, <3>1, <4>1, <4>2
    <3>2. CASE k # n + 1 /\ k # 0
      <4>1. k \in 0..n /\ k - 1 \in 0..n
        BY <3>2
      <4>2. f[k] = AddRegion(f[k - 1], Regions[k])
        BY <2>2, <3>2, <4>1
      <4> QED
        BY <2>3, <3>2, <4>1, <4>2
    <3>3. CASE k = 0
      <4>1. k \in 0..n
        BY <3>3
      <4>2. f[k] = NoHeap(5)
        BY <2>2, <3>3, <4>1
      <4> QED
        BY <2>3, <3>3, <4>1, <4>2
    <3> QED
      BY <3>1, <3>2, <3>3
  <2>7. g = [k \in 0..(n + 1) |-> body(k)]
    <3> HIDE DEF body
    <3> QED
      BY <2>5, <2>6
  <2>8. Defines(g, n + 1)
    BY <2>7 DEF Defines
  <2>9. n + 1 \in 0..N
    BY <1>2
  <2> QED
    BY <2>8, <2>9
<1> HIDE DEF T
<1>3. N \in T
  BY <1>1, <1>2, BoundedInduction
<1> QED
  BY <1>3 DEF T

LEMMA HeapFiveInv == HeapInv(vPortDefineHeapRegions)
<1> DEFINE N == Len(Regions)
           body(f) == [k \in 0..N |-> IF k = 0 THEN NoHeap(5) ELSE AddRegion(f[k - 1], Regions[k])]
           defined == CHOOSE f : f = body(f)
<1>1. N \in Nat \ {0} /\ DOMAIN Regions = 1..N
  BY RegionTypes
<1>2. vPortDefineHeapRegions = defined[N]
  BY DEF vPortDefineHeapRegions
<1>3. \E f : f = body(f)
  BY <1>1, Defined DEF Defines
<1>4. defined = body(defined)
  <2> HIDE DEF body
  <2> QED
    BY <1>3
<1> HIDE DEF defined
<1> DEFINE T == {n \in 0..N : n # 0 => Built(defined[n], 5, n)}
<1>5. \A k \in 0..N : defined[k] = IF k = 0 THEN NoHeap(5) ELSE AddRegion(defined[k - 1], Regions[k])
  BY <1>4
<1>6. 0 \in T
  BY <1>1
<1>7. ASSUME NEW n \in 0..N, n \in T, n # N
      PROVE  n + 1 \in T
  <2>1. n + 1 \in 0..N /\ n + 1 # 0 /\ (n + 1) - 1 = n /\ n + 1 \in DOMAIN Regions
    <3>1. n + 1 \in 1..N
      <4> HIDE DEF N
      <4> QED
        BY <1>1, <1>7
    <3> QED
      BY <1>1, <3>1
  <2>2. defined[n + 1] = AddRegion(defined[n], Regions[n + 1])
    BY <1>5, <2>1
  <2>3. CASE n = 0
    <3>1. defined[0] = NoHeap(5) /\ n + 1 = 1
      BY <1>1, <1>5, <2>3
    <3>2. Built(AddRegion(NoHeap(5), Regions[1]), 5, 1)
      BY FirstBuilt
    <3>3. Built(defined[n + 1], 5, n + 1)
      BY <2>2, <2>3, <3>1, <3>2
    <3> QED
      BY <2>1, <3>3
  <2>4. CASE n # 0
    <3>1. Built(defined[n], 5, n) /\ n \in Nat \ {0}
      BY <1>7, <2>4
    <3>2. Built(AddRegion(defined[n], Regions[n + 1]), 5, n + 1)
      BY <2>1, <3>1, NextBuilt
    <3> QED
      BY <2>1, <2>2, <3>2
  <2> QED
    BY <2>3, <2>4
<1> HIDE DEF T
<1>8. N \in T
  BY <1>1, <1>6, <1>7, BoundedInduction
<1>9. Built(defined[N], 5, N)
  BY <1>1, <1>8 DEF T
<1> HIDE DEF N
<1>10. HeapInv(defined[N])
  BY <1>9, BuiltInv DEF N
<1> QED
  BY <1>2, <1>10

-----------------------------------------------------------------------------
(* The theorem                                                             *)

LEMMA HeapInitInv == HeapInit => HeapInv(heap)
<1>1. HeapInv(prvHeapInit)
  <2>1. Built(AddRegion(NoHeap(4), Regions[1]), 4, 1)
    BY FirstBuilt
  <2> QED
    BY <2>1, BuiltInv DEF prvHeapInit
<1> QED
  BY <1>1, HeapOneInv, HeapTwoInv, HeapFiveInv DEF HeapInit

LEMMA HeapNextInv == HeapInv(heap) /\ [HeapNext]_heap => HeapInv(heap')
<1> SUFFICES ASSUME HeapInv(heap), [HeapNext]_heap PROVE HeapInv(heap')
  OBVIOUS
<1>1. heap.scheme \in Schemes
  BY DEF HeapInv, HeapType
<1>2. CASE Malloc
  <2>1. PICK wanted \in Requests : heap' = pvPortMalloc(heap, wanted)
    BY <1>2 DEF Malloc
  <2>2. wanted \in Nat
    BY HeapAssumption
  <2>3. CASE heap.scheme = 1
    BY <2>1, <2>2, <2>3, NextKeeps DEF pvPortMalloc
  <2>4. CASE heap.scheme # 1
    BY <1>1, <2>1, <2>2, <2>4, FirstFitKeeps DEF pvPortMalloc, Schemes
  <2> QED
    BY <2>3, <2>4
<1>3. CASE Free
  <2>1. PICK b \in Allocated(heap) : heap' = vPortFree(heap, b)
    BY <1>3 DEF Free, Allocated
  <2>2. heap.scheme \in {2, 4, 5}
    BY <1>1, <1>3 DEF Free, Schemes
  <2> QED
    BY <2>1, <2>2, FreeKeeps
<1>4. CASE InitialiseBlocks
  BY <1>4, HeapOneInv DEF InitialiseBlocks
<1>5. CASE UNCHANGED heap
  BY <1>5
<1> QED
  BY <1>2, <1>3, <1>4, <1>5 DEF HeapNext

\* In every allocator, after any sequence of requests and releases, blocks lie
\* side by side, aligned, and hold what was asked for; no byte is lost, the free
\* ones are counted, and no two free blocks are left next to each other
\* (pvPortMalloc, vPortFree, prvInsertBlockIntoFreeList, vPortDefineHeapRegions).
THEOREM HeapIsSound == HeapSpec => []HeapSound
<1> DEFINE Inv == HeapInv(heap)
<1>1. HeapInit => Inv
  BY HeapInitInv
<1>2. Inv /\ [HeapNext]_heap => Inv'
  BY HeapNextInv
<1>3. Inv => HeapSound
  BY InvSound DEF HeapSound
<1> HIDE DEF Inv
<1> QED
  BY <1>1, <1>2, <1>3, PTL DEF HeapSpec

-----------------------------------------------------------------------------
(* The co-routines: the invariant, of a record c                           *)

Steps == {"none", "pending", "delayed", "select", "run", "send", "receive"}
States == {"start", "send", "receive"}
InFunction(c) == c.step \in {"run", "send", "receive"}

CrTypes ==
  [clock : Nat, seen : Nat, passed : Nat, last : Nat,
   priority : [CoRoutine -> 0..CrPriorities], ready : [0..(CrPriorities - 1) -> ReadyLists(CoRoutine)],
   top : 0..(CrPriorities - 1), delayed : Rows(CoRoutine), overflow : Rows(CoRoutine), wake : [CoRoutine -> Nat],
   pending : Rows(CoRoutine), toSend : Rows(CoRoutine), toReceive : Rows(CoRoutine), messages : 0..CrLength,
   current : CoRoutine \cup {NoCoRoutine}, step : Steps, state : [CoRoutine -> States],
   due : [CoRoutine -> Nat], timedOut : SUBSET Nat, missed : BOOLEAN]

Asleep(c) == ToSet(c.delayed) \cup ToSet(c.overflow)
Waiting(c) == ToSet(c.toSend) \cup ToSet(c.toReceive)
Row(c, p) == ToSet(c.ready[p].items)
IsReady(c, x) == x \in Row(c, c.priority[x])

\* Every co-routine is in one list of the scheduler, and those that wait for the
\* queue or have been woken are asleep.
ListedAt(c, x) ==
  /\ \A p \in 0..(CrPriorities - 1) : x \in Row(c, p) => c.priority[x] = p
  /\ x \in Created(c) => (IsReady(c, x) <=> x \notin Asleep(c))
  /\ x \in Asleep(c) => x \in Created(c)
  /\ ~(x \in ToSet(c.delayed) /\ x \in ToSet(c.overflow))
  /\ x \in ToSet(c.pending) \/ x \in Waiting(c) => x \in Asleep(c)
  /\ ~(x \in ToSet(c.pending) /\ x \in Waiting(c))
  /\ ~(x \in ToSet(c.toSend) /\ x \in ToSet(c.toReceive))

AllListed(c) == \A x \in CoRoutine : ListedAt(c, x)

\* The one that runs is ready.
Running(c) ==
  /\ InFunction(c) => c.current \in Created(c) /\ IsReady(c, c.current)
  /\ c.step # "none" => c.current \in CoRoutine

Clocks(c) ==
  /\ c.seen <= c.clock /\ c.clock - c.seen <= MaxBehind
  /\ c.step = "delayed" => c.passed <= c.clock - c.seen
  /\ c.step # "delayed" => c.last = c.seen % CrTickMod
  /\ \A t \in c.timedOut : t = c.seen

\* The tick at which the count was 0 last.
Base(c) == c.seen - (c.seen % CrTickMod)

\* The values of the lists say when a delay ends; none ends before the scheduler
\* has counted as far, nor stays once it has looked at the lists.
Delays(c) ==
  /\ \A x \in Asleep(c) : c.wake[x] < CrTickMod /\ c.seen <= c.due[x]
  /\ c.step # "delayed" => \A x \in Asleep(c) : c.seen < c.due[x]
  /\ \A x \in ToSet(c.delayed) : c.due[x] = Base(c) + c.wake[x]
  /\ \A x \in ToSet(c.overflow) : c.due[x] = Base(c) + CrTickMod + c.wake[x]
  /\ Rising(c.delayed, c.wake) /\ Rising(c.overflow, c.wake)

\* The second call of one that waits is the same as the first.
Waits(c) ==
  /\ \A x \in ToSet(c.toSend) : c.state[x] = "send"
  /\ \A x \in ToSet(c.toReceive) : c.state[x] = "receive"
  /\ c.step = "send" => c.state[c.current] # "receive"
  /\ c.step = "receive" => c.state[c.current] # "send"

\* Those who have been woken and not tried again; nobody waits while the queue
\* could serve more than those.
Trying(c, state) == {x \in Created(c) : c.state[x] = state /\ x \notin Waiting(c)}

Served(c) ==
  ~c.missed =>
    /\ c.toReceive # <<>> => c.messages <= Cardinality(Trying(c, "receive"))
    /\ c.toSend # <<>> => CrLength - c.messages <= Cardinality(Trying(c, "send"))

CrInv(c) ==
  /\ c \in CrTypes /\ AllListed(c) /\ Running(c)
  /\ Clocks(c) /\ Delays(c) /\ Waits(c) /\ Served(c)
-----------------------------------------------------------------------------
(* What the actions do to the lists                                        *)

Levels == 0..(CrPriorities - 1)

SameRows(d, c) ==
  /\ d.delayed = c.delayed /\ d.overflow = c.overflow /\ d.pending = c.pending
  /\ d.toSend = c.toSend /\ d.toReceive = c.toReceive

SameLists(d, c) ==
  /\ SameRows(d, c) /\ d.priority = c.priority
  /\ \A p \in Levels : Row(d, p) = Row(c, p)

\* x is new.
Enters(d, c, x, p) ==
  /\ SameRows(d, c) /\ c.priority[x] = NotCreated
  /\ p \in Levels /\ d.priority = [c.priority EXCEPT ![x] = p]
  /\ Row(d, p) = Row(c, p) \cup {x} /\ \A q \in Levels : q # p => Row(d, q) = Row(c, q)

\* x leaves all lists for the one of its priority.
Readied(d, c, x) ==
  /\ d.priority = c.priority
  /\ Removes(CoRoutine, c.delayed, d.delayed, x) /\ Removes(CoRoutine, c.overflow, d.overflow, x)
  /\ Removes(CoRoutine, c.pending, d.pending, x)
  /\ Removes(CoRoutine, c.toSend, d.toSend, x) /\ Removes(CoRoutine, c.toReceive, d.toReceive, x)
  /\ Row(d, c.priority[x]) = Row(c, c.priority[x]) \cup {x}
  /\ \A p \in Levels : p # c.priority[x] => Row(d, p) = Row(c, p)

\* x, which runs, falls asleep, and may wait for the queue.
Gains(u, s, x) == u = s \/ ToSet(u) = ToSet(s) \cup {x}

Slept(d, c, x) ==
  /\ d.priority = c.priority /\ d.pending = c.pending
  /\ Row(d, c.priority[x]) = Row(c, c.priority[x]) \ {x}
  /\ \A p \in Levels : p # c.priority[x] => Row(d, p) = Row(c, p)
  /\ \/ ToSet(d.delayed) = ToSet(c.delayed) \cup {x} /\ d.overflow = c.overflow
     \/ d.delayed = c.delayed /\ ToSet(d.overflow) = ToSet(c.overflow) \cup {x}
  /\ \/ Gains(d.toSend, c.toSend, x) /\ d.toReceive = c.toReceive
     \/ d.toSend = c.toSend /\ Gains(d.toReceive, c.toReceive, x)

\* x, which waits for the queue, is woken.
Woken(d, c, x) ==
  /\ d.priority = c.priority /\ \A p \in Levels : Row(d, p) = Row(c, p)
  /\ d.delayed = c.delayed /\ d.overflow = c.overflow
  /\ x \in Waiting(c) /\ ToSet(d.pending) = ToSet(c.pending) \cup {x}
  /\ ToSet(d.toSend) = ToSet(c.toSend) \ {x}
  /\ ToSet(d.toReceive) = ToSet(c.toReceive) \ {x}

\* The count wraps.
Swapped(d, c) ==
  /\ d.priority = c.priority /\ \A p \in Levels : Row(d, p) = Row(c, p)
  /\ d.delayed = c.overflow /\ d.overflow = c.delayed
  /\ d.pending = c.pending /\ d.toSend = c.toSend /\ d.toReceive = c.toReceive

LEMMA CreatedLevel ==
  ASSUME NEW c \in CrTypes, NEW x \in CoRoutine
  PROVE  c.priority[x] \in 0..CrPriorities /\ (x \in Created(c) <=> c.priority[x] \in Levels)
BY CoRoutinesAssumption DEF CrTypes, Created, NotCreated, Levels

LEMMA ListedSame ==
  ASSUME NEW c \in CrTypes, NEW d, AllListed(c), SameLists(d, c)
  PROVE  AllListed(d)
<1>1. ASSUME NEW y \in CoRoutine PROVE ListedAt(d, y)
  <2>1. ListedAt(c, y)
    BY DEF AllListed
  <2> QED
    BY <2>1, CreatedLevel DEF ListedAt, SameLists, SameRows, Created, IsReady, Asleep, Waiting, Levels
<1> QED
  BY <1>1 DEF AllListed

LEMMA ListedSwapped ==
  ASSUME NEW c \in CrTypes, NEW d, AllListed(c), Swapped(d, c)
  PROVE  AllListed(d)
<1>1. ASSUME NEW y \in CoRoutine PROVE ListedAt(d, y)
  <2>1. ListedAt(c, y)
    BY DEF AllListed
  <2> QED
    BY <2>1, CreatedLevel DEF ListedAt, Swapped, Created, IsReady, Asleep, Waiting, Levels
<1> QED
  BY <1>1 DEF AllListed

LEMMA ListedReadied ==
  ASSUME NEW c \in CrTypes, NEW d, AllListed(c), NEW x \in CoRoutine, x \in Asleep(c),
         Readied(d, c, x)
  PROVE  AllListed(d)
<1>1. ASSUME NEW y \in CoRoutine PROVE ListedAt(d, y)
  <2>1. ListedAt(c, y) /\ ListedAt(c, x)
    BY DEF AllListed
  <2> QED
    BY <2>1, CreatedLevel DEF ListedAt, Readied, Removes, Created, IsReady, Asleep, Waiting, Levels
<1> QED
  BY <1>1 DEF AllListed

LEMMA ListedSlept ==
  ASSUME NEW c \in CrTypes, NEW d, AllListed(c), NEW x \in Created(c), IsReady(c, x),
         Slept(d, c, x)
  PROVE  AllListed(d)
<1>1. ASSUME NEW y \in CoRoutine PROVE ListedAt(d, y)
  <2>1. ListedAt(c, y) /\ ListedAt(c, x) /\ x \in CoRoutine
    BY DEF AllListed, Created
  <2> QED
    BY <2>1, CreatedLevel DEF ListedAt, Slept, Gains, Created, IsReady, Asleep, Waiting, Levels
<1> QED
  BY <1>1 DEF AllListed

LEMMA ListedWoken ==
  ASSUME NEW c \in CrTypes, NEW d, AllListed(c), NEW x, Woken(d, c, x)
  PROVE  AllListed(d)
<1>1. ASSUME NEW y \in CoRoutine PROVE ListedAt(d, y)
  <2>1. ListedAt(c, y)
    BY DEF AllListed
  <2> QED
    BY <2>1, CreatedLevel DEF ListedAt, Woken, Created, IsReady, Asleep, Waiting, Levels
<1> QED
  BY <1>1 DEF AllListed

LEMMA ListedEnters ==
  ASSUME NEW c \in CrTypes, NEW d, AllListed(c), NEW x \in CoRoutine, NEW p, Enters(d, c, x, p)
  PROVE  AllListed(d)
<1>1. ASSUME NEW y \in CoRoutine PROVE ListedAt(d, y)
  <2>1. ListedAt(c, y) /\ ListedAt(c, x)
    BY DEF AllListed
  <2>2. c.priority \in [CoRoutine -> 0..CrPriorities]
    BY DEF CrTypes
  <2> QED
    BY <2>1, <2>2, CreatedLevel DEF ListedAt, Enters, SameRows, Created, IsReady, Asleep, Waiting, Levels, NotCreated
<1> QED
  BY <1>1 DEF AllListed
-----------------------------------------------------------------------------
(* The tick count                                                          *)

LEMMA Divide ==
  ASSUME NEW m \in Nat \ {0}, NEW low \in Nat, low < m, NEW high \in Nat
  PROVE  (low + m * high) % m = low
BY SMT

LEMMA Divides ==
  ASSUME NEW m \in Nat \ {0}, NEW x \in Nat
  PROVE  /\ x \div m \in Nat /\ x % m \in Nat /\ x % m < m
         /\ x = (x % m) + m * (x \div m)
BY SMT

\* The count some ticks later; it wraps at most once.
LEMMA CountAfter ==
  ASSUME NEW m \in Nat \ {0}, NEW s \in Nat, NEW t \in Nat, t < m
  PROVE  /\ s % m \in Nat /\ s % m < m /\ s - (s % m) \in Nat
         /\ (s + t) % m = IF (s % m) + t < m THEN (s % m) + t ELSE (s % m) + t - m
<1> DEFINE low == s % m  high == s \div m
<1>1. low \in Nat /\ high \in Nat /\ low < m /\ s = low + m * high
  BY Divides
<1> HIDE DEF low, high
<1>2. m * high \in Nat
  BY <1>1, SMT
<1>3. CASE low + t < m
  <2>1. s + t = (low + t) + m * high
    BY <1>1, <1>2
  <2>2. (s + t) % m = low + t
    BY <1>1, <1>3, <2>1, Divide
  <2> QED
    BY <1>1, <1>2, <1>3, <2>2 DEF low
<1>4. CASE low + t >= m
  <2> DEFINE rest == low + t - m  next == high + 1
  <2>1. s + t = rest + m * next
    BY <1>1, SMT
  <2>2. rest \in Nat /\ rest < m /\ next \in Nat
    BY <1>1, <1>4
  <2> HIDE DEF rest, next
  <2>3. (s + t) % m = rest
    BY <2>1, <2>2, Divide
  <2> QED
    BY <1>1, <1>2, <1>4, <2>3 DEF low, rest
<1> QED
  BY <1>1, <1>3, <1>4

\* The ticks since the last call, from the two counts.
LEMMA Passed ==
  ASSUME NEW m \in Nat \ {0}, NEW s \in Nat, NEW t \in Nat, t < m
  PROVE  ((s + t) + m - (s % m)) % m = t
<1> DEFINE low == s % m  high == s \div m
<1>1. low \in Nat /\ high \in Nat /\ low < m /\ s = low + m * high
  BY Divides
<1> HIDE DEF low, high
<1>2. (s + t) + m - low = t + m * (high + 1)
  BY <1>1, SMT
<1>3. (t + m * (high + 1)) % m = t
  BY <1>1, Divide
<1> QED
  BY <1>2, <1>3 DEF low

-----------------------------------------------------------------------------
(* Delays                                                                  *)

LEMMA ModIsPositive == CrTickMod \in Nat \ {0}
BY CoRoutinesAssumption

\* The values of others do not matter.
LEMMA RisingSame ==
  ASSUME NEW s \in Rows(CoRoutine), NEW value \in [CoRoutine -> Nat], NEW x \in CoRoutine, NEW v,
         x \notin ToSet(s), Rising(s, value)
  PROVE  Rising(s, [value EXCEPT ![x] = v])
<1>1. \A n \in DOMAIN s : s[n] \in CoRoutine /\ s[n] # x
  BY DEF Rows, ToSet
<1>2. \A n \in DOMAIN s : [value EXCEPT ![x] = v][s[n]] = value[s[n]]
  BY <1>1
<1> QED
  BY <1>2 DEF Rising

\* None is due before the first.
LEMMA FirstIsNext ==
  ASSUME NEW s \in Rows(CoRoutine), NEW value \in [CoRoutine -> Nat], Rising(s, value), NEW now \in Nat,
         s # <<>> => ~(now >= value[Head(s)])
  PROVE  \A x \in ToSet(s) : now < value[x]
<1> SUFFICES ASSUME NEW n \in DOMAIN s PROVE now < value[s[n]]
  BY DEF ToSet
<1>1. s \in Seq(CoRoutine) /\ DOMAIN s = 1..Len(s) /\ Len(s) \in Nat /\ n \in 1..Len(s)
  BY DEF Rows
<1>2. s # <<>> /\ Head(s) = s[1] /\ 1 \in DOMAIN s
  BY <1>1
<1>3. s[1] \in CoRoutine /\ s[n] \in CoRoutine /\ value[s[1]] \in Nat /\ value[s[n]] \in Nat
  BY <1>1, <1>2
<1>4. now < value[s[1]]
  BY <1>2, <1>3
<1>5. n = 1 \/ value[s[1]] <= value[s[n]]
  BY <1>1, <1>2 DEF Rising
<1> QED
  BY <1>3, <1>4, <1>5

LEMMA DelaysFewer ==
  ASSUME NEW c \in CrTypes, NEW d, Delays(c),
         d.seen = c.seen, d.wake = c.wake, d.due = c.due,
         ToSet(d.delayed) \subseteq ToSet(c.delayed), ToSet(d.overflow) \subseteq ToSet(c.overflow),
         Rising(d.delayed, d.wake), Rising(d.overflow, d.wake),
         d.step # "delayed" => c.step # "delayed" \/ \A x \in Asleep(d) : c.seen < c.due[x]
  PROVE  Delays(d)
BY DEF Delays, Asleep, Base

LEMMA DelaysSame ==
  ASSUME NEW c \in CrTypes, NEW d, Delays(c), SameRows(d, c),
         d.seen = c.seen, d.wake = c.wake, d.due = c.due,
         d.step # "delayed" => c.step # "delayed"
  PROVE  Delays(d)
BY DEF Delays, Asleep, Base, SameRows

LEMMA DelaysReadied ==
  ASSUME NEW c \in CrTypes, NEW d, Delays(c), NEW x, Readied(d, c, x),
         d.seen = c.seen, d.wake = c.wake, d.due = c.due, d.step = c.step
  PROVE  Delays(d)
<1>1. Rising(c.delayed, c.wake) /\ Rising(c.overflow, c.wake)
  BY DEF Delays
<1>2. Rising(d.delayed, d.wake) /\ Rising(d.overflow, d.wake)
  BY <1>1 DEF Readied, Removes
<1>3. ToSet(d.delayed) \subseteq ToSet(c.delayed) /\ ToSet(d.overflow) \subseteq ToSet(c.overflow)
  BY DEF Readied, Removes
<1> QED
  BY <1>2, <1>3, DelaysFewer

\* x falls asleep.
Delayed(d, c, x, ticks) ==
  /\ d.seen = c.seen /\ d.due = [c.due EXCEPT ![x] = c.seen + ticks]
  /\ d.wake = [c.wake EXCEPT ![x] = (c.seen + ticks) % CrTickMod]
  /\ IF (c.seen + ticks) % CrTickMod < c.seen % CrTickMod
     THEN d.delayed = c.delayed /\ Inserts(CoRoutine, c.overflow, d.overflow, x, d.wake)
     ELSE Inserts(CoRoutine, c.delayed, d.delayed, x, d.wake) /\ d.overflow = c.overflow

LEMMA DelaysSlept ==
  ASSUME NEW c \in CrTypes, NEW d, Delays(c), NEW x \in CoRoutine, x \notin Asleep(c),
         NEW ticks \in Nat, 0 < ticks, ticks < CrTickMod, Delayed(d, c, x, ticks),
         c.step # "delayed"
  PROVE  Delays(d)
<1> DEFINE s == c.seen % CrTickMod  w == (c.seen + ticks) % CrTickMod
<1>1. /\ s \in Nat /\ s < CrTickMod /\ c.seen - s \in Nat /\ c.seen \in Nat /\ CrTickMod \in Nat
      /\ w = IF s + ticks < CrTickMod THEN s + ticks ELSE s + ticks - CrTickMod
  BY ModIsPositive, CountAfter DEF CrTypes
<1>2. /\ c.wake \in [CoRoutine -> Nat] /\ c.due \in [CoRoutine -> Nat]
      /\ c.delayed \in Rows(CoRoutine) /\ c.overflow \in Rows(CoRoutine)
      /\ ToSet(c.delayed) \subseteq CoRoutine /\ ToSet(c.overflow) \subseteq CoRoutine
  BY EmptyRow DEF CrTypes
<1>3. Rising(c.delayed, d.wake) /\ Rising(c.overflow, d.wake)
  <2>1. /\ Rising(c.delayed, c.wake) /\ Rising(c.overflow, c.wake)
        /\ x \notin ToSet(c.delayed) /\ x \notin ToSet(c.overflow)
    BY DEF Delays, Asleep
  <2>2. d.wake = [c.wake EXCEPT ![x] = w]
    BY DEF Delayed
  <2> HIDE DEF w
  <2>3. Rising(c.delayed, d.wake)
    BY <1>2, <2>1, <2>2, RisingSame
  <2>4. Rising(c.overflow, d.wake)
    BY <1>2, <2>1, <2>2, RisingSame
  <2> QED
    BY <2>3, <2>4
<1>4. Rising(d.delayed, d.wake) /\ Rising(d.overflow, d.wake)
  BY <1>3 DEF Delayed, Inserts
<1>5. /\ d.seen = c.seen /\ d.due = [c.due EXCEPT ![x] = c.seen + ticks]
      /\ d.wake = [c.wake EXCEPT ![x] = w]
      /\ w < s => ToSet(d.delayed) = ToSet(c.delayed) /\ ToSet(d.overflow) = ToSet(c.overflow) \cup {x}
      /\ ~(w < s) => ToSet(d.delayed) = ToSet(c.delayed) \cup {x} /\ ToSet(d.overflow) = ToSet(c.overflow)
  BY DEF Delayed, Inserts
<1>6. Base(d) = c.seen - s /\ Base(c) = c.seen - s
  BY <1>5 DEF Base
<1>7. w \in Nat /\ w < CrTickMod /\ (w < s <=> s + ticks >= CrTickMod)
  BY <1>1
<1> HIDE DEF s, w
<1>8. d.wake[x] = w /\ d.due[x] = c.seen + ticks
  BY <1>2, <1>5
<1>9. \A y \in CoRoutine : y # x => d.wake[y] = c.wake[y] /\ d.due[y] = c.due[y]
  BY <1>2, <1>5
<1>10. \A y \in Asleep(c) : y \in CoRoutine /\ y # x /\ c.wake[y] < CrTickMod /\ c.seen < c.due[y]
  BY <1>2 DEF Asleep, Delays
<1>11. \A y \in Asleep(d) : y = x \/ y \in Asleep(c)
  BY <1>5 DEF Asleep
<1>12. \A y \in Asleep(d) : d.wake[y] < CrTickMod /\ d.seen < d.due[y] /\ d.seen <= d.due[y]
  <2> SUFFICES ASSUME NEW y \in Asleep(d)
               PROVE  d.wake[y] < CrTickMod /\ d.seen < d.due[y] /\ d.seen <= d.due[y]
    OBVIOUS
  <2>1. CASE y = x
    BY <1>1, <1>5, <1>7, <1>8, <2>1
  <2>2. CASE y # x
    <3>1. y \in Asleep(c) /\ y \in CoRoutine /\ c.due[y] \in Nat
      BY <1>2, <1>10, <1>11, <2>2
    <3> QED
      BY <1>1, <1>5, <1>9, <1>10, <2>2, <3>1
  <2> QED
    BY <2>1, <2>2
<1>13. ASSUME NEW y \in ToSet(d.delayed)
       PROVE  d.due[y] = Base(d) + d.wake[y]
  <2>1. CASE y = x
    <3>1. ~(w < s)
      BY <1>5, <2>1 DEF Asleep
    <3> QED
      BY <1>1, <1>6, <1>7, <1>8, <2>1, <3>1 DEF w, s
  <2>2. CASE y # x
    <3>1. y \in ToSet(c.delayed) /\ y \in CoRoutine
      BY <1>2, <1>5, <2>2
    <3> QED
      BY <1>6, <1>9, <2>2, <3>1 DEF Delays
  <2> QED
    BY <2>1, <2>2
<1>14. ASSUME NEW y \in ToSet(d.overflow)
       PROVE  d.due[y] = Base(d) + CrTickMod + d.wake[y]
  <2>1. CASE y = x
    <3>1. w < s
      BY <1>5, <2>1 DEF Asleep
    <3> QED
      BY <1>1, <1>6, <1>7, <1>8, <2>1, <3>1 DEF w, s
  <2>2. CASE y # x
    <3>1. y \in ToSet(c.overflow) /\ y \in CoRoutine
      BY <1>2, <1>5, <2>2
    <3> QED
      BY <1>6, <1>9, <2>2, <3>1 DEF Delays
  <2> QED
    BY <2>1, <2>2
<1> QED
  BY <1>4, <1>12, <1>13, <1>14 DEF Delays

\* One tick is counted.
Ticked(d, c) ==
  /\ d.seen = c.seen + 1 /\ d.wake = c.wake /\ d.due = c.due
  /\ IF (c.seen + 1) % CrTickMod = 0 THEN d.delayed = c.overflow /\ d.overflow = c.delayed
     ELSE d.delayed = c.delayed /\ d.overflow = c.overflow

LEMMA DelaysCounted ==
  ASSUME NEW c \in CrTypes, NEW d, Delays(c), Ticked(d, c), ~HeadDue(c), 1 < CrTickMod,
         d.step = "delayed"
  PROVE  Delays(d)
<1> DEFINE s == c.seen % CrTickMod  r == (c.seen + 1) % CrTickMod
<1>1. /\ s \in Nat /\ s < CrTickMod /\ c.seen - s \in Nat /\ c.seen \in Nat /\ CrTickMod \in Nat
      /\ r = IF s + 1 < CrTickMod THEN s + 1 ELSE s + 1 - CrTickMod
  BY ModIsPositive, CountAfter DEF CrTypes
<1>2. /\ c.wake \in [CoRoutine -> Nat] /\ c.due \in [CoRoutine -> Nat]
      /\ c.delayed \in Rows(CoRoutine) /\ c.overflow \in Rows(CoRoutine)
      /\ ToSet(c.delayed) \subseteq CoRoutine /\ ToSet(c.overflow) \subseteq CoRoutine
  BY EmptyRow DEF CrTypes
<1>3. \A x \in ToSet(c.delayed) : s < c.wake[x]
  BY <1>1, <1>2, FirstIsNext DEF HeadDue, Delays
<1>4. Base(c) = c.seen - s /\ Base(d) = c.seen + 1 - r
  <2>1. d.seen = c.seen + 1
    BY DEF Ticked
  <2>2. Base(d) = (c.seen + 1) - ((c.seen + 1) % CrTickMod)
    BY <2>1, Zenon DEF Base
  <2>3. Base(c) = c.seen - s
    BY DEF Base
  <2> QED
    BY <1>1, <2>2, <2>3
<1>5. d.seen = c.seen + 1 /\ d.wake = c.wake /\ d.due = c.due
  BY DEF Ticked
<1>6. r = 0 => d.delayed = c.overflow /\ d.overflow = c.delayed
  BY DEF Ticked
<1>7. r # 0 => d.delayed = c.delayed /\ d.overflow = c.overflow
  BY DEF Ticked
<1> HIDE DEF s, r
<1>8. ASSUME NEW x \in Asleep(c)
      PROVE  c.wake[x] < CrTickMod /\ c.seen + 1 <= c.due[x]
  <2>1. x \in CoRoutine /\ c.wake[x] \in Nat /\ c.due[x] \in Nat /\ c.wake[x] < CrTickMod
    BY <1>2 DEF Asleep, Delays
  <2>2. CASE x \in ToSet(c.delayed)
    BY <1>1, <1>3, <1>4, <2>1, <2>2 DEF Delays
  <2>3. CASE x \in ToSet(c.overflow)
    BY <1>1, <1>4, <2>1, <2>3 DEF Delays
  <2> QED
    BY <2>1, <2>2, <2>3 DEF Asleep
<1>9. \A x \in Asleep(d) : d.wake[x] < CrTickMod /\ d.seen <= d.due[x]
  BY <1>5, <1>6, <1>7, <1>8 DEF Asleep
<1>10. Rising(d.delayed, d.wake) /\ Rising(d.overflow, d.wake)
  BY <1>5, <1>6, <1>7 DEF Delays
<1>11. CASE r = 0
  <2>1. s = CrTickMod - 1 /\ Base(d) = Base(c) + CrTickMod
    BY <1>1, <1>4, <1>11
  <2>2. ToSet(c.delayed) = {}
    <3> SUFFICES ASSUME NEW x \in ToSet(c.delayed) PROVE FALSE
      OBVIOUS
    <3>1. x \in CoRoutine /\ c.wake[x] \in Nat /\ c.wake[x] < CrTickMod /\ s < c.wake[x]
      BY <1>2, <1>3 DEF Asleep, Delays
    <3> QED
      BY <1>1, <2>1, <3>1
  <2>3. /\ \A x \in ToSet(d.delayed) : d.due[x] = Base(d) + d.wake[x]
        /\ \A x \in ToSet(d.overflow) : d.due[x] = Base(d) + CrTickMod + d.wake[x]
    BY <1>5, <1>6, <1>11, <2>1, <2>2 DEF Delays
  <2> QED
    BY <1>9, <1>10, <2>3 DEF Delays
<1>12. CASE r # 0
  <2>1. Base(d) = Base(c)
    BY <1>1, <1>4, <1>12
  <2>2. /\ \A x \in ToSet(d.delayed) : d.due[x] = Base(d) + d.wake[x]
        /\ \A x \in ToSet(d.overflow) : d.due[x] = Base(d) + CrTickMod + d.wake[x]
    BY <1>5, <1>7, <1>12, <2>1 DEF Delays
  <2> QED
    BY <1>9, <1>10, <2>2 DEF Delays
<1> QED
  BY <1>11, <1>12

\* One whose delay has ended is not late.
LEMMA EndsInTime ==
  ASSUME NEW c \in CrTypes, Delays(c), HeadDue(c)
  PROVE  c.due[Head(c.delayed)] = c.seen
<1> DEFINE x == Head(c.delayed)  s == c.seen % CrTickMod
<1>1. /\ s \in Nat /\ c.seen - s \in Nat /\ c.seen \in Nat
  <2>1. c.seen \in Nat /\ 0 \in Nat /\ 0 < CrTickMod
    BY ModIsPositive DEF CrTypes
  <2> QED
    BY <2>1, ModIsPositive, CountAfter
<1>2. x \in ToSet(c.delayed) /\ x \in CoRoutine
  BY TailRemoved DEF CrTypes, HeadDue
<1>3. /\ c.wake[x] \in Nat /\ c.due[x] \in Nat /\ s >= c.wake[x]
  BY <1>2 DEF CrTypes, HeadDue
<1>4. c.seen <= c.due[x] /\ c.due[x] = c.seen - s + c.wake[x]
  BY <1>2 DEF Delays, Asleep, Base
<1> HIDE DEF s, x
<1>5. c.due[x] = c.seen
  BY <1>1, <1>3, <1>4
<1> QED
  BY <1>5 DEF x

-----------------------------------------------------------------------------
(* Those who try                                                           *)

LEMMA TryingIn ==
  ASSUME NEW T, T \subseteq CoRoutine
  PROVE  IsFiniteSet(T) /\ Cardinality(T) \in Nat
BY CoRoutinesAssumption, FS_Subset, FS_CardinalityType

LEMMA TryMore ==
  ASSUME NEW T, NEW U, T \subseteq U, U \subseteq CoRoutine
  PROVE  Cardinality(T) <= Cardinality(U)
<1>1. IsFiniteSet(U)
  BY TryingIn
<1> QED
  BY <1>1, FS_Subset

LEMMA TryOneMore ==
  ASSUME NEW T, NEW U, T \subseteq U, U \subseteq CoRoutine, NEW x \in U, x \notin T
  PROVE  Cardinality(T) + 1 <= Cardinality(U)
<1>1. T \subseteq CoRoutine /\ x \in CoRoutine /\ T \cup {x} \subseteq U
  OBVIOUS
<1>2. Cardinality(T \cup {x}) = Cardinality(T) + 1
  BY <1>1, TryingIn, FS_AddElement
<1>3. Cardinality(T \cup {x}) <= Cardinality(U)
  BY <1>1, TryMore
<1> QED
  BY <1>2, <1>3

LEMMA TryOneLess ==
  ASSUME NEW T, NEW U, NEW x, T \ {x} \subseteq U, T \subseteq CoRoutine, U \subseteq CoRoutine
  PROVE  Cardinality(T) <= Cardinality(U) + 1
<1>1. CASE x \in T
  <2>1. x \notin T \ {x} /\ x \in CoRoutine /\ T \ {x} \subseteq CoRoutine /\ T = (T \ {x}) \cup {x}
    BY <1>1
  <2>2. Cardinality((T \ {x}) \cup {x}) = Cardinality(T \ {x}) + 1
    BY <2>1, TryingIn, FS_AddElement
  <2>3. Cardinality(T \ {x}) <= Cardinality(U)
    BY TryMore
  <2>4. Cardinality(T \ {x}) \in Nat /\ Cardinality(U) \in Nat
    BY <2>1, TryingIn
  <2> QED
    BY <2>1, <2>2, <2>3, <2>4
<1>2. CASE x \notin T
  <2>1. T \subseteq U
    BY <1>2
  <2>2. Cardinality(T) <= Cardinality(U)
    BY <2>1, TryMore
  <2>3. Cardinality(T) \in Nat /\ Cardinality(U) \in Nat
    BY TryingIn
  <2> QED
    BY <2>2, <2>3
<1> QED
  BY <1>1, <1>2

LEMMA TryingCount ==
  ASSUME NEW c, NEW s
  PROVE  Trying(c, s) \subseteq CoRoutine /\ Cardinality(Trying(c, s)) \in Nat
<1>1. Trying(c, s) \subseteq CoRoutine
  BY DEF Trying, Created
<1> QED
  BY <1>1, TryingIn

Keeps(d, c, state) == Trying(c, state) \subseteq Trying(d, state)
Loses(d, c, state) == \E x \in CoRoutine \cup {NoCoRoutine} : Trying(c, state) \ {x} \subseteq Trying(d, state)
Wins(d, c, state) ==
  Keeps(d, c, state) /\ \E x \in Trying(d, state) : x \notin Trying(c, state)

LEMMA Kept ==
  ASSUME NEW c, NEW d, NEW s, Keeps(d, c, s)
  PROVE  Cardinality(Trying(c, s)) <= Cardinality(Trying(d, s))
BY TryingCount, TryMore DEF Keeps

LEMMA Lost ==
  ASSUME NEW c, NEW d, NEW s, Loses(d, c, s)
  PROVE  Cardinality(Trying(c, s)) <= Cardinality(Trying(d, s)) + 1
BY TryingCount, TryOneLess DEF Loses

LEMMA Won ==
  ASSUME NEW c, NEW d, NEW s, Wins(d, c, s)
  PROVE  Cardinality(Trying(c, s)) + 1 <= Cardinality(Trying(d, s))
BY TryingCount, TryOneMore DEF Wins, Keeps

LEMMA ServedMore ==
  ASSUME NEW c \in CrTypes, NEW d, Served(c), d.missed = c.missed, d.messages = c.messages,
         d.toSend # <<>> => c.toSend # <<>>, d.toReceive # <<>> => c.toReceive # <<>>,
         Keeps(d, c, "send"), Keeps(d, c, "receive")
  PROVE  Served(d)
<1> DEFINE s == Cardinality(Trying(c, "send"))  r == Cardinality(Trying(c, "receive"))
           u == Cardinality(Trying(d, "send"))  v == Cardinality(Trying(d, "receive"))
<1>1. s \in Nat /\ r \in Nat /\ u \in Nat /\ v \in Nat
  BY TryingCount
<1>2. s <= u /\ r <= v
  BY Kept
<1>3. c.messages \in Nat /\ CrLength \in Nat
  BY CoRoutinesAssumption DEF CrTypes
<1>4. ~c.missed => /\ c.toReceive # <<>> => c.messages <= r
                   /\ c.toSend # <<>> => CrLength - c.messages <= s
  BY DEF Served
<1> HIDE DEF s, r, u, v
<1>5. ~d.missed => /\ d.toReceive # <<>> => d.messages <= v
                   /\ d.toSend # <<>> => CrLength - d.messages <= u
  BY <1>1, <1>2, <1>3, <1>4
<1> QED
  BY <1>5 DEF Served, u, v

\* One message more, or one less: somebody is woken who waits for it.
LEMMA ServedSent ==
  ASSUME NEW c \in CrTypes, NEW d, Served(c), d.missed = c.missed,
         d.messages = c.messages + 1, d.toSend = c.toSend, Loses(d, c, "send"),
         \/ d.toReceive = <<>>
         \/ c.toReceive # <<>> /\ Wins(d, c, "receive")
  PROVE  Served(d)
<1> DEFINE s == Cardinality(Trying(c, "send"))  r == Cardinality(Trying(c, "receive"))
           u == Cardinality(Trying(d, "send"))  v == Cardinality(Trying(d, "receive"))
<1>1. s \in Nat /\ r \in Nat /\ u \in Nat /\ v \in Nat
  BY TryingCount
<1>2. s <= u + 1
  BY Lost
<1>3. d.toReceive = <<>> \/ (c.toReceive # <<>> /\ r + 1 <= v)
  BY Won
<1>4. c.messages \in Nat /\ CrLength \in Nat
  BY CoRoutinesAssumption DEF CrTypes
<1>5. ~c.missed => /\ c.toReceive # <<>> => c.messages <= r
                   /\ c.toSend # <<>> => CrLength - c.messages <= s
  BY DEF Served
<1> HIDE DEF s, r, u, v
<1>6. ~d.missed => /\ d.toReceive # <<>> => d.messages <= v
                   /\ d.toSend # <<>> => CrLength - d.messages <= u
  BY <1>1, <1>2, <1>3, <1>4, <1>5
<1> QED
  BY <1>6 DEF Served, u, v

LEMMA ServedReceived ==
  ASSUME NEW c \in CrTypes, NEW d, Served(c), d.missed = c.missed,
         d.messages = c.messages - 1, d.toReceive = c.toReceive, Loses(d, c, "receive"),
         \/ d.toSend = <<>>
         \/ c.toSend # <<>> /\ Wins(d, c, "send")
  PROVE  Served(d)
<1> DEFINE s == Cardinality(Trying(c, "send"))  r == Cardinality(Trying(c, "receive"))
           u == Cardinality(Trying(d, "send"))  v == Cardinality(Trying(d, "receive"))
<1>1. s \in Nat /\ r \in Nat /\ u \in Nat /\ v \in Nat
  BY TryingCount
<1>2. r <= v + 1
  BY Lost
<1>3. d.toSend = <<>> \/ (c.toSend # <<>> /\ s + 1 <= u)
  BY Won
<1>4. c.messages \in Nat /\ CrLength \in Nat
  BY CoRoutinesAssumption DEF CrTypes
<1>5. ~c.missed => /\ c.toReceive # <<>> => c.messages <= r
                   /\ c.toSend # <<>> => CrLength - c.messages <= s
  BY DEF Served
<1> HIDE DEF s, r, u, v
<1>6. ~d.missed => /\ d.toReceive # <<>> => d.messages <= v
                   /\ d.toSend # <<>> => CrLength - d.messages <= u
  BY <1>1, <1>2, <1>3, <1>4, <1>5
<1> QED
  BY <1>6 DEF Served, u, v

\* One who finds the queue full, or empty, may come to wait.
LEMMA ServedFull ==
  ASSUME NEW c \in CrTypes, NEW d, Served(c), d.missed = c.missed, d.messages = c.messages,
         c.messages = CrLength, d.toReceive = c.toReceive, Keeps(d, c, "receive")
  PROVE  Served(d)
<1> DEFINE r == Cardinality(Trying(c, "receive"))
           u == Cardinality(Trying(d, "send"))  v == Cardinality(Trying(d, "receive"))
<1>1. r \in Nat /\ u \in Nat /\ v \in Nat
  BY TryingCount
<1>2. r <= v
  BY Kept
<1>3. c.messages \in Nat /\ CrLength \in Nat
  BY CoRoutinesAssumption DEF CrTypes
<1>4. ~c.missed => (c.toReceive # <<>> => c.messages <= r)
  BY DEF Served
<1> HIDE DEF r, u, v
<1>5. ~d.missed => /\ d.toReceive # <<>> => d.messages <= v
                   /\ d.toSend # <<>> => CrLength - d.messages <= u
  BY <1>1, <1>2, <1>3, <1>4
<1> QED
  BY <1>5 DEF Served, u, v

LEMMA ServedEmpty ==
  ASSUME NEW c \in CrTypes, NEW d, Served(c), d.missed = c.missed, d.messages = c.messages,
         c.messages = 0, d.toSend = c.toSend, Keeps(d, c, "send")
  PROVE  Served(d)
<1> DEFINE s == Cardinality(Trying(c, "send"))
           u == Cardinality(Trying(d, "send"))  v == Cardinality(Trying(d, "receive"))
<1>1. s \in Nat /\ u \in Nat /\ v \in Nat
  BY TryingCount
<1>2. s <= u
  BY Kept
<1>3. c.messages \in Nat /\ CrLength \in Nat
  BY CoRoutinesAssumption DEF CrTypes
<1>4. ~c.missed => (c.toSend # <<>> => CrLength - c.messages <= s)
  BY DEF Served
<1> HIDE DEF s, u, v
<1>5. ~d.missed => /\ d.toReceive # <<>> => d.messages <= v
                   /\ d.toSend # <<>> => CrLength - d.messages <= u
  BY <1>1, <1>2, <1>3, <1>4
<1> QED
  BY <1>5 DEF Served, u, v

-----------------------------------------------------------------------------
(* The scheduler                                                           *)

SameTime(d, c) ==
  /\ d.clock = c.clock /\ d.seen = c.seen /\ d.last = c.last
  /\ d.wake = c.wake /\ d.due = c.due

SameQueue(d, c) ==
  /\ d.messages = c.messages /\ d.missed = c.missed /\ d.state = c.state
  /\ d.toSend = c.toSend /\ d.toReceive = c.toReceive

LEMMA SameWait ==
  ASSUME NEW c \in CrTypes, NEW d, Waits(c), Served(c), SameQueue(d, c), d.priority = c.priority,
         \/ d.step \notin {"send", "receive"}
         \/ d.step = c.step /\ d.current = c.current
  PROVE  Waits(d) /\ Served(d)
<1>1. Keeps(d, c, "send") /\ Keeps(d, c, "receive")
  BY DEF SameQueue, Keeps, Trying, Waiting, Created
<1>2. Served(d)
  BY <1>1, ServedMore DEF SameQueue
<1> QED
  BY <1>2 DEF Waits, SameQueue

LEMMA NotRemoved ==
  ASSUME NEW u \in Rows(CoRoutine), NEW x, x \notin ToSet(u)
  PROVE  Removes(CoRoutine, u, u, x)
BY DEF Removes

LEMMA ReadyAdded ==
  ASSUME NEW list \in ReadyLists(CoRoutine), NEW x \in CoRoutine, x \notin ToSet(list.items)
  PROVE  /\ vListInsertEnd(list, x) \in ReadyLists(CoRoutine)
         /\ ToSet(vListInsertEnd(list, x).items) = ToSet(list.items) \cup {x}
BY ReadyAdd, Zenon

LEMMA RowChanged ==
  ASSUME NEW c \in CrTypes, NEW d, NEW p \in Levels, NEW list, d.ready = [c.ready EXCEPT ![p] = list]
  PROVE  Row(d, p) = ToSet(list.items) /\ \A q \in Levels : q # p => Row(d, q) = Row(c, q)
BY DEF CrTypes, Levels, Row

LEMMA RunningStill ==
  ASSUME NEW c, NEW d, Running(c), ~InFunction(d), d.current = c.current, c.step # "none"
  PROVE  Running(d)
BY DEF Running

LEMMA PendingTurnInv ==
  ASSUME NEW c, CrInv(c), c.step = "pending", c.pending # <<>>, c.timedOut = {}
  PROVE  CrInv(PendingTurn(c))
<1> DEFINE d == PendingTurn(c)  x == Head(c.pending)
<1>1. c \in CrTypes /\ AllListed(c) /\ Running(c) /\ Clocks(c) /\ Delays(c) /\ Waits(c) /\ Served(c)
  BY DEF CrInv
<1>2. /\ Removes(CoRoutine, c.pending, Tail(c.pending), x) /\ x \in ToSet(c.pending) /\ x \in CoRoutine
      /\ Removes(CoRoutine, c.delayed, RemoveFirst(c.delayed, x), x)
      /\ Removes(CoRoutine, c.overflow, RemoveFirst(c.overflow, x), x)
      /\ c.toSend \in Rows(CoRoutine) /\ c.toReceive \in Rows(CoRoutine)
  BY <1>1, TailRemoved, FirstRemoved DEF CrTypes
<1>3. /\ x \in Asleep(c) /\ x \in Created(c) /\ c.priority[x] \in Levels /\ x \notin Waiting(c)
      /\ ~IsReady(c, x)
  BY <1>1, <1>2, CreatedLevel DEF AllListed, ListedAt
<1>4. /\ vListInsertEnd(c.ready[c.priority[x]], x) \in ReadyLists(CoRoutine)
      /\ ToSet(vListInsertEnd(c.ready[c.priority[x]], x).items) = Row(c, c.priority[x]) \cup {x}
  <2>1. c.ready[c.priority[x]] \in ReadyLists(CoRoutine) /\ x \notin ToSet(c.ready[c.priority[x]].items)
    BY <1>1, <1>3 DEF CrTypes, Levels, IsReady, Row
  <2> QED
    BY <1>2, <2>1, ReadyAdded DEF Row
<1>5. d \in CrTypes
  BY <1>1, <1>2, <1>3, <1>4, Zenon DEF CrTypes, PendingTurn, prvAddCoRoutineToReadyQueue, Removes, Levels
<1>6. /\ d.pending = Tail(c.pending) /\ d.delayed = RemoveFirst(c.delayed, x)
      /\ d.overflow = RemoveFirst(c.overflow, x) /\ d.priority = c.priority
      /\ d.ready = [c.ready EXCEPT ![c.priority[x]] = vListInsertEnd(@, x)]
      /\ d.step = c.step /\ d.current = c.current /\ d.timedOut = c.timedOut /\ d.passed = c.passed
  BY <1>1 DEF CrTypes, PendingTurn, prvAddCoRoutineToReadyQueue
<1>7. SameTime(d, c) /\ SameQueue(d, c)
  BY <1>1 DEF CrTypes, PendingTurn, prvAddCoRoutineToReadyQueue, SameTime, SameQueue
<1> HIDE DEF d
<1>8. Readied(d, c, x)
  <2>1. Removes(CoRoutine, c.toSend, d.toSend, x) /\ Removes(CoRoutine, c.toReceive, d.toReceive, x)
    BY <1>2, <1>3, <1>7, NotRemoved DEF SameQueue, Waiting
  <2>2. /\ Row(d, c.priority[x]) = Row(c, c.priority[x]) \cup {x}
        /\ \A p \in Levels : p # c.priority[x] => Row(d, p) = Row(c, p)
    <3> DEFINE ready == vListInsertEnd(c.ready[c.priority[x]], x)
    <3>1. ready \in ReadyLists(CoRoutine) /\ d.ready = [c.ready EXCEPT ![c.priority[x]] = ready]
      BY <1>4, <1>6
    <3>2. ToSet(ready.items) = Row(c, c.priority[x]) \cup {x}
      BY <1>4
    <3> HIDE DEF ready
    <3> QED
      BY <1>1, <1>3, <3>1, <3>2, RowChanged
  <2> HIDE DEF x
  <2> QED
    BY <1>2, <1>6, <2>1, <2>2 DEF Readied
<1>9. AllListed(d)
  BY <1>1, <1>2, <1>3, <1>8, ListedReadied
<1>10. Running(d)
  BY <1>1, <1>6, RunningStill DEF InFunction
<1>11. Delays(d)
  BY <1>1, <1>6, <1>7, <1>8, DelaysReadied DEF SameTime
<1>12. Clocks(d)
  BY <1>1, <1>6, <1>7 DEF Clocks, SameTime
<1>13. Waits(d) /\ Served(d)
  BY <1>1, <1>6, <1>7, SameWait
<1>14. CrInv(d)
  BY <1>5, <1>9, <1>10, <1>11, <1>12, <1>13 DEF CrInv
<1> QED
  BY <1>14 DEF d

LEMMA ForgetsInv ==
  ASSUME NEW c, CrInv(c)
  PROVE  LET d == [c EXCEPT !.timedOut = {}]
         IN  CrInv(d) /\ d.timedOut = {}
<1> DEFINE d == [c EXCEPT !.timedOut = {}]
<1>1. c \in CrTypes /\ AllListed(c) /\ Running(c) /\ Clocks(c) /\ Delays(c) /\ Waits(c) /\ Served(c)
  BY DEF CrInv
<1>2. {} \in SUBSET Nat
  OBVIOUS
<1>3. d \in CrTypes
  BY <1>1, <1>2, Zenon DEF CrTypes
<1>4. /\ SameTime(d, c) /\ SameQueue(d, c) /\ SameRows(d, c)
      /\ d.priority = c.priority /\ d.ready = c.ready
      /\ d.step = c.step /\ d.current = c.current /\ d.timedOut = {} /\ d.passed = c.passed
  BY <1>1 DEF CrTypes, SameTime, SameQueue, SameRows
<1> HIDE DEF d
<1>5. SameLists(d, c)
  BY <1>4 DEF SameLists, Row
<1>6. AllListed(d)
  BY <1>1, <1>5, ListedSame
<1>7. Running(d)
  BY <1>1, <1>4 DEF Running, InFunction, Created, IsReady, Row
<1>8. Delays(d)
  BY <1>1, <1>4, DelaysSame DEF SameTime
<1>9. Clocks(d)
  BY <1>1, <1>4 DEF Clocks, SameTime
<1>10. Waits(d) /\ Served(d)
  BY <1>1, <1>4, SameWait
<1>11. CrInv(d) /\ d.timedOut = {}
  BY <1>3, <1>4, <1>6, <1>7, <1>8, <1>9, <1>10 DEF CrInv
<1> QED
  BY <1>11 DEF d

LEMMA FirstCallInv ==
  ASSUME NEW c, CrInv(c), c.step = "none", c.current # NoCoRoutine
  PROVE  CrInv([c EXCEPT !.step = "pending"])
<1> DEFINE d == [c EXCEPT !.step = "pending"]
<1>1. c \in CrTypes /\ AllListed(c) /\ Running(c) /\ Clocks(c) /\ Delays(c) /\ Waits(c) /\ Served(c)
  BY DEF CrInv
<1>2. "pending" \in Steps
  BY DEF Steps
<1>3. d \in CrTypes
  BY <1>1, <1>2, Zenon DEF CrTypes
<1>4. /\ SameTime(d, c) /\ SameQueue(d, c) /\ SameRows(d, c)
      /\ d.priority = c.priority /\ d.ready = c.ready
      /\ d.step = "pending" /\ d.current = c.current /\ d.timedOut = c.timedOut
  BY <1>1 DEF CrTypes, SameTime, SameQueue, SameRows
<1> HIDE DEF d
<1>5. SameLists(d, c)
  BY <1>4 DEF SameLists, Row
<1>6. AllListed(d)
  BY <1>1, <1>5, ListedSame
<1>7. Running(d)
  BY <1>1, <1>4 DEF Running, InFunction, CrTypes
<1>8. Delays(d)
  BY <1>1, <1>4, DelaysSame DEF SameTime
<1>9. Clocks(d)
  BY <1>1, <1>4 DEF Clocks, SameTime
<1>10. Waits(d) /\ Served(d)
  BY <1>1, <1>4, SameWait
<1>11. CrInv(d)
  BY <1>3, <1>6, <1>7, <1>8, <1>9, <1>10 DEF CrInv
<1> QED
  BY <1>11 DEF d

LEMMA ToDelayedInv ==
  ASSUME NEW c, CrInv(c), c.step = "pending", c.timedOut = {}
  PROVE  CrInv([c EXCEPT !.step = "delayed",
                         !.passed = (c.clock + CrTickMod - c.last) % CrTickMod])
<1> DEFINE passed == (c.clock + CrTickMod - c.last) % CrTickMod
           d == [c EXCEPT !.step = "delayed", !.passed = passed]
<1>1. c \in CrTypes /\ AllListed(c) /\ Running(c) /\ Clocks(c) /\ Delays(c) /\ Waits(c) /\ Served(c)
  BY DEF CrInv
<1>2. "delayed" \in Steps
  BY DEF Steps
<1>3. passed = c.clock - c.seen /\ passed \in Nat
  <2> DEFINE t == c.clock - c.seen
  <2>1. /\ c.seen \in Nat /\ c.clock \in Nat /\ c.clock = c.seen + t /\ t \in Nat /\ t < CrTickMod
        /\ c.last = c.seen % CrTickMod
    BY <1>1, CoRoutinesAssumption DEF CrTypes, Clocks
  <2> HIDE DEF t
  <2>2. ((c.seen + t) + CrTickMod - (c.seen % CrTickMod)) % CrTickMod = t
    BY <2>1, ModIsPositive, Passed
  <2>3. passed = t
    BY <2>1, <2>2
  <2> QED
    BY <2>1, <2>3 DEF t
<1> HIDE DEF passed
<1>4. d \in CrTypes
  BY <1>1, <1>2, <1>3, Zenon DEF CrTypes
<1>5. /\ SameTime(d, c) /\ SameQueue(d, c) /\ SameRows(d, c)
      /\ d.priority = c.priority /\ d.ready = c.ready
      /\ d.step = "delayed" /\ d.current = c.current /\ d.timedOut = c.timedOut /\ d.passed = passed
  BY <1>1 DEF CrTypes, SameTime, SameQueue, SameRows
<1> HIDE DEF d
<1>6. SameLists(d, c)
  BY <1>5 DEF SameLists, Row
<1>7. AllListed(d)
  BY <1>1, <1>6, ListedSame
<1>8. Running(d)
  BY <1>1, <1>5, RunningStill DEF InFunction
<1>9. Delays(d)
  BY <1>1, <1>5, DelaysSame DEF SameTime
<1>10. Clocks(d)
  BY <1>1, <1>3, <1>5 DEF Clocks, SameTime, CrTypes
<1>11. Waits(d) /\ Served(d)
  BY <1>1, <1>5, SameWait
<1>12. CrInv(d)
  BY <1>4, <1>7, <1>8, <1>9, <1>10, <1>11 DEF CrInv
<1> QED
  BY <1>12 DEF d, passed

LEMMA EndDelayInv ==
  ASSUME NEW c, CrInv(c), c.step = "delayed", HeadDue(c)
  PROVE  CrInv(EndDelay(c))
<1> DEFINE d == EndDelay(c)  x == Head(c.delayed)
<1>1. c \in CrTypes /\ AllListed(c) /\ Running(c) /\ Clocks(c) /\ Delays(c) /\ Waits(c) /\ Served(c)
  BY DEF CrInv
<1>2. /\ Removes(CoRoutine, c.delayed, Tail(c.delayed), x) /\ x \in ToSet(c.delayed) /\ x \in CoRoutine
      /\ Removes(CoRoutine, c.pending, RemoveFirst(c.pending, x), x)
      /\ Removes(CoRoutine, c.toSend, RemoveFirst(c.toSend, x), x)
      /\ Removes(CoRoutine, c.toReceive, RemoveFirst(c.toReceive, x), x)
      /\ c.overflow \in Rows(CoRoutine)
  BY <1>1, TailRemoved, FirstRemoved DEF CrTypes, HeadDue
<1>3. /\ x \in Asleep(c) /\ x \in Created(c) /\ c.priority[x] \in Levels /\ x \notin ToSet(c.overflow)
      /\ ~IsReady(c, x)
  BY <1>1, <1>2, CreatedLevel DEF AllListed, ListedAt, Asleep
<1>4. /\ vListInsertEnd(c.ready[c.priority[x]], x) \in ReadyLists(CoRoutine)
      /\ ToSet(vListInsertEnd(c.ready[c.priority[x]], x).items) = Row(c, c.priority[x]) \cup {x}
  <2>1. c.ready[c.priority[x]] \in ReadyLists(CoRoutine) /\ x \notin ToSet(c.ready[c.priority[x]].items)
    BY <1>1, <1>3 DEF CrTypes, Levels, IsReady, Row
  <2> QED
    BY <1>2, <2>1, ReadyAdded DEF Row
<1>5. c.due[x] = c.seen /\ {c.due[x]} \in SUBSET Nat
  <2>1. c.due[x] = c.seen
    BY <1>1, EndsInTime
  <2>2. c.due[x] \in Nat
    BY <1>1, <1>2 DEF CrTypes
  <2> QED
    BY <2>1, <2>2
<1>6. d \in CrTypes
  BY <1>1, <1>2, <1>3, <1>4, <1>5, Zenon DEF CrTypes, EndDelay, prvAddCoRoutineToReadyQueue, Removes, Levels
<1>7. /\ d.pending = RemoveFirst(c.pending, x) /\ d.delayed = Tail(c.delayed)
      /\ d.toSend = RemoveFirst(c.toSend, x) /\ d.toReceive = RemoveFirst(c.toReceive, x)
      /\ d.overflow = c.overflow /\ d.priority = c.priority
      /\ d.ready = [c.ready EXCEPT ![c.priority[x]] = vListInsertEnd(@, x)]
  BY <1>1 DEF CrTypes, EndDelay, prvAddCoRoutineToReadyQueue
<1>8. /\ d.step = c.step /\ d.current = c.current /\ d.timedOut = {c.due[x]} /\ d.passed = c.passed
      /\ d.messages = c.messages /\ d.missed = c.missed /\ d.state = c.state
  BY <1>1 DEF CrTypes, EndDelay, prvAddCoRoutineToReadyQueue
<1>9. SameTime(d, c)
  BY <1>1 DEF CrTypes, EndDelay, prvAddCoRoutineToReadyQueue, SameTime
<1> HIDE DEF d
<1>10. Readied(d, c, x)
  <2>1. Removes(CoRoutine, c.overflow, d.overflow, x)
    BY <1>2, <1>3, <1>7, NotRemoved
  <2>2. /\ Row(d, c.priority[x]) = Row(c, c.priority[x]) \cup {x}
        /\ \A p \in Levels : p # c.priority[x] => Row(d, p) = Row(c, p)
    BY <1>1, <1>3, <1>4, <1>7, RowChanged
  <2> HIDE DEF x
  <2> QED
    BY <1>2, <1>7, <2>1, <2>2 DEF Readied
<1> HIDE DEF x
<1>11. AllListed(d)
  BY <1>1, <1>2, <1>3, <1>10, ListedReadied
<1>12. Running(d)
  BY <1>1, <1>8, RunningStill DEF InFunction
<1>13. Delays(d)
  BY <1>1, <1>8, <1>9, <1>10, DelaysReadied DEF SameTime
<1>14. Clocks(d)
  BY <1>1, <1>5, <1>8, <1>9 DEF Clocks, SameTime
<1>15. /\ ToSet(d.toSend) \subseteq ToSet(c.toSend) /\ ToSet(d.toReceive) \subseteq ToSet(c.toReceive)
       /\ d.toSend \in Rows(CoRoutine) /\ d.toReceive \in Rows(CoRoutine)
  BY <1>10 DEF Readied, Removes
<1>16. Waits(d)
  BY <1>1, <1>8, <1>15 DEF Waits
<1>17. Served(d)
  <2>1. Keeps(d, c, "send") /\ Keeps(d, c, "receive")
    BY <1>7, <1>8, <1>15 DEF Keeps, Trying, Waiting, Created
  <2>2. (d.toSend # <<>> => c.toSend # <<>>) /\ (d.toReceive # <<>> => c.toReceive # <<>>)
    <3>1. c.toSend \in Rows(CoRoutine) /\ c.toReceive \in Rows(CoRoutine)
      BY <1>1 DEF CrTypes
    <3>2. \A s \in Rows(CoRoutine) : s # <<>> <=> ToSet(s) # {}
      BY EmptyRow
    <3> QED
      BY <1>15, <3>1, <3>2
  <2> QED
    BY <1>1, <1>8, <2>1, <2>2, ServedMore
<1>18. CrInv(d)
  BY <1>6, <1>11, <1>12, <1>13, <1>14, <1>16, <1>17 DEF CrInv
<1> QED
  BY <1>18 DEF d

LEMMA CountTickInv ==
  ASSUME NEW c, CrInv(c), c.step = "delayed", ~HeadDue(c), c.passed > 0, c.timedOut = {}
  PROVE  CrInv(CountTick(c))
<1> DEFINE d == CountTick(c)
<1>1. c \in CrTypes /\ AllListed(c) /\ Running(c) /\ Clocks(c) /\ Delays(c) /\ Waits(c) /\ Served(c)
  BY DEF CrInv
<1>2. /\ c.seen \in Nat /\ c.clock \in Nat /\ c.passed \in Nat /\ c.seen + 1 \in Nat /\ c.passed - 1 \in Nat
      /\ c.passed <= c.clock - c.seen /\ c.clock - c.seen <= MaxBehind /\ 1 < CrTickMod
  BY <1>1, CoRoutinesAssumption DEF CrTypes, Clocks
<1>3. d \in CrTypes
  <2>1. CASE (c.seen + 1) % CrTickMod = 0
    <3>1. d = [c EXCEPT !.seen = @ + 1, !.passed = @ - 1, !.delayed = c.overflow, !.overflow = c.delayed]
      BY <2>1, Zenon DEF CountTick
    <3> HIDE DEF d
    <3> QED
      BY <1>1, <1>2, <3>1, Zenon DEF CrTypes
  <2>2. CASE (c.seen + 1) % CrTickMod # 0
    <3>1. d = [c EXCEPT !.seen = @ + 1, !.passed = @ - 1, !.delayed = @, !.overflow = @]
      BY <2>2, Zenon DEF CountTick
    <3> HIDE DEF d
    <3> QED
      BY <1>1, <1>2, <3>1, Zenon DEF CrTypes
  <2> QED
    BY <2>1, <2>2
<1>4. /\ d.clock = c.clock /\ d.seen = c.seen + 1 /\ d.passed = c.passed - 1
      /\ d.wake = c.wake /\ d.due = c.due /\ d.priority = c.priority /\ d.ready = c.ready
      /\ d.pending = c.pending /\ d.step = c.step /\ d.current = c.current /\ d.timedOut = c.timedOut
  BY <1>1 DEF CrTypes, CountTick
<1>5. SameQueue(d, c)
  BY <1>1 DEF CrTypes, CountTick, SameQueue
<1>6. IF (c.seen + 1) % CrTickMod = 0 THEN d.delayed = c.overflow /\ d.overflow = c.delayed
      ELSE d.delayed = c.delayed /\ d.overflow = c.overflow
  BY <1>1 DEF CrTypes, CountTick
<1> HIDE DEF d
<1>7. AllListed(d)
  <2>1. CASE (c.seen + 1) % CrTickMod = 0
    <3>1. Swapped(d, c)
      BY <1>4, <1>5, <1>6, <2>1 DEF Swapped, SameQueue, Row
    <3> QED
      BY <1>1, <3>1, ListedSwapped
  <2>2. CASE (c.seen + 1) % CrTickMod # 0
    <3>1. SameLists(d, c)
      BY <1>4, <1>5, <1>6, <2>2 DEF SameLists, SameRows, SameQueue, Row
    <3> QED
      BY <1>1, <3>1, ListedSame
  <2> QED
    BY <2>1, <2>2
<1>8. Running(d)
  BY <1>1, <1>4, RunningStill DEF InFunction
<1>9. Delays(d)
  <2>1. Ticked(d, c)
    BY <1>4, <1>6, Zenon DEF Ticked
  <2> QED
    BY <1>1, <1>2, <1>4, <2>1, DelaysCounted
<1>10. Clocks(d)
  BY <1>1, <1>2, <1>4, CoRoutinesAssumption DEF Clocks
<1>11. Waits(d) /\ Served(d)
  BY <1>1, <1>4, <1>5, SameWait
<1>12. CrInv(d)
  BY <1>3, <1>7, <1>8, <1>9, <1>10, <1>11 DEF CrInv
<1> QED
  BY <1>12 DEF d

LEMMA ToSelectInv ==
  ASSUME NEW c, CrInv(c), c.step = "delayed", ~HeadDue(c), c.timedOut = {}
  PROVE  CrInv([c EXCEPT !.last = c.seen % CrTickMod, !.step = "select"])
<1> DEFINE last == c.seen % CrTickMod  d == [c EXCEPT !.last = last, !.step = "select"]
<1>1. c \in CrTypes /\ AllListed(c) /\ Running(c) /\ Clocks(c) /\ Delays(c) /\ Waits(c) /\ Served(c)
  BY DEF CrInv
<1>2. "select" \in Steps
  BY DEF Steps
<1>3. last \in Nat /\ last < CrTickMod /\ c.seen \in Nat /\ c.seen - last \in Nat /\ CrTickMod \in Nat
  <2>1. c.seen \in Nat /\ 0 \in Nat /\ 0 < CrTickMod
    BY <1>1, ModIsPositive DEF CrTypes
  <2> QED
    BY <2>1, ModIsPositive, CountAfter
<1>4. /\ c.wake \in [CoRoutine -> Nat] /\ c.due \in [CoRoutine -> Nat]
      /\ c.delayed \in Rows(CoRoutine) /\ c.overflow \in Rows(CoRoutine)
      /\ ToSet(c.delayed) \subseteq CoRoutine /\ ToSet(c.overflow) \subseteq CoRoutine
  BY <1>1, EmptyRow DEF CrTypes
<1>5. \A x \in ToSet(c.delayed) : last < c.wake[x]
  BY <1>1, <1>3, <1>4, FirstIsNext DEF HeadDue, Delays
<1>6. ASSUME NEW x \in Asleep(c)
      PROVE  c.seen < c.due[x]
  <2>1. x \in CoRoutine /\ c.wake[x] \in Nat /\ c.due[x] \in Nat /\ c.wake[x] < CrTickMod
    BY <1>1, <1>4 DEF Asleep, Delays
  <2>2. Base(c) = c.seen - last
    BY DEF Base
  <2>3. c.seen - last + CrTickMod > c.seen
    BY <1>3
  <2> HIDE DEF last
  <2>4. CASE x \in ToSet(c.delayed)
    BY <1>1, <1>3, <1>5, <2>1, <2>2, <2>4 DEF Delays
  <2>5. CASE x \in ToSet(c.overflow)
    BY <1>1, <1>3, <2>1, <2>2, <2>3, <2>5 DEF Delays
  <2> QED
    BY <2>4, <2>5 DEF Asleep
<1>7. d \in CrTypes
  BY <1>1, <1>2, <1>3, Zenon DEF CrTypes
<1>8. /\ SameQueue(d, c) /\ SameRows(d, c)
      /\ d.priority = c.priority /\ d.ready = c.ready
      /\ d.clock = c.clock /\ d.seen = c.seen /\ d.last = last /\ d.wake = c.wake /\ d.due = c.due
      /\ d.step = "select" /\ d.current = c.current /\ d.timedOut = c.timedOut
  BY <1>1 DEF CrTypes, SameQueue, SameRows
<1> HIDE DEF d
<1>9. SameLists(d, c)
  BY <1>8 DEF SameLists, Row
<1>10. AllListed(d)
  BY <1>1, <1>9, ListedSame
<1>11. Running(d)
  BY <1>1, <1>8, RunningStill DEF InFunction
<1>12. Delays(d)
  <2>1. ToSet(d.delayed) = ToSet(c.delayed) /\ ToSet(d.overflow) = ToSet(c.overflow)
    BY <1>8 DEF SameRows
  <2>2. \A x \in Asleep(d) : c.seen < c.due[x]
    BY <1>6, <2>1 DEF Asleep
  <2>3. Rising(d.delayed, d.wake) /\ Rising(d.overflow, d.wake)
    BY <1>1, <1>8 DEF Delays, SameRows
  <2> QED
    BY <1>1, <1>8, <2>1, <2>2, <2>3, DelaysFewer
<1>13. Clocks(d)
  BY <1>1, <1>8 DEF Clocks
<1>14. Waits(d) /\ Served(d)
  BY <1>1, <1>8, SameWait
<1>15. CrInv(d)
  BY <1>7, <1>10, <1>11, <1>12, <1>13, <1>14 DEF CrInv
<1> QED
  BY <1>15 DEF d, last

LEMMA SelectNoneInv ==
  ASSUME NEW c, CrInv(c), c.step = "select"
  PROVE  CrInv([c EXCEPT !.top = 0, !.step = "pending"])
<1> DEFINE d == [c EXCEPT !.top = 0, !.step = "pending"]
<1>1. c \in CrTypes /\ AllListed(c) /\ Running(c) /\ Clocks(c) /\ Delays(c) /\ Waits(c) /\ Served(c)
  BY DEF CrInv
<1>2. "pending" \in Steps /\ 0 \in 0..(CrPriorities - 1)
  BY CoRoutinesAssumption DEF Steps
<1>3. d \in CrTypes
  BY <1>1, <1>2, Zenon DEF CrTypes
<1>4. /\ SameTime(d, c) /\ SameQueue(d, c) /\ SameRows(d, c)
      /\ d.priority = c.priority /\ d.ready = c.ready
      /\ d.step = "pending" /\ d.current = c.current /\ d.timedOut = c.timedOut
  BY <1>1 DEF CrTypes, SameTime, SameQueue, SameRows
<1> HIDE DEF d
<1>5. SameLists(d, c)
  BY <1>4 DEF SameLists, Row
<1>6. AllListed(d)
  BY <1>1, <1>5, ListedSame
<1>7. Running(d)
  BY <1>1, <1>4, RunningStill DEF InFunction
<1>8. Delays(d)
  BY <1>1, <1>4, DelaysSame DEF SameTime
<1>9. Clocks(d)
  BY <1>1, <1>4 DEF Clocks, SameTime
<1>10. Waits(d) /\ Served(d)
  BY <1>1, <1>4, SameWait
<1>11. CrInv(d)
  BY <1>3, <1>6, <1>7, <1>8, <1>9, <1>10 DEF CrInv
<1> QED
  BY <1>11 DEF d

\* The one that is chosen, at the priority p.
Chosen(c, p) ==
  LET walked == NextEntry(c.ready[p])
  IN  [c EXCEPT !.top = p, !.ready[p] = walked, !.current = Current(walked), !.step = "run"]

LEMMA ChosenInv ==
  ASSUME NEW c, CrInv(c), c.step = "select", NEW p \in 0..c.top, c.ready[p].items # <<>>
  PROVE  CrInv(Chosen(c, p))
<1> DEFINE d == Chosen(c, p)  walked == NextEntry(c.ready[p])  x == Current(walked)
<1>1. c \in CrTypes /\ AllListed(c) /\ Running(c) /\ Clocks(c) /\ Delays(c) /\ Waits(c) /\ Served(c)
  BY DEF CrInv
<1>2. p \in 0..(CrPriorities - 1) /\ p \in Levels /\ c.ready[p] \in ReadyLists(CoRoutine)
  BY <1>1, CoRoutinesAssumption DEF CrTypes, Levels
<1>3. walked \in ReadyLists(CoRoutine) /\ walked.items = c.ready[p].items /\ x \in Row(c, p)
  BY <1>2, ReadyWalk DEF Row
<1>4. x \in CoRoutine /\ x \in Created(c) /\ c.priority[x] = p /\ x \in CoRoutine \cup {NoCoRoutine}
  <2>1. x \in CoRoutine
    BY <1>2, <1>3, EmptyRow DEF ReadyLists, Row
  <2>2. c.priority[x] = p
    BY <1>1, <1>2, <1>3, <2>1 DEF AllListed, ListedAt, Levels
  <2> QED
    BY <1>1, <1>2, <2>1, <2>2, CreatedLevel
<1>5. "run" \in Steps
  BY DEF Steps
<1>6. d \in CrTypes
  BY <1>1, <1>2, <1>3, <1>4, <1>5, Zenon DEF CrTypes, Chosen
<1>7. /\ SameTime(d, c) /\ SameQueue(d, c) /\ SameRows(d, c)
      /\ d.priority = c.priority /\ d.ready = [c.ready EXCEPT ![p] = walked]
      /\ d.step = "run" /\ d.current = x /\ d.timedOut = c.timedOut
  BY <1>1, <1>2 DEF CrTypes, SameTime, SameQueue, SameRows, Chosen
<1> HIDE DEF d, walked, x
<1>8. \A q \in Levels : Row(d, q) = Row(c, q)
  BY <1>1, <1>2, <1>3, <1>7, RowChanged DEF Row
<1>9. SameLists(d, c)
  BY <1>7, <1>8 DEF SameLists
<1>10. AllListed(d)
  BY <1>1, <1>9, ListedSame
<1>11. Running(d)
  BY <1>2, <1>3, <1>4, <1>7, <1>8 DEF Running, InFunction, Created, IsReady
<1>12. Delays(d)
  BY <1>1, <1>7, DelaysSame DEF SameTime
<1>13. Clocks(d)
  BY <1>1, <1>7 DEF Clocks, SameTime
<1>14. Waits(d) /\ Served(d)
  BY <1>1, <1>7, SameWait
<1>15. CrInv(d)
  BY <1>6, <1>10, <1>11, <1>12, <1>13, <1>14 DEF CrInv
<1> QED
  BY <1>15 DEF d

LEMMA HighestIs ==
  ASSUME cr \in CrTypes, Occupied # {}
  PROVE  Highest \in 0..cr.top /\ cr.ready[Highest].items # <<>>
<1>1. cr.top \in Nat /\ Occupied \subseteq 0..cr.top
  BY CoRoutinesAssumption DEF CrTypes, Occupied
<1> DEFINE Depths == {cr.top - p : p \in Occupied}
<1>2. Depths \subseteq Nat /\ Depths # {}
  <2>1. \A o \in Occupied : cr.top - o \in Nat
    BY <1>1
  <2>2. PICK o \in Occupied : TRUE
    OBVIOUS
  <2>3. cr.top - o \in Depths
    BY <2>2
  <2>4. \A d \in Depths : d \in Nat
    BY <2>1, Zenon
  <2> QED
    BY <2>3, <2>4
<1>3. PICK n \in Depths : \A m \in Depths : n <= m
  BY <1>2, LeastElement
<1>4. PICK p \in Occupied : n = cr.top - p
  BY <1>3
<1>5. \A o \in Occupied : o <= p
  <2> SUFFICES ASSUME NEW o \in Occupied PROVE o <= p
    OBVIOUS
  <2>1. cr.top - p <= cr.top - o
    BY <1>3, <1>4
  <2> QED
    BY <1>1, <2>1
<1>6. Highest \in Occupied
  BY <1>4, <1>5 DEF Highest
<1> QED
  BY <1>6 DEF Occupied

LEMMA CreatedInv ==
  ASSUME NEW c, CrInv(c), c.step = "none", NEW x \in CoRoutine, c.priority[x] = NotCreated,
         NEW uxPriority \in 0..CrPriorities
  PROVE  CrInv(CrCreated(c, x, uxPriority))
<1> DEFINE p == IF uxPriority >= CrPriorities THEN CrPriorities - 1 ELSE uxPriority
           d == CrCreated(c, x, uxPriority)
<1>1. c \in CrTypes /\ AllListed(c) /\ Running(c) /\ Clocks(c) /\ Delays(c) /\ Waits(c) /\ Served(c)
  BY DEF CrInv
<1>2. p \in Levels /\ p \in 0..(CrPriorities - 1) /\ p \in 0..CrPriorities
  BY CoRoutinesAssumption DEF Levels
<1>3. /\ vListInsertEnd(c.ready[p], x) \in ReadyLists(CoRoutine)
      /\ ToSet(vListInsertEnd(c.ready[p], x).items) = Row(c, p) \cup {x}
  <2>1. c.ready[p] \in ReadyLists(CoRoutine)
    BY <1>1, <1>2 DEF CrTypes
  <2>2. x \notin ToSet(c.ready[p].items)
    BY <1>1, <1>2, CoRoutinesAssumption DEF AllListed, ListedAt, NotCreated, Row, Levels
  <2> QED
    BY <2>1, <2>2, ReadyAdded DEF Row
<1> HIDE DEF p
<1> DEFINE b == [c EXCEPT !.priority[x] = p, !.current = IF @ = NoCoRoutine THEN x ELSE @]
<1>4. d = prvAddCoRoutineToReadyQueue(b, x)
  BY DEF CrCreated, p
<1>5. /\ b.priority = [c.priority EXCEPT ![x] = p] /\ b.priority[x] = p /\ b.ready = c.ready
      /\ b.top = c.top /\ b.current \in CoRoutine \cup {NoCoRoutine}
  BY <1>1, <1>2 DEF CrTypes
<1>6. b \in CrTypes
  <2>1. CASE c.current = NoCoRoutine
    <3>1. b = [c EXCEPT !.priority[x] = p, !.current = x]
      BY <2>1, Zenon
    <3> QED
      BY <1>1, <1>2, <3>1, Zenon DEF CrTypes
  <2>2. CASE c.current # NoCoRoutine
    <3>1. b = [c EXCEPT !.priority[x] = p, !.current = @]
      BY <2>2, Zenon
    <3> QED
      BY <1>1, <1>2, <3>1, Zenon DEF CrTypes
  <2> QED
    BY <2>1, <2>2
<1>7. /\ SameTime(b, c) /\ SameQueue(b, c) /\ SameRows(b, c) /\ b.step = c.step /\ b.timedOut = c.timedOut
  BY <1>1 DEF CrTypes, SameTime, SameQueue, SameRows
<1> HIDE DEF d, b
<1>8. d \in CrTypes
  BY <1>2, <1>3, <1>4, <1>5, <1>6, Zenon DEF CrTypes, prvAddCoRoutineToReadyQueue
<1>9. /\ d.priority = b.priority /\ d.ready = [c.ready EXCEPT ![p] = vListInsertEnd(@, x)]
      /\ d.current = b.current /\ d.step = b.step /\ d.timedOut = b.timedOut
      /\ SameTime(d, b) /\ SameQueue(d, b) /\ SameRows(d, b)
  BY <1>4, <1>5, <1>6 DEF CrTypes, prvAddCoRoutineToReadyQueue, SameTime, SameQueue, SameRows
<1>10. SameTime(d, c) /\ SameQueue(d, c) /\ SameRows(d, c)
  BY <1>7, <1>9 DEF SameTime, SameQueue, SameRows
<1>11. Enters(d, c, x, p)
  <2> DEFINE list == vListInsertEnd(c.ready[p], x)
  <2>1. d.ready = [c.ready EXCEPT ![p] = list] /\ ToSet(list.items) = Row(c, p) \cup {x}
    BY <1>3, <1>9
  <2> HIDE DEF list
  <2>2. Row(d, p) = ToSet(list.items) /\ \A q \in Levels : q # p => Row(d, q) = Row(c, q)
    BY <1>1, <1>2, <2>1, RowChanged
  <2> QED
    BY <1>2, <1>5, <1>9, <1>10, <2>1, <2>2 DEF Enters
<1>12. AllListed(d)
  BY <1>1, <1>11, ListedEnters
<1>13. Running(d)
  BY <1>7, <1>9 DEF Running, InFunction
<1>14. Delays(d)
  BY <1>1, <1>7, <1>9, <1>10, DelaysSame DEF SameTime
<1>15. Clocks(d)
  BY <1>1, <1>7, <1>9, <1>10 DEF Clocks, SameTime
<1>16. Waits(d)
  BY <1>1, <1>7, <1>9, <1>10 DEF Waits, SameQueue
<1>17. Served(d)
  <2>1. \A y \in CoRoutine : y \in Created(c) => y \in Created(d)
    BY <1>1, <1>2, <1>11, CoRoutinesAssumption DEF Created, Enters, CrTypes, NotCreated, Levels
  <2>2. Keeps(d, c, "send") /\ Keeps(d, c, "receive")
    BY <1>10, <2>1 DEF Keeps, Trying, Waiting, SameQueue, Created
  <2> QED
    BY <1>1, <1>10, <2>2, ServedMore DEF SameQueue
<1>18. CrInv(d)
  BY <1>8, <1>12, <1>13, <1>14, <1>15, <1>16, <1>17 DEF CrInv
<1> QED
  BY <1>18 DEF d

LEMMA TickInv ==
  ASSUME NEW c, CrInv(c), c.clock - c.seen < MaxBehind, c.timedOut = {}
  PROVE  CrInv([c EXCEPT !.clock = @ + 1])
<1> DEFINE d == [c EXCEPT !.clock = @ + 1]
<1>1. c \in CrTypes /\ AllListed(c) /\ Running(c) /\ Clocks(c) /\ Delays(c) /\ Waits(c) /\ Served(c)
  BY DEF CrInv
<1>2. c.clock \in Nat /\ c.clock + 1 \in Nat /\ c.seen \in Nat
  BY <1>1 DEF CrTypes
<1>3. d \in CrTypes
  BY <1>1, <1>2, Zenon DEF CrTypes
<1>4. /\ SameQueue(d, c) /\ SameRows(d, c)
      /\ d.clock = c.clock + 1 /\ d.seen = c.seen /\ d.last = c.last /\ d.passed = c.passed
      /\ d.wake = c.wake /\ d.due = c.due
      /\ d.priority = c.priority /\ d.ready = c.ready
      /\ d.step = c.step /\ d.current = c.current /\ d.timedOut = c.timedOut
  BY <1>1 DEF CrTypes, SameQueue, SameRows
<1> HIDE DEF d
<1>5. SameLists(d, c)
  BY <1>4 DEF SameLists, Row
<1>6. AllListed(d)
  BY <1>1, <1>5, ListedSame
<1>7. Running(d)
  BY <1>1, <1>4 DEF Running, InFunction, Created, IsReady, Row
<1>8. Delays(d)
  BY <1>1, <1>4, DelaysSame
<1>9. Clocks(d)
  BY <1>1, <1>2, <1>4, CoRoutinesAssumption DEF Clocks, CrTypes
<1>10. Waits(d) /\ Served(d)
  BY <1>1, <1>4, SameWait
<1>11. CrInv(d)
  BY <1>3, <1>6, <1>7, <1>8, <1>9, <1>10 DEF CrInv
<1> QED
  BY <1>11 DEF d

-----------------------------------------------------------------------------
(* The functions of the co-routines                                        *)

\* The rest of c, when x falls asleep.
SameOthers(d, c) ==
  /\ d.clock = c.clock /\ d.last = c.last /\ d.priority = c.priority /\ d.pending = c.pending
  /\ d.toSend = c.toSend /\ d.toReceive = c.toReceive
  /\ d.messages = c.messages /\ d.missed = c.missed /\ d.timedOut = c.timedOut
  /\ d.current = c.current /\ d.step = c.step /\ d.state = c.state

LEMMA AddDelayIs ==
  ASSUME NEW c, CrInv(c), InFunction(c), NEW ticks \in CrWaits, ticks > 0
  PROVE  LET d == AddDelay(c, ticks)
         IN  /\ d \in CrTypes /\ SameOthers(d, c) /\ Delayed(d, c, c.current, ticks)
             /\ Slept(d, c, c.current)
<1> DEFINE d == AddDelay(c, ticks)  x == c.current  p == c.priority[x]
           w == (c.seen + ticks) % CrTickMod  wake == [c.wake EXCEPT ![x] = w]
           ready == uxListRemove(c.ready[p], x)  due == c.seen + ticks
<1>1. c \in CrTypes /\ AllListed(c) /\ Running(c) /\ Clocks(c) /\ Delays(c) /\ Waits(c) /\ Served(c)
  BY DEF CrInv
<1>2. x \in CoRoutine /\ x \in Created(c) /\ IsReady(c, x) /\ p \in Levels /\ x \notin Asleep(c)
  <2>1. x \in Created(c) /\ IsReady(c, x)
    BY <1>1 DEF Running
  <2>2. x \in CoRoutine
    BY <2>1 DEF Created
  <2> HIDE DEF x
  <2> QED
    BY <1>1, <2>1, <2>2, CreatedLevel DEF AllListed, ListedAt
<1>3. ready \in ReadyLists(CoRoutine) /\ ToSet(ready.items) = Row(c, p) \ {x}
  <2>1. c.ready[p] \in ReadyLists(CoRoutine)
    BY <1>1, <1>2 DEF CrTypes, Levels
  <2>2. x \in ToSet(c.ready[p].items)
    BY <1>2 DEF IsReady, Row
  <2> QED
    BY <2>1, <2>2, ReadyRemove DEF Row
<1>4. c.seen \in Nat /\ ticks \in Nat /\ due \in Nat /\ w \in Nat
  <2>1. c.seen \in Nat /\ ticks \in Nat /\ ticks < CrTickMod
    BY <1>1, CoRoutinesAssumption DEF CrTypes
  <2>2. c.seen + ticks \in Nat
    BY <2>1
  <2> QED
    BY <2>1, <2>2, ModIsPositive, Divides
<1>5. wake \in [CoRoutine -> Nat] /\ c.delayed \in Rows(CoRoutine) /\ c.overflow \in Rows(CoRoutine)
  BY <1>1, <1>2, <1>4 DEF CrTypes
<1> DEFINE b == [c EXCEPT !.ready[p] = ready, !.wake[x] = w, !.due[x] = due]
           o == vListInsert(c.overflow, x, wake)  l == vListInsert(c.delayed, x, wake)
<1>6. Inserts(CoRoutine, c.overflow, o, x, wake) /\ Inserts(CoRoutine, c.delayed, l, x, wake)
  BY <1>2, <1>5, ListInsert, Zenon
<1>7. o \in Rows(CoRoutine) /\ l \in Rows(CoRoutine)
  BY <1>2, <1>6 DEF Inserts, Asleep
<1> HIDE DEF ready, w, due
<1>8. b \in CrTypes
  BY <1>1, <1>3, <1>4, Zenon DEF CrTypes
<1>9. /\ SameOthers(b, c) /\ b.seen = c.seen /\ b.wake = wake /\ b.due = [c.due EXCEPT ![x] = due]
      /\ b.ready = [c.ready EXCEPT ![p] = ready] /\ b.delayed = c.delayed /\ b.overflow = c.overflow
  BY <1>1 DEF CrTypes, SameOthers
<1>10. d = IF w < c.seen % CrTickMod
           THEN [b EXCEPT !.overflow = vListInsert(@, x, b.wake)]
           ELSE [b EXCEPT !.delayed = vListInsert(@, x, b.wake)]
  BY Zenon DEF AddDelay, ready, w, due
<1> HIDE DEF b, d, o, l, wake
<1>11. /\ d \in CrTypes /\ SameOthers(d, b) /\ d.seen = b.seen /\ d.wake = b.wake /\ d.due = b.due
       /\ d.ready = b.ready
       /\ IF w < c.seen % CrTickMod THEN d.delayed = c.delayed /\ d.overflow = o
          ELSE d.delayed = l /\ d.overflow = c.overflow
  <2>1. CASE w < c.seen % CrTickMod
    <3>1. d = [b EXCEPT !.overflow = o]
      BY <1>9, <1>10, <2>1, Zenon DEF o
    <3>2. d \in CrTypes
      BY <1>7, <1>8, <3>1, Zenon DEF CrTypes
    <3>3. /\ SameOthers(d, b) /\ d.seen = b.seen /\ d.wake = b.wake /\ d.due = b.due
          /\ d.ready = b.ready /\ d.delayed = c.delayed /\ d.overflow = o
      BY <1>8, <1>9, <3>1 DEF CrTypes, SameOthers
    <3> QED
      BY <2>1, <3>2, <3>3, Zenon
  <2>2. CASE ~(w < c.seen % CrTickMod)
    <3>1. d = [b EXCEPT !.delayed = l]
      BY <1>9, <1>10, <2>2, Zenon DEF l
    <3>2. d \in CrTypes
      BY <1>7, <1>8, <3>1, Zenon DEF CrTypes
    <3>3. /\ SameOthers(d, b) /\ d.seen = b.seen /\ d.wake = b.wake /\ d.due = b.due
          /\ d.ready = b.ready /\ d.delayed = l /\ d.overflow = c.overflow
      BY <1>8, <1>9, <3>1 DEF CrTypes, SameOthers
    <3> QED
      BY <2>2, <3>2, <3>3, Zenon
  <2> QED
    BY <2>1, <2>2, Zenon
<1>12. SameOthers(d, c)
  BY <1>9, <1>11 DEF SameOthers
<1>13. Delayed(d, c, x, ticks)
  <2>1. d.seen = c.seen /\ d.due = [c.due EXCEPT ![x] = c.seen + ticks]
    BY <1>9, <1>11 DEF due
  <2>2. d.wake = wake /\ d.wake = [c.wake EXCEPT ![x] = (c.seen + ticks) % CrTickMod]
    BY <1>9, <1>11 DEF wake, w
  <2>3. IF (c.seen + ticks) % CrTickMod < c.seen % CrTickMod
        THEN d.delayed = c.delayed /\ Inserts(CoRoutine, c.overflow, d.overflow, x, d.wake)
        ELSE Inserts(CoRoutine, c.delayed, d.delayed, x, d.wake) /\ d.overflow = c.overflow
    BY <1>6, <1>11, <2>2, Zenon DEF w
  <2> HIDE DEF x
  <2> QED
    BY <2>1, <2>2, <2>3, Zenon DEF Delayed
<1>14. Slept(d, c, x)
  <2>1. /\ Row(d, p) = Row(c, p) \ {x} /\ \A q \in Levels : q # p => Row(d, q) = Row(c, q)
    BY <1>1, <1>2, <1>3, <1>9, <1>11, RowChanged
  <2>2. \/ ToSet(d.delayed) = ToSet(c.delayed) \cup {x} /\ d.overflow = c.overflow
        \/ d.delayed = c.delayed /\ ToSet(d.overflow) = ToSet(c.overflow) \cup {x}
    BY <1>6, <1>11, Zenon DEF Inserts
  <2> HIDE DEF x
  <2> QED
    BY <1>12, <2>1, <2>2 DEF Slept, SameOthers, Gains
<1> QED
  BY <1>11, <1>12, <1>13, <1>14 DEF d

\* One that has fallen asleep returns to the scheduler.
Blocked(e, d, x) ==
  /\ SameTime(e, d) /\ e.timedOut = d.timedOut /\ e.priority = d.priority /\ e.ready = d.ready
  /\ e.delayed = d.delayed /\ e.overflow = d.overflow /\ e.pending = d.pending
  /\ e.current = d.current /\ e.step = "pending"
  /\ \/ Gains(e.toSend, d.toSend, x) /\ e.toReceive = d.toReceive
     \/ e.toSend = d.toSend /\ Gains(e.toReceive, d.toReceive, x)

LEMMA BlockedInv ==
  ASSUME NEW c, CrInv(c), InFunction(c), NEW ticks \in CrWaits, ticks > 0,
         NEW e, Blocked(e, AddDelay(c, ticks), c.current)
  PROVE  AllListed(e) /\ Running(e) /\ Clocks(e) /\ Delays(e)
<1> DEFINE d == AddDelay(c, ticks)  x == c.current
<1>1. c \in CrTypes /\ AllListed(c) /\ Running(c) /\ Clocks(c) /\ Delays(c) /\ Waits(c) /\ Served(c)
  BY DEF CrInv
<1>2. d \in CrTypes /\ SameOthers(d, c) /\ Delayed(d, c, x, ticks) /\ Slept(d, c, x)
  BY AddDelayIs
<1>3. x \in Created(c) /\ IsReady(c, x) /\ x \in CoRoutine
  BY <1>1 DEF Running, Created
<1>4. x \notin Asleep(c)
  BY <1>1, <1>3 DEF AllListed, ListedAt
<1>5. Blocked(e, d, x)
  OBVIOUS
<1> HIDE DEF d, x
<1>6. AllListed(e)
  <2>1. Slept(e, c, x)
    <3>1. \A p \in Levels : Row(e, p) = Row(d, p)
      BY <1>5 DEF Blocked, Row
    <3>2. c.priority[x] \in Levels
      BY <1>1, <1>3, CreatedLevel
    <3> QED
      BY <1>2, <1>5, <3>1, <3>2 DEF Blocked, Slept, SameOthers, Gains
  <2> QED
    BY <1>1, <1>3, <2>1, ListedSlept
<1>7. Running(e)
  BY <1>1, <1>2, <1>3, <1>5 DEF Running, InFunction, Blocked, SameOthers, x
<1>8. Clocks(e)
  <2>1. /\ e.seen = c.seen /\ e.clock = c.clock /\ e.last = c.last /\ e.timedOut = c.timedOut
        /\ e.step = "pending"
    BY <1>2, <1>5 DEF Blocked, SameOthers, SameTime, Delayed
  <2> QED
    BY <1>1, <2>1 DEF Clocks, InFunction
<1>9. Delays(e)
  <2>1. Delayed(e, c, x, ticks)
    BY <1>2, <1>5 DEF Blocked, SameTime, Delayed
  <2>2. ticks \in Nat /\ 0 < ticks /\ ticks < CrTickMod
    BY CoRoutinesAssumption
  <2>3. c.step # "delayed"
    BY DEF InFunction
  <2> QED
    BY <1>1, <1>3, <1>4, <2>1, <2>2, <2>3, DelaysSlept
<1> QED
  BY <1>6, <1>7, <1>8, <1>9

LEMMA DelayInv ==
  ASSUME NEW c, CrInv(c), InFunction(c), NEW ticks \in CrWaits, ticks > 0,
         c.state[c.current] = "start"
  PROVE  CrInv(Returns(AddDelay(c, ticks), "start"))
<1> DEFINE d == AddDelay(c, ticks)  x == c.current  e == Returns(d, "start")
<1>1. c \in CrTypes /\ AllListed(c) /\ Running(c) /\ Clocks(c) /\ Delays(c) /\ Waits(c) /\ Served(c)
  BY DEF CrInv
<1>2. d \in CrTypes /\ SameOthers(d, c)
  BY AddDelayIs
<1>3. "pending" \in Steps /\ "start" \in States /\ x \in CoRoutine
  BY <1>1 DEF Steps, States, Running, Created
<1> HIDE DEF d
<1>4. e \in CrTypes
  BY <1>2, <1>3, Zenon DEF Returns, CrTypes
<1>5. /\ e.toSend = d.toSend /\ e.toReceive = d.toReceive /\ e.step = "pending"
      /\ e.messages = d.messages /\ e.missed = d.missed /\ e.state = [d.state EXCEPT ![d.current] = "start"]
      /\ e.priority = d.priority
  BY <1>2 DEF Returns, CrTypes
<1>6. Blocked(e, d, x)
  BY <1>2, <1>5 DEF Returns, CrTypes, Blocked, SameTime, Gains
<1> HIDE DEF e
<1>7. AllListed(e) /\ Running(e) /\ Clocks(e) /\ Delays(e)
  BY <1>6, BlockedInv DEF d
<1>8. SameQueue(e, c) /\ e.priority = c.priority
  <2>1. d.state = c.state /\ d.current = x /\ c.state \in [CoRoutine -> States] /\ c.state[x] = "start"
    BY <1>1, <1>2 DEF SameOthers, CrTypes
  <2>2. e.state = c.state
    BY <1>5, <2>1
  <2> QED
    BY <1>2, <1>5, <2>2 DEF SameQueue, SameOthers
<1>9. Waits(e) /\ Served(e)
  BY <1>1, <1>5, <1>8, SameWait
<1>10. CrInv(e)
  BY <1>4, <1>7, <1>9 DEF CrInv
<1> QED
  BY <1>10 DEF e, d

LEMMA OrderIs ==
  ASSUME NEW c \in CrTypes
  PROVE  EventOrder(c) \in [CoRoutine -> Nat]
BY CoRoutinesAssumption DEF CrTypes, EventOrder

LEMMA WaitToSendInv ==
  ASSUME NEW c, CrInv(c), InFunction(c), NEW ticks \in CrWaits, ticks > 0,
         c.state[c.current] = "start", c.messages = CrLength
  PROVE  CrInv(Returns(WaitToSend(c, ticks), "send"))
<1> DEFINE d == AddDelay(c, ticks)  x == c.current  e == Returns(WaitToSend(c, ticks), "send")
           s == vListInsert(c.toSend, x, EventOrder(c))
           f == [d EXCEPT !.toSend = s]
<1>1. c \in CrTypes /\ AllListed(c) /\ Running(c) /\ Clocks(c) /\ Delays(c) /\ Waits(c) /\ Served(c)
  BY DEF CrInv
<1>2. d \in CrTypes /\ SameOthers(d, c)
  BY AddDelayIs
<1>3. "pending" \in Steps /\ "send" \in States /\ x \in CoRoutine /\ x \notin Waiting(c) /\ x \notin Asleep(c)
  <2>1. x \in Created(c) /\ IsReady(c, x)
    BY <1>1 DEF Running
  <2>2. x \in CoRoutine
    BY <2>1 DEF Created
  <2> HIDE DEF x
  <2>3. x \notin Waiting(c) /\ x \notin Asleep(c)
    BY <1>1, <2>1, <2>2 DEF AllListed, ListedAt
  <2> QED
    BY <2>2, <2>3 DEF Steps, States
<1>4. s \in Rows(CoRoutine) /\ ToSet(s) = ToSet(c.toSend) \cup {x}
  <2>1. c.toSend \in Rows(CoRoutine) /\ EventOrder(c) \in [CoRoutine -> Nat]
    BY <1>1, OrderIs DEF CrTypes
  <2>2. Inserts(CoRoutine, c.toSend, s, x, EventOrder(c))
    BY <1>3, <2>1, ListInsert, Zenon
  <2> QED
    BY <1>3, <2>2 DEF Inserts, Waiting
<1>5. WaitToSend(c, ticks) = f
  BY <1>2 DEF WaitToSend, SameOthers
<1> HIDE DEF d, s
<1>6. f \in CrTypes
  BY <1>2, <1>4, Zenon DEF CrTypes
<1>7. /\ f.toSend = s /\ f.toReceive = d.toReceive /\ f.messages = d.messages /\ f.missed = d.missed
      /\ f.state = d.state /\ f.priority = d.priority /\ f.current = d.current
      /\ SameTime(f, d) /\ f.timedOut = d.timedOut /\ f.ready = d.ready
      /\ f.delayed = d.delayed /\ f.overflow = d.overflow /\ f.pending = d.pending
  BY <1>2 DEF CrTypes, SameTime
<1>8. e = Returns(f, "send")
  BY <1>5
<1> HIDE DEF e, f
<1>9. e \in CrTypes
  BY <1>3, <1>6, <1>8, Zenon DEF Returns, CrTypes
<1>10. /\ e.toSend = s /\ e.toReceive = d.toReceive /\ e.step = "pending"
       /\ e.messages = d.messages /\ e.missed = d.missed
       /\ e.state = [d.state EXCEPT ![d.current] = "send"] /\ e.priority = d.priority
  BY <1>6, <1>7, <1>8 DEF Returns, CrTypes
<1>11. Blocked(e, d, x)
  <2>1. /\ SameTime(e, f) /\ e.timedOut = f.timedOut /\ e.ready = f.ready /\ e.current = f.current
        /\ e.delayed = f.delayed /\ e.overflow = f.overflow /\ e.pending = f.pending
    BY <1>6, <1>8 DEF Returns, CrTypes, SameTime
  <2>2. Gains(e.toSend, d.toSend, x)
    BY <1>2, <1>4, <1>10 DEF Gains, SameOthers
  <2> HIDE DEF x
  <2> QED
    BY <1>7, <1>10, <2>1, <2>2 DEF Blocked, SameTime
<1>12. AllListed(e) /\ Running(e) /\ Clocks(e) /\ Delays(e)
  BY <1>11, BlockedInv DEF d
<1>13. /\ ToSet(e.toSend) = ToSet(c.toSend) \cup {x} /\ e.toReceive = c.toReceive
       /\ e.messages = c.messages /\ e.missed = c.missed /\ e.priority = c.priority
       /\ e.state = [c.state EXCEPT ![x] = "send"]
  BY <1>2, <1>4, <1>10 DEF SameOthers
<1>14. c.state \in [CoRoutine -> States] /\ c.state[x] = "start"
  BY <1>1 DEF CrTypes
<1>15. \A y \in CoRoutine : y # x => e.state[y] = c.state[y]
  BY <1>13, <1>14
<1>16. e.state[x] = "send"
  BY <1>3, <1>13, <1>14
<1> HIDE DEF x
<1>17. Waits(e)
  <2>1. ToSet(c.toSend) \subseteq CoRoutine /\ ToSet(c.toReceive) \subseteq CoRoutine
    BY <1>1, EmptyRow DEF CrTypes
  <2>2. x \notin ToSet(c.toReceive)
    BY <1>3 DEF Waiting
  <2> QED
    BY <1>1, <1>10, <1>13, <1>15, <1>16, <2>1, <2>2 DEF Waits
<1>18. Served(e)
  <2>1. Keeps(e, c, "receive")
    BY <1>13, <1>14, <1>15 DEF Keeps, Trying, Waiting, Created
  <2> QED
    BY <1>1, <1>13, <2>1, ServedFull
<1>19. CrInv(e)
  BY <1>9, <1>12, <1>17, <1>18 DEF CrInv
<1> QED
  BY <1>19 DEF e
LEMMA WaitToReceiveInv ==
  ASSUME NEW c, CrInv(c), InFunction(c), NEW ticks \in CrWaits, ticks > 0,
         c.state[c.current] = "start", c.messages = 0
  PROVE  CrInv(Returns(WaitToReceive(c, ticks), "receive"))
<1> DEFINE d == AddDelay(c, ticks)  x == c.current  e == Returns(WaitToReceive(c, ticks), "receive")
           s == vListInsert(c.toReceive, x, EventOrder(c))
           f == [d EXCEPT !.toReceive = s]
<1>1. c \in CrTypes /\ AllListed(c) /\ Running(c) /\ Clocks(c) /\ Delays(c) /\ Waits(c) /\ Served(c)
  BY DEF CrInv
<1>2. d \in CrTypes /\ SameOthers(d, c)
  BY AddDelayIs
<1>3. "pending" \in Steps /\ "receive" \in States /\ x \in CoRoutine /\ x \notin Waiting(c) /\ x \notin Asleep(c)
  <2>1. x \in Created(c) /\ IsReady(c, x)
    BY <1>1 DEF Running
  <2>2. x \in CoRoutine
    BY <2>1 DEF Created
  <2> HIDE DEF x
  <2>3. x \notin Waiting(c) /\ x \notin Asleep(c)
    BY <1>1, <2>1, <2>2 DEF AllListed, ListedAt
  <2> QED
    BY <2>2, <2>3 DEF Steps, States
<1>4. s \in Rows(CoRoutine) /\ ToSet(s) = ToSet(c.toReceive) \cup {x}
  <2>1. c.toReceive \in Rows(CoRoutine) /\ EventOrder(c) \in [CoRoutine -> Nat]
    BY <1>1, OrderIs DEF CrTypes
  <2>2. Inserts(CoRoutine, c.toReceive, s, x, EventOrder(c))
    BY <1>3, <2>1, ListInsert, Zenon
  <2> QED
    BY <1>3, <2>2 DEF Inserts, Waiting
<1>5. WaitToReceive(c, ticks) = f
  BY <1>2 DEF WaitToReceive, SameOthers
<1> HIDE DEF d, s
<1>6. f \in CrTypes
  BY <1>2, <1>4, Zenon DEF CrTypes
<1>7. /\ f.toReceive = s /\ f.toSend = d.toSend /\ f.messages = d.messages /\ f.missed = d.missed
      /\ f.state = d.state /\ f.priority = d.priority /\ f.current = d.current
      /\ SameTime(f, d) /\ f.timedOut = d.timedOut /\ f.ready = d.ready
      /\ f.delayed = d.delayed /\ f.overflow = d.overflow /\ f.pending = d.pending
  BY <1>2 DEF CrTypes, SameTime
<1>8. e = Returns(f, "receive")
  BY <1>5
<1> HIDE DEF e, f
<1>9. e \in CrTypes
  BY <1>3, <1>6, <1>8, Zenon DEF Returns, CrTypes
<1>10. /\ e.toReceive = s /\ e.toSend = d.toSend /\ e.step = "pending"
       /\ e.messages = d.messages /\ e.missed = d.missed
       /\ e.state = [d.state EXCEPT ![d.current] = "receive"] /\ e.priority = d.priority
  BY <1>6, <1>7, <1>8 DEF Returns, CrTypes
<1>11. Blocked(e, d, x)
  <2>1. /\ SameTime(e, f) /\ e.timedOut = f.timedOut /\ e.ready = f.ready /\ e.current = f.current
        /\ e.delayed = f.delayed /\ e.overflow = f.overflow /\ e.pending = f.pending
    BY <1>6, <1>8 DEF Returns, CrTypes, SameTime
  <2>2. Gains(e.toReceive, d.toReceive, x)
    BY <1>2, <1>4, <1>10 DEF Gains, SameOthers
  <2> HIDE DEF x
  <2> QED
    BY <1>7, <1>10, <2>1, <2>2 DEF Blocked, SameTime
<1>12. AllListed(e) /\ Running(e) /\ Clocks(e) /\ Delays(e)
  BY <1>11, BlockedInv DEF d
<1>13. /\ ToSet(e.toReceive) = ToSet(c.toReceive) \cup {x} /\ e.toSend = c.toSend
       /\ e.messages = c.messages /\ e.missed = c.missed /\ e.priority = c.priority
       /\ e.state = [c.state EXCEPT ![x] = "receive"]
  BY <1>2, <1>4, <1>10 DEF SameOthers
<1>14. c.state \in [CoRoutine -> States] /\ c.state[x] = "start"
  BY <1>1 DEF CrTypes
<1>15. \A y \in CoRoutine : y # x => e.state[y] = c.state[y]
  BY <1>13, <1>14
<1>16. e.state[x] = "receive"
  BY <1>3, <1>13, <1>14
<1> HIDE DEF x
<1>17. Waits(e)
  <2>1. ToSet(c.toReceive) \subseteq CoRoutine /\ ToSet(c.toSend) \subseteq CoRoutine
    BY <1>1, EmptyRow DEF CrTypes
  <2>2. x \notin ToSet(c.toSend)
    BY <1>3 DEF Waiting
  <2> QED
    BY <1>1, <1>10, <1>13, <1>15, <1>16, <2>1, <2>2 DEF Waits
<1>18. Served(e)
  <2>1. Keeps(e, c, "send")
    BY <1>13, <1>14, <1>15 DEF Keeps, Trying, Waiting, Created
  <2> QED
    BY <1>1, <1>13, <2>1, ServedEmpty
<1>19. CrInv(e)
  BY <1>9, <1>12, <1>17, <1>18 DEF CrInv
<1> QED
  BY <1>19 DEF e

\* One that does not wait goes on, or returns to the scheduler.
SameLeft(d, c) ==
  /\ SameTime(d, c) /\ d.timedOut = c.timedOut /\ d.priority = c.priority /\ d.ready = c.ready
  /\ d.current = c.current

GoesTo(d, c, step, state) ==
  /\ SameLeft(d, c) /\ SameRows(d, c) /\ d.missed = c.missed /\ d.messages = c.messages
  /\ d.step = step /\ d.state = state

LEMMA StillRuns ==
  ASSUME NEW c, CrInv(c), InFunction(c)
  PROVE  /\ c.current \in CoRoutine /\ c.current \in Created(c) /\ IsReady(c, c.current)
         /\ c.current \notin Waiting(c) /\ c.current \notin Asleep(c)
<1> DEFINE x == c.current
<1>1. x \in Created(c) /\ IsReady(c, x) /\ x \in CoRoutine
  BY DEF CrInv, Running, Created
<1> HIDE DEF x
<1>2. x \notin Waiting(c) /\ x \notin Asleep(c)
  BY <1>1 DEF CrInv, AllListed, ListedAt
<1> QED
  BY <1>1, <1>2 DEF x

\* What the steps have in common that change neither ready lists nor delays.
LEMMA MovesInv ==
  ASSUME NEW c, CrInv(c), InFunction(c), NEW d, SameLeft(d, c), AllListed(d),
         d.delayed = c.delayed, d.overflow = c.overflow,
         d.step \in {"pending", "run", "send", "receive"}
  PROVE  Running(d) /\ Clocks(d) /\ Delays(d)
<1>1. Running(d)
  BY StillRuns DEF Running, InFunction, SameLeft, Created, IsReady, Row
<1>2. Clocks(d)
  BY DEF CrInv, Clocks, SameLeft, SameTime, InFunction
<1>3. Delays(d)
  <2>1. Delays(c) /\ Rising(c.delayed, c.wake) /\ Rising(c.overflow, c.wake) /\ c \in CrTypes
    BY DEF CrInv, Delays
  <2>2. d.step # "delayed" /\ c.step # "delayed"
    BY DEF InFunction
  <2> QED
    BY <2>1, <2>2, DelaysFewer DEF SameLeft, SameTime
<1> QED
  BY <1>1, <1>2, <1>3

LEMMA GoesOnIs ==
  ASSUME NEW c \in CrTypes, c.current \in CoRoutine
  PROVE  /\ GoesOn(c) \in CrTypes
         /\ GoesTo(GoesOn(c), c, "run", [c.state EXCEPT ![c.current] = "start"])
<1>1. "run" \in Steps /\ "start" \in States
  BY DEF Steps, States
<1>2. GoesOn(c) \in CrTypes
  BY <1>1, Zenon DEF GoesOn, CrTypes
<1>3. GoesTo(GoesOn(c), c, "run", [c.state EXCEPT ![c.current] = "start"])
  BY DEF GoesOn, CrTypes, GoesTo, SameLeft, SameTime, SameRows
<1> QED
  BY <1>2, <1>3

LEMMA ReturnsIs ==
  ASSUME NEW c \in CrTypes, c.current \in CoRoutine
  PROVE  /\ Returns(c, "start") \in CrTypes
         /\ GoesTo(Returns(c, "start"), c, "pending", [c.state EXCEPT ![c.current] = "start"])
<1>1. "pending" \in Steps /\ "start" \in States
  BY DEF Steps, States
<1>2. Returns(c, "start") \in CrTypes
  BY <1>1, Zenon DEF Returns, CrTypes
<1>3. GoesTo(Returns(c, "start"), c, "pending", [c.state EXCEPT ![c.current] = "start"])
  BY DEF Returns, CrTypes, GoesTo, SameLeft, SameTime, SameRows
<1> QED
  BY <1>2, <1>3

LEMMA MovesListed ==
  ASSUME NEW c \in CrTypes, NEW d, NEW step, NEW state, AllListed(c), GoesTo(d, c, step, state)
  PROVE  AllListed(d)
<1>1. SameLists(d, c)
  BY DEF GoesTo, SameLists, SameLeft, Row
<1> QED
  BY <1>1, ListedSame

\* One who finds the queue full, or empty, and does not wait.
LEMMA GoesOnInv ==
  ASSUME NEW c, CrInv(c), InFunction(c),
         \/ c.messages = CrLength /\ c.state[c.current] # "receive"
         \/ c.messages = 0 /\ c.state[c.current] # "send"
  PROVE  CrInv(GoesOn(c))
<1> DEFINE d == GoesOn(c)  x == c.current
<1>1. c \in CrTypes /\ AllListed(c) /\ Running(c) /\ Clocks(c) /\ Delays(c) /\ Waits(c) /\ Served(c)
  BY DEF CrInv
<1>2. x \in CoRoutine /\ x \notin Waiting(c)
  BY StillRuns
<1>3. d \in CrTypes /\ GoesTo(d, c, "run", [c.state EXCEPT ![x] = "start"])
  BY <1>1, <1>2, GoesOnIs
<1> HIDE DEF d, x
<1>4. AllListed(d)
  BY <1>1, <1>3, MovesListed
<1>5. Running(d) /\ Clocks(d) /\ Delays(d)
  BY <1>3, <1>4, MovesInv DEF GoesTo, SameRows
<1>6. /\ d.state = [c.state EXCEPT ![x] = "start"] /\ d.messages = c.messages /\ d.missed = c.missed
      /\ d.toSend = c.toSend /\ d.toReceive = c.toReceive /\ d.step = "run" /\ d.priority = c.priority
      /\ d.current = x
  BY <1>3 DEF GoesTo, SameRows, SameLeft, x
<1>7. c.state \in [CoRoutine -> States] /\ \A y \in CoRoutine : y # x => d.state[y] = c.state[y]
  BY <1>1, <1>6 DEF CrTypes
<1>8. Waits(d)
  <2>1. ToSet(c.toSend) \subseteq CoRoutine /\ ToSet(c.toReceive) \subseteq CoRoutine
    BY <1>1, EmptyRow DEF CrTypes
  <2> QED
    BY <1>1, <1>2, <1>6, <1>7, <2>1 DEF Waits, Waiting
<1>9. Served(d)
  <2>1. CASE c.messages = CrLength /\ c.state[x] # "receive"
    <3>1. Keeps(d, c, "receive")
      BY <1>6, <1>7, <2>1 DEF Keeps, Trying, Waiting, Created
    <3> QED
      BY <1>1, <1>6, <2>1, <3>1, ServedFull
  <2>2. CASE c.messages = 0 /\ c.state[x] # "send"
    <3>1. Keeps(d, c, "send")
      BY <1>6, <1>7, <2>2 DEF Keeps, Trying, Waiting, Created
    <3> QED
      BY <1>1, <1>6, <2>2, <3>1, ServedEmpty
  <2> QED
    BY <2>1, <2>2 DEF x
<1>10. CrInv(d)
  BY <1>3, <1>4, <1>5, <1>8, <1>9 DEF CrInv
<1> QED
  BY <1>10 DEF d

LEMMA NoDelayInv ==
  ASSUME NEW c, CrInv(c), InFunction(c), c.state[c.current] = "start"
  PROVE  CrInv(Returns(c, "start"))
<1> DEFINE d == Returns(c, "start")  x == c.current
<1>1. c \in CrTypes /\ AllListed(c) /\ Running(c) /\ Clocks(c) /\ Delays(c) /\ Waits(c) /\ Served(c)
  BY DEF CrInv
<1>2. x \in CoRoutine
  BY StillRuns
<1>3. d \in CrTypes /\ GoesTo(d, c, "pending", [c.state EXCEPT ![x] = "start"])
  BY <1>1, <1>2, ReturnsIs
<1>4. [c.state EXCEPT ![x] = "start"] = c.state
  BY <1>1, <1>2 DEF CrTypes
<1> HIDE DEF d, x
<1>5. AllListed(d)
  BY <1>1, <1>3, MovesListed
<1>6. Running(d) /\ Clocks(d) /\ Delays(d)
  BY <1>3, <1>5, MovesInv DEF GoesTo, SameRows
<1>7. SameQueue(d, c) /\ d.priority = c.priority /\ d.step = "pending"
  BY <1>3, <1>4 DEF GoesTo, SameRows, SameLeft, SameQueue
<1>8. Waits(d) /\ Served(d)
  BY <1>1, <1>7, SameWait
<1>9. CrInv(d)
  BY <1>3, <1>5, <1>6, <1>8 DEF CrInv
<1> QED
  BY <1>9 DEF d

\* One who finds that the queue can serve it goes on to the second critical section.
LEMMA ChecksInv ==
  ASSUME NEW c, CrInv(c), InFunction(c),
         NEW step \in {"send", "receive"},
         step = "send" => c.state[c.current] # "receive",
         step = "receive" => c.state[c.current] # "send"
  PROVE  CrInv([c EXCEPT !.step = step])
<1> DEFINE d == [c EXCEPT !.step = step]
<1>1. c \in CrTypes /\ AllListed(c) /\ Running(c) /\ Clocks(c) /\ Delays(c) /\ Waits(c) /\ Served(c)
  BY DEF CrInv
<1>2. step \in Steps
  BY DEF Steps
<1>3. d \in CrTypes
  BY <1>1, <1>2, Zenon DEF CrTypes
<1>4. GoesTo(d, c, step, c.state)
  BY <1>1 DEF GoesTo, SameLeft, SameTime, SameRows, CrTypes
<1> HIDE DEF d
<1>5. AllListed(d)
  BY <1>1, <1>4, MovesListed
<1>6. Running(d) /\ Clocks(d) /\ Delays(d)
  BY <1>4, <1>5, MovesInv DEF GoesTo, SameRows
<1>7. SameQueue(d, c) /\ d.priority = c.priority /\ d.step = step /\ d.current = c.current
  BY <1>4 DEF GoesTo, SameRows, SameLeft, SameQueue
<1>8. Waits(d)
  BY <1>1, <1>7 DEF Waits, SameQueue
<1>9. Served(d)
  <2>1. Keeps(d, c, "send") /\ Keeps(d, c, "receive")
    BY <1>7 DEF SameQueue, Keeps, Trying, Waiting, Created
  <2> QED
    BY <1>1, <1>7, <2>1, ServedMore DEF SameQueue
<1>10. CrInv(d)
  BY <1>3, <1>5, <1>6, <1>8, <1>9 DEF CrInv
<1> QED
  BY <1>10 DEF d

\* What has been done when a message is sent: who waits for it has been woken.
Sent(c) == [c EXCEPT !.messages = @ + 1]

Copied(d, c) ==
  /\ d \in CrTypes /\ AllListed(d) /\ SameLeft(d, c)
  /\ d.delayed = c.delayed /\ d.overflow = c.overflow /\ d.passed = c.passed
  /\ d.step = c.step /\ d.state = c.state /\ d.missed = c.missed
  /\ d.messages = c.messages + 1 /\ d.toSend = c.toSend

Called(d, c) ==
  \/ d.toReceive = <<>>
  \/ \E x \in ToSet(c.toReceive) : ToSet(d.toReceive) = ToSet(c.toReceive) \ {x}

LEMMA SentIs ==
  ASSUME NEW c, CrInv(c), c.messages < CrLength
  PROVE  Copied(Sent(c), c) /\ Sent(c).toReceive = c.toReceive /\ Sent(c).pending = c.pending
<1> DEFINE d == Sent(c)
<1>1. c \in CrTypes /\ AllListed(c)
  BY DEF CrInv
<1>2. c.messages + 1 \in 0..CrLength
  BY <1>1, CoRoutinesAssumption DEF CrTypes
<1>3. d \in CrTypes
  BY <1>1, <1>2, Zenon DEF CrTypes, Sent
<1>4. SameLeft(d, c) /\ SameRows(d, c)
  BY <1>1 DEF SameLeft, SameTime, SameRows, Sent, CrTypes
<1>5. /\ d.passed = c.passed /\ d.step = c.step /\ d.state = c.state /\ d.missed = c.missed
      /\ d.messages = c.messages + 1
  BY <1>1 DEF Sent, CrTypes
<1> HIDE DEF d
<1>6. AllListed(d)
  <2>1. SameLists(d, c)
    BY <1>4 DEF SameLists, SameLeft, Row
  <2> QED
    BY <1>1, <2>1, ListedSame
<1> QED
  BY <1>3, <1>4, <1>5, <1>6 DEF Copied, SameRows, d

LEMMA WakesReceiver ==
  ASSUME NEW c, CrInv(c), c.messages < CrLength, c.toReceive # <<>>
  PROVE  Copied(WakeReceiver(Sent(c)), c) /\ Called(WakeReceiver(Sent(c)), c)
<1> DEFINE s == Sent(c)  d == WakeReceiver(s)  x == Head(s.toReceive)
<1>1. c \in CrTypes
  BY DEF CrInv
<1>2. Copied(s, c) /\ s.toReceive = c.toReceive
  BY SentIs
<1> HIDE DEF s
<1>3. s \in CrTypes /\ AllListed(s) /\ s.toReceive # <<>>
  BY <1>2 DEF Copied
<1>4. /\ Removes(CoRoutine, s.toReceive, Tail(s.toReceive), x) /\ x \in ToSet(s.toReceive) /\ x \in CoRoutine
  BY <1>3, TailRemoved DEF CrTypes
<1>5. x \notin ToSet(s.pending) /\ x \notin ToSet(s.toSend)
  BY <1>3, <1>4 DEF AllListed, ListedAt, Waiting
<1>6. Append(s.pending, x) \in Rows(CoRoutine) /\ ToSet(Append(s.pending, x)) = ToSet(s.pending) \cup {x}
  BY <1>3, <1>4, <1>5, Appended DEF CrTypes
<1>7. d \in CrTypes
  BY <1>3, <1>4, <1>6, Zenon DEF WakeReceiver, CrTypes, Removes
<1>8. /\ SameLeft(d, s) /\ d.delayed = s.delayed /\ d.overflow = s.overflow /\ d.passed = s.passed
      /\ d.step = s.step /\ d.state = s.state /\ d.missed = s.missed
      /\ d.messages = s.messages /\ d.toSend = s.toSend
      /\ d.toReceive = Tail(s.toReceive) /\ d.pending = Append(s.pending, x)
  BY <1>3 DEF WakeReceiver, CrTypes, SameLeft, SameTime
<1> HIDE DEF d, x
<1>9. Woken(d, s, x)
  BY <1>4, <1>5, <1>6, <1>8 DEF Woken, Waiting, Row, SameLeft, Removes
<1>10. AllListed(d)
  BY <1>3, <1>9, ListedWoken
<1>11. Copied(d, c)
  BY <1>2, <1>7, <1>8, <1>10 DEF Copied, SameLeft, SameTime
<1>12. Called(d, c)
  BY <1>2, <1>4, <1>8 DEF Called, Removes
<1> QED
  BY <1>11, <1>12 DEF d, s

\* Somebody comes to try, who was not among those before.
LEMMA CalledWins ==
  ASSUME NEW c, CrInv(c), NEW d, d.priority = c.priority, d.toSend = c.toSend,
         NEW x \in ToSet(c.toReceive), ToSet(d.toReceive) = ToSet(c.toReceive) \ {x},
         \A y \in CoRoutine : c.state[y] = "receive" => d.state[y] = "receive"
  PROVE  Wins(d, c, "receive") /\ c.toReceive # <<>>
<1>1. c \in CrTypes /\ AllListed(c) /\ Waits(c)
  BY DEF CrInv
<1>2. x \in CoRoutine /\ c.toReceive # <<>>
  BY <1>1, EmptyRow DEF CrTypes
<1>3. x \in Created(c) /\ c.state[x] = "receive" /\ x \in Waiting(c) /\ x \notin ToSet(c.toSend)
  BY <1>1, <1>2 DEF AllListed, ListedAt, Waits, Waiting
<1>4. x \in Trying(d, "receive") /\ x \notin Trying(c, "receive")
  BY <1>2, <1>3 DEF Trying, Waiting, Created
<1>5. Keeps(d, c, "receive")
  BY <1>1 DEF Keeps, Trying, Waiting, Created
<1> QED
  BY <1>2, <1>4, <1>5 DEF Wins

\* The one who has sent goes on, or returns to the scheduler.
LEMMA SendCopiesInv ==
  ASSUME NEW c, CrInv(c), c.step = "send", NEW s, Copied(s, c), Called(s, c),
         NEW step \in {"run", "pending"}, NEW d \in CrTypes,
         GoesTo(d, s, step, [s.state EXCEPT ![s.current] = "start"])
  PROVE  CrInv(d)
<1> DEFINE x == c.current
<1>1. c \in CrTypes /\ AllListed(c) /\ Running(c) /\ Clocks(c) /\ Delays(c) /\ Waits(c) /\ Served(c)
  BY DEF CrInv
<1>2. x \in CoRoutine /\ x \notin Waiting(c) /\ InFunction(c)
  BY StillRuns DEF InFunction
<1>3. AllListed(d)
  BY MovesListed DEF Copied
<1>4. SameLeft(d, c) /\ d.delayed = c.delayed /\ d.overflow = c.overflow
  BY DEF Copied, GoesTo, SameLeft, SameTime, SameRows
<1>5. Running(d) /\ Clocks(d) /\ Delays(d)
  <2>1. d.step \in {"pending", "run", "send", "receive"}
    BY DEF GoesTo
  <2> QED
    BY <1>2, <1>3, <1>4, <2>1, MovesInv
<1>6. /\ d.state = [c.state EXCEPT ![x] = "start"] /\ d.messages = c.messages + 1 /\ d.missed = c.missed
      /\ d.toSend = c.toSend /\ d.toReceive = s.toReceive /\ d.step = step /\ d.priority = c.priority
  BY DEF Copied, GoesTo, SameRows, SameLeft, x
<1>7. c.state[x] # "receive"
  BY <1>1 DEF Waits, x
<1> HIDE DEF x
<1>8. c.state \in [CoRoutine -> States] /\ \A y \in CoRoutine : y # x => d.state[y] = c.state[y]
  BY <1>1, <1>6 DEF CrTypes
<1>9. /\ ToSet(d.toReceive) \subseteq ToSet(c.toReceive)
      /\ ToSet(c.toSend) \subseteq CoRoutine /\ ToSet(c.toReceive) \subseteq CoRoutine
  BY <1>1, <1>6, EmptyRow DEF CrTypes, Called
<1>10. Waits(d)
  BY <1>1, <1>2, <1>6, <1>8, <1>9 DEF Waits, Waiting
<1>11. Loses(d, c, "send")
  <2>1. Trying(c, "send") \ {x} \subseteq Trying(d, "send")
    BY <1>6, <1>8, <1>9 DEF Trying, Waiting, Created
  <2> QED
    BY <1>2, <2>1 DEF Loses
<1>12. d.toReceive = <<>> \/ (c.toReceive # <<>> /\ Wins(d, c, "receive"))
  <2>1. CASE d.toReceive = <<>>
    BY <2>1
  <2>2. CASE d.toReceive # <<>>
    <3>1. PICK y \in ToSet(c.toReceive) : ToSet(d.toReceive) = ToSet(c.toReceive) \ {y}
      BY <1>6, <2>2 DEF Called
    <3>2. \A z \in CoRoutine : c.state[z] = "receive" => d.state[z] = "receive"
      BY <1>7, <1>8
    <3> QED
      BY <1>6, <3>1, <3>2, CalledWins
  <2> QED
    BY <2>1, <2>2
<1>13. Served(d)
  BY <1>1, <1>6, <1>11, <1>12, ServedSent
<1> QED
  BY <1>3, <1>5, <1>10, <1>13 DEF CrInv

\* An interrupt has sent.
LEMMA SendFromISRInv ==
  ASSUME NEW c, CrInv(c), NEW d, Copied(d, c), Called(d, c)
  PROVE  CrInv(d)
<1>1. c \in CrTypes /\ AllListed(c) /\ Running(c) /\ Clocks(c) /\ Delays(c) /\ Waits(c) /\ Served(c)
  BY DEF CrInv
<1>2. /\ d.state = c.state /\ d.messages = c.messages + 1 /\ d.missed = c.missed /\ d.toSend = c.toSend
      /\ d.step = c.step /\ d.priority = c.priority /\ d.current = c.current /\ d.ready = c.ready
      /\ d.delayed = c.delayed /\ d.overflow = c.overflow /\ d.passed = c.passed
      /\ d.timedOut = c.timedOut /\ SameTime(d, c)
  BY DEF Copied, SameLeft
<1>3. d \in CrTypes /\ AllListed(d)
  BY DEF Copied
<1>4. Running(d)
  BY <1>1, <1>2 DEF Running, InFunction, Created, IsReady, Row
<1>5. Clocks(d)
  BY <1>1, <1>2 DEF Clocks, SameTime
<1>6. Delays(d)
  <2>1. Rising(c.delayed, c.wake) /\ Rising(c.overflow, c.wake)
    BY <1>1 DEF Delays
  <2> QED
    BY <1>1, <1>2, <2>1, DelaysFewer DEF SameTime
<1>7. ToSet(d.toReceive) \subseteq ToSet(c.toReceive)
  BY EmptyRow DEF Called
<1>8. Waits(d)
  BY <1>1, <1>2, <1>7 DEF Waits
<1>9. Loses(d, c, "send")
  <2>1. Trying(c, "send") \ {NoCoRoutine} \subseteq Trying(d, "send")
    BY <1>2, <1>7 DEF Trying, Waiting, Created
  <2> QED
    BY <2>1 DEF Loses
<1>10. d.toReceive = <<>> \/ (c.toReceive # <<>> /\ Wins(d, c, "receive"))
  <2>1. CASE d.toReceive = <<>>
    BY <2>1
  <2>2. CASE d.toReceive # <<>>
    <3>1. PICK y \in ToSet(c.toReceive) : ToSet(d.toReceive) = ToSet(c.toReceive) \ {y}
      BY <2>2 DEF Called
    <3> QED
      BY <1>2, <3>1, CalledWins
  <2> QED
    BY <2>1, <2>2
<1>11. Served(d)
  BY <1>1, <1>2, <1>9, <1>10, ServedSent
<1> QED
  BY <1>3, <1>4, <1>5, <1>6, <1>8, <1>11 DEF CrInv

\* The same when a message is received.
Received(c) == [c EXCEPT !.messages = @ - 1]

TakenFrom(d, c) ==
  /\ d \in CrTypes /\ AllListed(d) /\ SameLeft(d, c)
  /\ d.delayed = c.delayed /\ d.overflow = c.overflow /\ d.passed = c.passed
  /\ d.step = c.step /\ d.state = c.state /\ d.missed = c.missed
  /\ d.messages = c.messages - 1 /\ d.toReceive = c.toReceive

Freed(d, c) ==
  \/ d.toSend = <<>>
  \/ \E x \in ToSet(c.toSend) : ToSet(d.toSend) = ToSet(c.toSend) \ {x}

LEMMA ReceivedIs ==
  ASSUME NEW c, CrInv(c), c.messages > 0
  PROVE  TakenFrom(Received(c), c) /\ Received(c).toSend = c.toSend /\ Received(c).pending = c.pending
<1> DEFINE d == Received(c)
<1>1. c \in CrTypes /\ AllListed(c)
  BY DEF CrInv
<1>2. c.messages - 1 \in 0..CrLength
  BY <1>1, CoRoutinesAssumption DEF CrTypes
<1>3. d \in CrTypes
  BY <1>1, <1>2, Zenon DEF CrTypes, Received
<1>4. SameLeft(d, c) /\ SameRows(d, c)
  BY <1>1 DEF SameLeft, SameTime, SameRows, Received, CrTypes
<1>5. /\ d.passed = c.passed /\ d.step = c.step /\ d.state = c.state /\ d.missed = c.missed
      /\ d.messages = c.messages - 1
  BY <1>1 DEF Received, CrTypes
<1> HIDE DEF d
<1>6. AllListed(d)
  <2>1. SameLists(d, c)
    BY <1>4 DEF SameLists, SameLeft, Row
  <2> QED
    BY <1>1, <2>1, ListedSame
<1> QED
  BY <1>3, <1>4, <1>5, <1>6 DEF TakenFrom, SameRows, d

LEMMA WakesSender ==
  ASSUME NEW c, CrInv(c), c.messages > 0, c.toSend # <<>>
  PROVE  TakenFrom(WakeSender(Received(c)), c) /\ Freed(WakeSender(Received(c)), c)
<1> DEFINE s == Received(c)  d == WakeSender(s)  x == Head(s.toSend)
<1>1. c \in CrTypes
  BY DEF CrInv
<1>2. TakenFrom(s, c) /\ s.toSend = c.toSend
  BY ReceivedIs
<1> HIDE DEF s
<1>3. s \in CrTypes /\ AllListed(s) /\ s.toSend # <<>>
  BY <1>2 DEF TakenFrom
<1>4. /\ Removes(CoRoutine, s.toSend, Tail(s.toSend), x) /\ x \in ToSet(s.toSend) /\ x \in CoRoutine
  BY <1>3, TailRemoved DEF CrTypes
<1>5. x \notin ToSet(s.pending) /\ x \notin ToSet(s.toReceive)
  BY <1>3, <1>4 DEF AllListed, ListedAt, Waiting
<1>6. Append(s.pending, x) \in Rows(CoRoutine) /\ ToSet(Append(s.pending, x)) = ToSet(s.pending) \cup {x}
  BY <1>3, <1>4, <1>5, Appended DEF CrTypes
<1>7. d \in CrTypes
  BY <1>3, <1>4, <1>6, Zenon DEF WakeSender, CrTypes, Removes
<1>8. /\ SameLeft(d, s) /\ d.delayed = s.delayed /\ d.overflow = s.overflow /\ d.passed = s.passed
      /\ d.step = s.step /\ d.state = s.state /\ d.missed = s.missed
      /\ d.messages = s.messages /\ d.toReceive = s.toReceive
      /\ d.toSend = Tail(s.toSend) /\ d.pending = Append(s.pending, x)
  BY <1>3 DEF WakeSender, CrTypes, SameLeft, SameTime
<1> HIDE DEF d, x
<1>9. Woken(d, s, x)
  BY <1>4, <1>5, <1>6, <1>8 DEF Woken, Waiting, Row, SameLeft, Removes
<1>10. AllListed(d)
  BY <1>3, <1>9, ListedWoken
<1>11. TakenFrom(d, c)
  BY <1>2, <1>7, <1>8, <1>10 DEF TakenFrom, SameLeft, SameTime
<1>12. Freed(d, c)
  BY <1>2, <1>4, <1>8 DEF Freed, Removes
<1> QED
  BY <1>11, <1>12 DEF d, s

LEMMA FreedWins ==
  ASSUME NEW c, CrInv(c), NEW d, d.priority = c.priority, d.toReceive = c.toReceive,
         NEW x \in ToSet(c.toSend), ToSet(d.toSend) = ToSet(c.toSend) \ {x},
         \A y \in CoRoutine : c.state[y] = "send" => d.state[y] = "send"
  PROVE  Wins(d, c, "send") /\ c.toSend # <<>>
<1>1. c \in CrTypes /\ AllListed(c) /\ Waits(c)
  BY DEF CrInv
<1>2. x \in CoRoutine /\ c.toSend # <<>>
  BY <1>1, EmptyRow DEF CrTypes
<1>3. x \in Created(c) /\ c.state[x] = "send" /\ x \in Waiting(c) /\ x \notin ToSet(c.toReceive)
  BY <1>1, <1>2 DEF AllListed, ListedAt, Waits, Waiting
<1>4. x \in Trying(d, "send") /\ x \notin Trying(c, "send")
  BY <1>2, <1>3 DEF Trying, Waiting, Created
<1>5. Keeps(d, c, "send")
  BY <1>1 DEF Keeps, Trying, Waiting, Created
<1> QED
  BY <1>2, <1>4, <1>5 DEF Wins

\* The one who has received goes on, or returns to the scheduler.
LEMMA ReceiveCopiesInv ==
  ASSUME NEW c, CrInv(c), c.step = "receive", NEW s, TakenFrom(s, c), Freed(s, c),
         NEW step \in {"run", "pending"}, NEW d \in CrTypes,
         GoesTo(d, s, step, [s.state EXCEPT ![s.current] = "start"])
  PROVE  CrInv(d)
<1> DEFINE x == c.current
<1>1. c \in CrTypes /\ AllListed(c) /\ Running(c) /\ Clocks(c) /\ Delays(c) /\ Waits(c) /\ Served(c)
  BY DEF CrInv
<1>2. x \in CoRoutine /\ x \notin Waiting(c) /\ InFunction(c)
  BY StillRuns DEF InFunction
<1>3. AllListed(d)
  BY MovesListed DEF TakenFrom
<1>4. SameLeft(d, c) /\ d.delayed = c.delayed /\ d.overflow = c.overflow
  BY DEF TakenFrom, GoesTo, SameLeft, SameTime, SameRows
<1>5. Running(d) /\ Clocks(d) /\ Delays(d)
  <2>1. d.step \in {"pending", "run", "receive", "send"}
    BY DEF GoesTo
  <2> QED
    BY <1>2, <1>3, <1>4, <2>1, MovesInv
<1>6. /\ d.state = [c.state EXCEPT ![x] = "start"] /\ d.messages = c.messages - 1 /\ d.missed = c.missed
      /\ d.toReceive = c.toReceive /\ d.toSend = s.toSend /\ d.step = step /\ d.priority = c.priority
  BY DEF TakenFrom, GoesTo, SameRows, SameLeft, x
<1>7. c.state[x] # "send"
  BY <1>1 DEF Waits, x
<1> HIDE DEF x
<1>8. c.state \in [CoRoutine -> States] /\ \A y \in CoRoutine : y # x => d.state[y] = c.state[y]
  BY <1>1, <1>6 DEF CrTypes
<1>9. /\ ToSet(d.toSend) \subseteq ToSet(c.toSend)
      /\ ToSet(c.toReceive) \subseteq CoRoutine /\ ToSet(c.toSend) \subseteq CoRoutine
  BY <1>1, <1>6, EmptyRow DEF CrTypes, Freed
<1>10. Waits(d)
  BY <1>1, <1>2, <1>6, <1>8, <1>9 DEF Waits, Waiting
<1>11. Loses(d, c, "receive")
  <2>1. Trying(c, "receive") \ {x} \subseteq Trying(d, "receive")
    BY <1>6, <1>8, <1>9 DEF Trying, Waiting, Created
  <2> QED
    BY <1>2, <2>1 DEF Loses
<1>12. d.toSend = <<>> \/ (c.toSend # <<>> /\ Wins(d, c, "send"))
  <2>1. CASE d.toSend = <<>>
    BY <2>1
  <2>2. CASE d.toSend # <<>>
    <3>1. PICK y \in ToSet(c.toSend) : ToSet(d.toSend) = ToSet(c.toSend) \ {y}
      BY <1>6, <2>2 DEF Freed
    <3>2. \A z \in CoRoutine : c.state[z] = "send" => d.state[z] = "send"
      BY <1>7, <1>8
    <3> QED
      BY <1>6, <3>1, <3>2, FreedWins
  <2> QED
    BY <2>1, <2>2
<1>13. Served(d)
  BY <1>1, <1>6, <1>11, <1>12, ServedReceived
<1> QED
  BY <1>3, <1>5, <1>10, <1>13 DEF CrInv

\* An interrupt has received.
LEMMA ReceiveFromISRInv ==
  ASSUME NEW c, CrInv(c), NEW d, TakenFrom(d, c), Freed(d, c)
  PROVE  CrInv(d)
<1>1. c \in CrTypes /\ AllListed(c) /\ Running(c) /\ Clocks(c) /\ Delays(c) /\ Waits(c) /\ Served(c)
  BY DEF CrInv
<1>2. /\ d.state = c.state /\ d.messages = c.messages - 1 /\ d.missed = c.missed /\ d.toReceive = c.toReceive
      /\ d.step = c.step /\ d.priority = c.priority /\ d.current = c.current /\ d.ready = c.ready
      /\ d.delayed = c.delayed /\ d.overflow = c.overflow /\ d.passed = c.passed
      /\ d.timedOut = c.timedOut /\ SameTime(d, c)
  BY DEF TakenFrom, SameLeft
<1>3. d \in CrTypes /\ AllListed(d)
  BY DEF TakenFrom
<1>4. Running(d)
  BY <1>1, <1>2 DEF Running, InFunction, Created, IsReady, Row
<1>5. Clocks(d)
  BY <1>1, <1>2 DEF Clocks, SameTime
<1>6. Delays(d)
  <2>1. Rising(c.delayed, c.wake) /\ Rising(c.overflow, c.wake)
    BY <1>1 DEF Delays
  <2> QED
    BY <1>1, <1>2, <2>1, DelaysFewer DEF SameTime
<1>7. ToSet(d.toSend) \subseteq ToSet(c.toSend)
  BY EmptyRow DEF Freed
<1>8. Waits(d)
  BY <1>1, <1>2, <1>7 DEF Waits
<1>9. Loses(d, c, "receive")
  <2>1. Trying(c, "receive") \ {NoCoRoutine} \subseteq Trying(d, "receive")
    BY <1>2, <1>7 DEF Trying, Waiting, Created
  <2> QED
    BY <2>1 DEF Loses
<1>10. d.toSend = <<>> \/ (c.toSend # <<>> /\ Wins(d, c, "send"))
  <2>1. CASE d.toSend = <<>>
    BY <2>1
  <2>2. CASE d.toSend # <<>>
    <3>1. PICK y \in ToSet(c.toSend) : ToSet(d.toSend) = ToSet(c.toSend) \ {y}
      BY <2>2 DEF Freed
    <3> QED
      BY <1>2, <3>1, FreedWins
  <2> QED
    BY <2>1, <2>2
<1>11. Served(d)
  BY <1>1, <1>2, <1>9, <1>10, ServedReceived
<1> QED
  BY <1>3, <1>4, <1>5, <1>6, <1>8, <1>11 DEF CrInv

\* An interrupt that has woken one already wakes no other.
LEMMA MissedInv ==
  ASSUME NEW c, CrInv(c), NEW s, s \in CrTypes, AllListed(s), SameLeft(s, c), SameRows(s, c),
         s.passed = c.passed, s.step = c.step, s.state = c.state
  PROVE  CrInv([s EXCEPT !.missed = TRUE])
<1> DEFINE d == [s EXCEPT !.missed = TRUE]
<1>1. c \in CrTypes /\ AllListed(c) /\ Running(c) /\ Clocks(c) /\ Delays(c) /\ Waits(c) /\ Served(c)
  BY DEF CrInv
<1>2. d \in CrTypes
  BY Zenon DEF CrTypes
<1>3. /\ SameLeft(d, s) /\ SameRows(d, s) /\ d.passed = s.passed /\ d.step = s.step
      /\ d.state = s.state /\ d.missed = TRUE
  BY DEF SameLeft, SameTime, SameRows, CrTypes
<1> HIDE DEF d
<1>4. /\ SameLeft(d, c) /\ SameRows(d, c) /\ d.passed = c.passed /\ d.step = c.step
      /\ d.state = c.state
  BY <1>3 DEF SameLeft, SameTime, SameRows
<1>5. AllListed(d)
  <2>1. SameLists(d, c)
    BY <1>4 DEF SameLists, SameLeft, Row
  <2> QED
    BY <1>1, <2>1, ListedSame
<1>6. Running(d)
  BY <1>1, <1>4 DEF Running, InFunction, Created, IsReady, Row, SameLeft
<1>7. Clocks(d)
  BY <1>1, <1>4 DEF Clocks, SameTime, SameLeft
<1>8. Delays(d)
  BY <1>1, <1>4, DelaysSame DEF SameTime, SameLeft
<1>9. Waits(d)
  BY <1>1, <1>4 DEF Waits, SameRows, SameLeft
<1>10. Served(d)
  BY <1>3 DEF Served
<1>11. CrInv(d)
  BY <1>2, <1>5, <1>6, <1>7, <1>8, <1>9, <1>10 DEF CrInv
<1> QED
  BY <1>11 DEF d

-----------------------------------------------------------------------------
(* The invariant of the specification                                      *)

LEMMA CrStarts == CrInit => CrInv(cr)
<1> SUFFICES ASSUME CrInit PROVE CrInv(cr)
  OBVIOUS
<1>1. cr = NoCoRoutines
  BY DEF CrInit
<1>2. /\ <<>> \in Rows(CoRoutine) /\ ToSet(<<>>) = {} /\ EmptyList \in ReadyLists(CoRoutine) /\ EmptyList.items = <<>>
  BY EmptyRow DEF EmptyList, ReadyLists
<1>3. /\ cr.clock = 0 /\ cr.seen = 0 /\ cr.passed = 0 /\ cr.last = 0 /\ cr.top = 0
      /\ cr.priority = [x \in CoRoutine |-> NotCreated]
      /\ cr.ready = [p \in 0..CrPriorities - 1 |-> EmptyList]
      /\ cr.delayed = <<>> /\ cr.overflow = <<>> /\ cr.pending = <<>>
      /\ cr.toSend = <<>> /\ cr.toReceive = <<>>
  BY <1>1 DEF NoCoRoutines
<1>4. /\ cr.wake = [x \in CoRoutine |-> 0] /\ cr.messages = 0 /\ cr.current = NoCoRoutine
      /\ cr.step = "none" /\ cr.state = [x \in CoRoutine |-> "start"]
      /\ cr.due = [x \in CoRoutine |-> 0] /\ cr.timedOut = {} /\ cr.missed = FALSE
  BY <1>1 DEF NoCoRoutines
<1>5. cr \in CrTypes
  <2>1. /\ NotCreated \in 0..CrPriorities /\ 0 \in 0..(CrPriorities - 1) /\ 0 \in 0..CrLength
        /\ "none" \in Steps /\ "start" \in States
    BY CoRoutinesAssumption DEF NotCreated, Steps, States
  <2>2. /\ [x \in CoRoutine |-> NotCreated] \in [CoRoutine -> 0..CrPriorities]
        /\ [p \in 0..CrPriorities - 1 |-> EmptyList] \in [0..(CrPriorities - 1) -> ReadyLists(CoRoutine)]
        /\ [x \in CoRoutine |-> 0] \in [CoRoutine -> Nat]
        /\ [x \in CoRoutine |-> "start"] \in [CoRoutine -> States]
    BY <1>2, <2>1
  <2>3. 0 \in Nat /\ {} \in SUBSET Nat /\ FALSE \in BOOLEAN /\ NoCoRoutine \in CoRoutine \cup {NoCoRoutine}
    OBVIOUS
  <2> QED
    BY <1>1, <1>2, <2>1, <2>2, <2>3, Zenon DEF NoCoRoutines, CrTypes
<1>6. AllListed(cr)
  <2>1. \A p \in 0..(CrPriorities - 1) : Row(cr, p) = {}
    BY <1>2, <1>3 DEF Row
  <2>2. Created(cr) = {}
    BY <1>3 DEF Created
  <2> QED
    BY <1>2, <1>3, <2>1, <2>2 DEF AllListed, ListedAt, Asleep, Waiting
<1>7. Running(cr)
  BY <1>4 DEF Running, InFunction
<1>8. Clocks(cr)
  BY <1>3, <1>4, ModIsPositive, CoRoutinesAssumption DEF Clocks
<1>9. Delays(cr)
  BY <1>2, <1>3 DEF Delays, Asleep, Rising
<1>10. Waits(cr) /\ Served(cr)
  BY <1>2, <1>3, <1>4 DEF Waits, Served
<1> QED
  BY <1>5, <1>6, <1>7, <1>8, <1>9, <1>10 DEF CrInv

\* Forget, in the invariant.
Forgotten(d) ==
  /\ CrInv(d) /\ d.timedOut = {} /\ d.clock = cr.clock /\ d.seen = cr.seen /\ d.last = cr.last
  /\ d.passed = cr.passed /\ d.wake = cr.wake /\ d.delayed = cr.delayed /\ d.pending = cr.pending
  /\ d.toSend = cr.toSend /\ d.toReceive = cr.toReceive /\ d.messages = cr.messages
  /\ d.current = cr.current /\ d.step = cr.step /\ d.state = cr.state
  /\ d.ready = cr.ready /\ d.top = cr.top

LEMMA ForgetIs ==
  ASSUME CrInv(cr)
  PROVE  Forgotten(Forget)
<1>1. CrInv(Forget) /\ Forget.timedOut = {}
  BY ForgetsInv, Zenon DEF Forget
<1>2. cr \in CrTypes
  BY DEF CrInv
<1>3. /\ Forget.clock = cr.clock /\ Forget.seen = cr.seen /\ Forget.last = cr.last
      /\ Forget.passed = cr.passed /\ Forget.wake = cr.wake /\ Forget.delayed = cr.delayed
      /\ Forget.pending = cr.pending
      /\ Forget.toSend = cr.toSend /\ Forget.toReceive = cr.toReceive /\ Forget.messages = cr.messages
      /\ Forget.current = cr.current /\ Forget.step = cr.step /\ Forget.state = cr.state
      /\ Forget.ready = cr.ready /\ Forget.top = cr.top
  BY <1>2 DEF Forget, CrTypes
<1> QED
  BY <1>1, <1>3 DEF Forgotten

\* The scheduler's steps
LEMMA CreateStep ==
  ASSUME CrInv(cr), NEW x \in CoRoutine, xCoRoutineCreate(x)
  PROVE  CrInv(cr')
BY CreatedInv, Zenon DEF xCoRoutineCreate

LEMMA FirstCallStep ==
  ASSUME CrInv(cr), FirstCall
  PROVE  CrInv(cr')
BY FirstCallInv, Zenon DEF FirstCall

LEMMA CheckPendingStep ==
  ASSUME CrInv(cr), CheckPendingReadyList
  PROVE  CrInv(cr')
<1> DEFINE c == Forget
<1>1. Forgotten(c)
  BY ForgetIs
<1> HIDE DEF c
<1>2. /\ CrInv(c) /\ c.timedOut = {} /\ c.step = "pending" /\ c.pending = cr.pending
      /\ c.clock = cr.clock /\ c.last = cr.last
  BY <1>1 DEF Forgotten, CheckPendingReadyList
<1>3. CASE cr.pending # <<>>
  <2>1. cr' = PendingTurn(c)
    BY <1>3, Zenon DEF CheckPendingReadyList, c
  <2>2. CrInv(PendingTurn(c))
    BY <1>2, <1>3, PendingTurnInv
  <2> QED
    BY <2>1, <2>2, Zenon
<1>4. CASE cr.pending = <<>>
  <2>1. cr' = [c EXCEPT !.step = "delayed", !.passed = (c.clock + CrTickMod - c.last) % CrTickMod]
    BY <1>2, <1>4, Zenon DEF CheckPendingReadyList, c
  <2>2. CrInv([c EXCEPT !.step = "delayed", !.passed = (c.clock + CrTickMod - c.last) % CrTickMod])
    BY <1>2, ToDelayedInv, Zenon
  <2> QED
    BY <2>1, <2>2, Zenon
<1> QED
  BY <1>3, <1>4

LEMMA CheckDelayedStep ==
  ASSUME CrInv(cr), CheckDelayedList
  PROVE  CrInv(cr')
<1> DEFINE c == Forget
<1>1. Forgotten(c)
  BY ForgetIs
<1> HIDE DEF c
<1>2. /\ CrInv(c) /\ c.timedOut = {} /\ c.step = "delayed"
      /\ c.passed = cr.passed /\ c.seen = cr.seen /\ (HeadDue(c) <=> HeadDue(cr)) /\ c.passed \in Nat
  <2>1. CrInv(c) /\ c.timedOut = {} /\ c.step = "delayed" /\ c.passed = cr.passed /\ c.seen = cr.seen
    BY <1>1 DEF Forgotten, CheckDelayedList
  <2>2. HeadDue(c) <=> HeadDue(cr)
    BY <1>1, Zenon DEF Forgotten, HeadDue
  <2>3. c.passed \in Nat
    BY <2>1 DEF CrInv, CrTypes
  <2> QED
    BY <2>1, <2>2, <2>3
<1>3. CASE HeadDue(cr)
  <2>1. cr' = EndDelay(c)
    BY <1>3, Zenon DEF CheckDelayedList, c
  <2>2. CrInv(EndDelay(c))
    BY <1>2, <1>3, EndDelayInv
  <2> QED
    BY <2>1, <2>2, Zenon
<1>4. CASE ~HeadDue(cr) /\ cr.passed > 0
  <2>1. cr' = CountTick(c)
    BY <1>4, SMT DEF CheckDelayedList, c
  <2>2. CrInv(CountTick(c))
    BY <1>2, <1>4, CountTickInv
  <2> QED
    BY <2>1, <2>2, Zenon
<1>5. CASE ~HeadDue(cr) /\ cr.passed = 0
  <2>1. cr' = [c EXCEPT !.last = c.seen % CrTickMod, !.step = "select"]
    BY <1>2, <1>5, SMT DEF CheckDelayedList, c
  <2>2. CrInv([c EXCEPT !.last = c.seen % CrTickMod, !.step = "select"])
    BY <1>2, <1>5, ToSelectInv, Zenon
  <2> QED
    BY <2>1, <2>2, Zenon
<1> QED
  BY <1>2, <1>3, <1>4, <1>5

LEMMA SelectStep ==
  ASSUME CrInv(cr), Select
  PROVE  CrInv(cr')
<1> DEFINE c == Forget
<1>1. Forgotten(c)
  BY ForgetIs
<1> HIDE DEF c
<1>2. /\ CrInv(c) /\ c.step = "select" /\ c.ready = cr.ready /\ c.top = cr.top
  BY <1>1 DEF Forgotten, Select
<1>3. CASE Occupied = {}
  <2>1. cr' = [c EXCEPT !.top = 0, !.step = "pending"]
    BY <1>3, Zenon DEF Select, c
  <2>2. CrInv([c EXCEPT !.top = 0, !.step = "pending"])
    BY <1>2, SelectNoneInv, Zenon
  <2> QED
    BY <2>1, <2>2, Zenon
<1>4. CASE Occupied # {}
  <2>1. cr' = Chosen(c, Highest)
    BY <1>2, <1>4, Zenon DEF Select, Chosen, c
  <2>2. Highest \in 0..c.top /\ c.ready[Highest].items # <<>>
    BY <1>2, <1>4, HighestIs DEF CrInv
  <2>3. CrInv(Chosen(c, Highest))
    BY <1>2, <2>2, ChosenInv, Zenon
  <2> QED
    BY <2>1, <2>3, Zenon
<1> QED
  BY <1>3, <1>4

\* The steps of the functions
LEMMA DelayStep ==
  ASSUME CrInv(cr), crDELAY
  PROVE  CrInv(cr')
<1> DEFINE c == Forget
<1>1. Forgotten(c)
  BY ForgetIs
<1> HIDE DEF c
<1>2. CrInv(c) /\ InFunction(c) /\ c.state[c.current] = "start"
  BY <1>1 DEF Forgotten, crDELAY, Runs, InFunction
<1>3. PICK ticks \in CrWaits : cr' = Returns(IF ticks > 0 THEN AddDelay(c, ticks) ELSE c, "start")
  BY Zenon DEF crDELAY, c
<1>4. CASE ticks > 0
  <2>1. CrInv(Returns(AddDelay(c, ticks), "start"))
    BY <1>2, <1>4, DelayInv
  <2> QED
    BY <1>3, <1>4, <2>1, Zenon
<1>5. CASE ~(ticks > 0)
  <2>1. CrInv(Returns(c, "start"))
    BY <1>2, NoDelayInv
  <2> QED
    BY <1>3, <1>5, <2>1, Zenon
<1> QED
  BY <1>4, <1>5

LEMMA SendChecksStep ==
  ASSUME CrInv(cr), NEW ticks \in CrWaits, SendChecks(ticks),
         \/ Runs("start")
         \/ Runs("send") /\ ticks = 0
  PROVE  CrInv(cr')
<1> DEFINE c == Forget
<1>1. Forgotten(c)
  BY ForgetIs
<1> HIDE DEF c
<1>2. /\ CrInv(c) /\ InFunction(c) /\ c.messages = cr.messages /\ c.messages \in 0..CrLength
      /\ c.state[c.current] \in {"start", "send"} /\ (ticks # 0 => c.state[c.current] = "start")
  <2>1. CrInv(c) /\ InFunction(c) /\ c.messages = cr.messages
    BY <1>1 DEF Forgotten, Runs, InFunction
  <2>2. c.messages \in 0..CrLength
    BY <2>1 DEF CrInv, CrTypes
  <2>3. c.state[c.current] \in {"start", "send"} /\ (ticks # 0 => c.state[c.current] = "start")
    BY <1>1 DEF Forgotten, Runs
  <2> QED
    BY <2>1, <2>2, <2>3
<1>3. ticks \in Nat /\ CrLength \in Nat
  BY CoRoutinesAssumption
<1>4. CASE cr.messages = CrLength /\ ticks > 0
  <2>1. cr' = Returns(WaitToSend(c, ticks), "send")
    BY <1>2, <1>3, <1>4, SMT DEF SendChecks, c
  <2>2. CrInv(Returns(WaitToSend(c, ticks), "send"))
    BY <1>2, <1>3, <1>4, WaitToSendInv
  <2> QED
    BY <2>1, <2>2, Zenon
<1>5. CASE cr.messages = CrLength /\ ticks = 0
  <2>1. cr' = GoesOn(c)
    BY <1>3, <1>5, SMT DEF SendChecks, c
  <2>2. CrInv(GoesOn(c))
    BY <1>2, <1>5, GoesOnInv
  <2> QED
    BY <2>1, <2>2, Zenon
<1>6. CASE cr.messages < CrLength
  <2>1. cr' = [c EXCEPT !.step = "send"]
    BY <1>2, <1>3, <1>6, SMT DEF SendChecks, c
  <2>2. CrInv([c EXCEPT !.step = "send"])
    BY <1>2, ChecksInv
  <2> QED
    BY <2>1, <2>2, Zenon
<1> QED
  BY <1>2, <1>3, <1>4, <1>5, <1>6

LEMMA ReceiveChecksStep ==
  ASSUME CrInv(cr), NEW ticks \in CrWaits, ReceiveChecks(ticks),
         \/ Runs("start")
         \/ Runs("receive") /\ ticks = 0
  PROVE  CrInv(cr')
<1> DEFINE c == Forget
<1>1. Forgotten(c)
  BY ForgetIs
<1> HIDE DEF c
<1>2. /\ CrInv(c) /\ InFunction(c) /\ c.messages = cr.messages /\ c.messages \in 0..CrLength
      /\ c.state[c.current] \in {"start", "receive"} /\ (ticks # 0 => c.state[c.current] = "start")
  <2>1. CrInv(c) /\ InFunction(c) /\ c.messages = cr.messages
    BY <1>1 DEF Forgotten, Runs, InFunction
  <2>2. c.messages \in 0..CrLength
    BY <2>1 DEF CrInv, CrTypes
  <2>3. c.state[c.current] \in {"start", "receive"} /\ (ticks # 0 => c.state[c.current] = "start")
    BY <1>1 DEF Forgotten, Runs
  <2> QED
    BY <2>1, <2>2, <2>3
<1>3. ticks \in Nat /\ CrLength \in Nat
  BY CoRoutinesAssumption
<1>4. CASE cr.messages = 0 /\ ticks > 0
  <2>1. cr' = Returns(WaitToReceive(c, ticks), "receive")
    BY <1>2, <1>3, <1>4, SMT DEF ReceiveChecks, c
  <2>2. CrInv(Returns(WaitToReceive(c, ticks), "receive"))
    BY <1>2, <1>3, <1>4, WaitToReceiveInv
  <2> QED
    BY <2>1, <2>2, Zenon
<1>5. CASE cr.messages = 0 /\ ticks = 0
  <2>1. cr' = GoesOn(c)
    BY <1>3, <1>5, SMT DEF ReceiveChecks, c
  <2>2. CrInv(GoesOn(c))
    BY <1>2, <1>5, GoesOnInv
  <2> QED
    BY <2>1, <2>2, Zenon
<1>6. CASE cr.messages > 0
  <2>1. cr' = [c EXCEPT !.step = "receive"]
    BY <1>2, <1>3, <1>6, SMT DEF ReceiveChecks, c
  <2>2. CrInv([c EXCEPT !.step = "receive"])
    BY <1>2, ChecksInv
  <2> QED
    BY <2>1, <2>2, Zenon
<1> QED
  BY <1>2, <1>3, <1>4, <1>5, <1>6

LEMMA SendCopiesStep ==
  ASSUME CrInv(cr), SendCopies
  PROVE  CrInv(cr')
<1> DEFINE c == Forget
<1>1. Forgotten(c)
  BY ForgetIs
<1> HIDE DEF c
<1>2. /\ CrInv(c) /\ c.step = "send" /\ InFunction(c) /\ c.messages = cr.messages
      /\ c.toReceive = cr.toReceive /\ c.messages \in 0..CrLength /\ c.state[c.current] # "receive"
  <2>1. CrInv(c) /\ c.step = "send" /\ InFunction(c) /\ c.messages = cr.messages
        /\ c.toReceive = cr.toReceive
    BY <1>1 DEF Forgotten, SendCopies, InFunction
  <2>2. c.messages \in 0..CrLength /\ c.state[c.current] # "receive"
    BY <2>1 DEF CrInv, CrTypes, Waits
  <2> QED
    BY <2>1, <2>2
<1>3. CASE cr.messages = CrLength
  <2>1. cr' = GoesOn(c)
    BY <1>3, Zenon DEF SendCopies, c
  <2>2. CrInv(GoesOn(c))
    BY <1>2, <1>3, GoesOnInv
  <2> QED
    BY <2>1, <2>2, Zenon
<1>4. CASE cr.messages # CrLength
  <2>1. PICK s : /\ Copied(s, c) /\ Called(s, c)
                 /\ cr' = GoesOn(s) \/ cr' = Returns(s, "start")
    <3>1. c.messages < CrLength
      BY <1>2, <1>4, CoRoutinesAssumption
    <3>2. CASE c.toReceive = <<>>
      <4>1. cr' = GoesOn(Sent(c))
        BY <1>2, <1>4, <3>2, Zenon DEF SendCopies, Sent, c
      <4>2. Copied(Sent(c), c) /\ Called(Sent(c), c)
        BY <1>2, <3>1, <3>2, SentIs DEF Called
      <4> QED
        BY <4>1, <4>2, Zenon
    <3>3. CASE c.toReceive # <<>>
      <4>1. \/ cr' = Returns(WakeReceiver(Sent(c)), "start")
            \/ cr' = GoesOn(WakeReceiver(Sent(c)))
        BY <1>2, <1>4, <3>3, Zenon DEF SendCopies, Sent, c
      <4>2. Copied(WakeReceiver(Sent(c)), c) /\ Called(WakeReceiver(Sent(c)), c)
        BY <1>2, <3>1, <3>3, WakesReceiver
      <4> QED
        BY <4>1, <4>2, Zenon
    <3> QED
      BY <3>2, <3>3
  <2>2. s \in CrTypes /\ s.current \in CoRoutine
    BY <1>2, <2>1, StillRuns DEF Copied, SameLeft
  <2>3. CASE cr' = GoesOn(s)
    <3>1. /\ GoesOn(s) \in CrTypes
          /\ GoesTo(GoesOn(s), s, "run", [s.state EXCEPT ![s.current] = "start"])
      BY <2>2, GoesOnIs
    <3>2. CrInv(GoesOn(s))
      BY <1>2, <2>1, <3>1, SendCopiesInv
    <3> QED
      BY <2>3, <3>2, Zenon
  <2>4. CASE cr' = Returns(s, "start")
    <3>1. /\ Returns(s, "start") \in CrTypes
          /\ GoesTo(Returns(s, "start"), s, "pending", [s.state EXCEPT ![s.current] = "start"])
      BY <2>2, ReturnsIs
    <3>2. CrInv(Returns(s, "start"))
      BY <1>2, <2>1, <3>1, SendCopiesInv
    <3> QED
      BY <2>4, <3>2, Zenon
  <2> QED
    BY <2>1, <2>3, <2>4
<1> QED
  BY <1>3, <1>4

LEMMA ReceiveCopiesStep ==
  ASSUME CrInv(cr), ReceiveCopies
  PROVE  CrInv(cr')
<1> DEFINE c == Forget
<1>1. Forgotten(c)
  BY ForgetIs
<1> HIDE DEF c
<1>2. /\ CrInv(c) /\ c.step = "receive" /\ InFunction(c) /\ c.messages = cr.messages
      /\ c.toSend = cr.toSend /\ c.messages \in 0..CrLength /\ c.state[c.current] # "send"
  <2>1. CrInv(c) /\ c.step = "receive" /\ InFunction(c) /\ c.messages = cr.messages
        /\ c.toSend = cr.toSend
    BY <1>1 DEF Forgotten, ReceiveCopies, InFunction
  <2>2. c.messages \in 0..CrLength /\ c.state[c.current] # "send"
    BY <2>1 DEF CrInv, CrTypes, Waits
  <2> QED
    BY <2>1, <2>2
<1>3. CASE cr.messages = 0
  <2>1. cr' = GoesOn(c)
    BY <1>3, Zenon DEF ReceiveCopies, c
  <2>2. CrInv(GoesOn(c))
    BY <1>2, <1>3, GoesOnInv
  <2> QED
    BY <2>1, <2>2, Zenon
<1>4. CASE cr.messages # 0
  <2>1. PICK s : /\ TakenFrom(s, c) /\ Freed(s, c)
                 /\ cr' = GoesOn(s) \/ cr' = Returns(s, "start")
    <3>1. c.messages > 0
      BY <1>2, <1>4, CoRoutinesAssumption
    <3>2. CASE c.toSend = <<>>
      <4>1. cr' = GoesOn(Received(c))
        BY <1>2, <1>4, <3>2, Zenon DEF ReceiveCopies, Received, c
      <4>2. TakenFrom(Received(c), c) /\ Freed(Received(c), c)
        BY <1>2, <3>1, <3>2, ReceivedIs DEF Freed
      <4> QED
        BY <4>1, <4>2, Zenon
    <3>3. CASE c.toSend # <<>>
      <4>1. \/ cr' = Returns(WakeSender(Received(c)), "start")
            \/ cr' = GoesOn(WakeSender(Received(c)))
        BY <1>2, <1>4, <3>3, Zenon DEF ReceiveCopies, Received, c
      <4>2. TakenFrom(WakeSender(Received(c)), c) /\ Freed(WakeSender(Received(c)), c)
        BY <1>2, <3>1, <3>3, WakesSender
      <4> QED
        BY <4>1, <4>2, Zenon
    <3> QED
      BY <3>2, <3>3
  <2>2. s \in CrTypes /\ s.current \in CoRoutine
    BY <1>2, <2>1, StillRuns DEF TakenFrom, SameLeft
  <2>3. CASE cr' = GoesOn(s)
    <3>1. /\ GoesOn(s) \in CrTypes
          /\ GoesTo(GoesOn(s), s, "run", [s.state EXCEPT ![s.current] = "start"])
      BY <2>2, GoesOnIs
    <3>2. CrInv(GoesOn(s))
      BY <1>2, <2>1, <3>1, ReceiveCopiesInv
    <3> QED
      BY <2>3, <3>2, Zenon
  <2>4. CASE cr' = Returns(s, "start")
    <3>1. /\ Returns(s, "start") \in CrTypes
          /\ GoesTo(Returns(s, "start"), s, "pending", [s.state EXCEPT ![s.current] = "start"])
      BY <2>2, ReturnsIs
    <3>2. CrInv(Returns(s, "start"))
      BY <1>2, <2>1, <3>1, ReceiveCopiesInv
    <3> QED
      BY <2>4, <3>2, Zenon
  <2> QED
    BY <2>1, <2>3, <2>4
<1> QED
  BY <1>3, <1>4

\* Interrupts
LEMMA SendFromISRStep ==
  ASSUME CrInv(cr), NEW woken \in BOOLEAN, xQueueCRSendFromISR(woken)
  PROVE  CrInv(cr')
<1> DEFINE c == Forget
<1>1. Forgotten(c)
  BY ForgetIs
<1> HIDE DEF c
<1>2. CrInv(c) /\ c.messages < CrLength /\ c.toReceive = cr.toReceive
  BY <1>1 DEF Forgotten, xQueueCRSendFromISR
<1>3. Copied(Sent(c), c) /\ Sent(c).toReceive = c.toReceive /\ Sent(c).pending = c.pending
  BY <1>2, SentIs
<1>4. CASE c.toReceive = <<>>
  <2>1. cr' = Sent(c)
    BY <1>2, <1>4, Zenon DEF xQueueCRSendFromISR, Sent, c
  <2>2. CrInv(Sent(c))
    BY <1>2, <1>3, <1>4, SendFromISRInv DEF Called
  <2> QED
    BY <2>1, <2>2, Zenon
<1>5. CASE c.toReceive # <<>> /\ woken
  <2>1. cr' = [Sent(c) EXCEPT !.missed = TRUE]
    BY <1>2, <1>5, Zenon DEF xQueueCRSendFromISR, Sent, c
  <2>2. CrInv([Sent(c) EXCEPT !.missed = TRUE])
    <3> DEFINE s == Sent(c)
    <3>1. /\ s \in CrTypes /\ AllListed(s) /\ SameLeft(s, c) /\ SameRows(s, c)
          /\ s.passed = c.passed /\ s.step = c.step /\ s.state = c.state
      BY <1>3 DEF Copied, SameRows
    <3> HIDE DEF s
    <3>2. CrInv([s EXCEPT !.missed = TRUE])
      BY <1>2, <3>1, MissedInv
    <3> QED
      BY <3>2 DEF s
  <2> QED
    BY <2>1, <2>2, Zenon
<1>6. CASE c.toReceive # <<>> /\ ~woken
  <2>1. cr' = WakeReceiver(Sent(c))
    BY <1>2, <1>6, Zenon DEF xQueueCRSendFromISR, Sent, c
  <2>2. CrInv(WakeReceiver(Sent(c)))
    BY <1>2, <1>6, WakesReceiver, SendFromISRInv
  <2> QED
    BY <2>1, <2>2, Zenon
<1> QED
  BY <1>4, <1>5, <1>6

LEMMA ReceiveFromISRStep ==
  ASSUME CrInv(cr), NEW woken \in BOOLEAN, xQueueCRReceiveFromISR(woken)
  PROVE  CrInv(cr')
<1> DEFINE c == Forget
<1>1. Forgotten(c)
  BY ForgetIs
<1> HIDE DEF c
<1>2. CrInv(c) /\ c.messages > 0 /\ c.toSend = cr.toSend
  BY <1>1 DEF Forgotten, xQueueCRReceiveFromISR
<1>3. TakenFrom(Received(c), c) /\ Received(c).toSend = c.toSend /\ Received(c).pending = c.pending
  BY <1>2, ReceivedIs
<1>4. CASE c.toSend = <<>>
  <2>1. cr' = Received(c)
    BY <1>2, <1>4, Zenon DEF xQueueCRReceiveFromISR, Received, c
  <2>2. CrInv(Received(c))
    BY <1>2, <1>3, <1>4, ReceiveFromISRInv DEF Freed
  <2> QED
    BY <2>1, <2>2, Zenon
<1>5. CASE c.toSend # <<>> /\ woken
  <2>1. cr' = [Received(c) EXCEPT !.missed = TRUE]
    BY <1>2, <1>5, Zenon DEF xQueueCRReceiveFromISR, Received, c
  <2>2. CrInv([Received(c) EXCEPT !.missed = TRUE])
    <3> DEFINE s == Received(c)
    <3>1. /\ s \in CrTypes /\ AllListed(s) /\ SameLeft(s, c) /\ SameRows(s, c)
          /\ s.passed = c.passed /\ s.step = c.step /\ s.state = c.state
      BY <1>3 DEF TakenFrom, SameRows
    <3> HIDE DEF s
    <3>2. CrInv([s EXCEPT !.missed = TRUE])
      BY <1>2, <3>1, MissedInv
    <3> QED
      BY <3>2 DEF s
  <2> QED
    BY <2>1, <2>2, Zenon
<1>6. CASE c.toSend # <<>> /\ ~woken
  <2>1. cr' = WakeSender(Received(c))
    BY <1>2, <1>6, Zenon DEF xQueueCRReceiveFromISR, Received, c
  <2>2. CrInv(WakeSender(Received(c)))
    BY <1>2, <1>6, WakesSender, ReceiveFromISRInv
  <2> QED
    BY <2>1, <2>2, Zenon
<1> QED
  BY <1>4, <1>5, <1>6

LEMMA CrTickStep ==
  ASSUME CrInv(cr), CrTick
  PROVE  CrInv(cr')
<1> DEFINE c == Forget
<1>1. Forgotten(c)
  BY ForgetIs
<1> HIDE DEF c
<1>2. CrInv(c) /\ c.timedOut = {} /\ c.clock - c.seen < MaxBehind
  BY <1>1 DEF Forgotten, CrTick
<1>3. cr' = [c EXCEPT !.clock = @ + 1]
  BY Zenon DEF CrTick, c
<1>4. CrInv([c EXCEPT !.clock = @ + 1])
  BY <1>2, TickInv, Zenon
<1> QED
  BY <1>3, <1>4, Zenon

-----------------------------------------------------------------------------
LEMMA CrSteps ==
  ASSUME CrInv(cr), [CrNext]_cr
  PROVE  CrInv(cr')
<1>1. CASE UNCHANGED cr
  BY <1>1, Zenon
<1>2. ASSUME NEW x \in CoRoutine, xCoRoutineCreate(x)
      PROVE  CrInv(cr')
  BY <1>2, CreateStep
<1>3. CASE FirstCall \/ CheckPendingReadyList \/ CheckDelayedList \/ Select
  BY <1>3, FirstCallStep, CheckPendingStep, CheckDelayedStep, SelectStep
<1>4. CASE crDELAY
  BY <1>4, DelayStep
<1>5. CASE crQUEUE_SEND
  <2>1. 0 \in CrWaits
    BY CoRoutinesAssumption
  <2>2. CASE Runs("start") /\ \E ticks \in CrWaits : SendChecks(ticks)
    BY <2>2, SendChecksStep
  <2>3. CASE Runs("send") /\ SendChecks(0)
    BY <2>1, <2>3, SendChecksStep
  <2> QED
    BY <1>5, <2>2, <2>3 DEF crQUEUE_SEND
<1>6. CASE crQUEUE_RECEIVE
  <2>1. 0 \in CrWaits
    BY CoRoutinesAssumption
  <2>2. CASE Runs("start") /\ \E ticks \in CrWaits : ReceiveChecks(ticks)
    BY <2>2, ReceiveChecksStep
  <2>3. CASE Runs("receive") /\ ReceiveChecks(0)
    BY <2>1, <2>3, ReceiveChecksStep
  <2> QED
    BY <1>6, <2>2, <2>3 DEF crQUEUE_RECEIVE
<1>7. CASE SendCopies \/ ReceiveCopies
  BY <1>7, SendCopiesStep, ReceiveCopiesStep
<1>8. ASSUME NEW woken \in BOOLEAN, xQueueCRSendFromISR(woken) \/ xQueueCRReceiveFromISR(woken)
      PROVE  CrInv(cr')
  <2>1. CASE xQueueCRSendFromISR(woken)
    BY <2>1, SendFromISRStep, Zenon
  <2>2. CASE xQueueCRReceiveFromISR(woken)
    BY <2>2, ReceiveFromISRStep, Zenon
  <2> QED
    BY <1>8, <2>1, <2>2
<1>9. CASE CrTick
  BY <1>9, CrTickStep
<1> QED
  BY <1>1, <1>2, <1>3, <1>4, <1>5, <1>6, <1>7, <1>8, <1>9, Zenon DEF CrNext

LEMMA ContainsIs ==
  ASSUME NEW s \in Rows(CoRoutine), NEW x
  PROVE  Contains(s, x) <=> x \in ToSet(s)
BY DEF Contains, ToSet, Rows

LEMMA CrInvSays == CrInv(cr) => CoRoutinesInTime
<1> SUFFICES ASSUME CrInv(cr) PROVE CoRoutinesInTime
  OBVIOUS
<1>1. cr \in CrTypes /\ AllListed(cr) /\ Clocks(cr) /\ Delays(cr) /\ Served(cr)
  BY DEF CrInv
<1>2. cr.toSend \in Rows(CoRoutine) /\ cr.toReceive \in Rows(CoRoutine) /\ cr.pending \in Rows(CoRoutine)
  BY <1>1 DEF CrTypes
<1>3. \A x \in Created(cr) : InReady(x) <=> IsReady(cr, x)
  <2> SUFFICES ASSUME NEW x \in Created(cr) PROVE InReady(x) <=> IsReady(cr, x)
    OBVIOUS
  <2>1. cr.priority[x] \in Levels
    BY <1>1, CreatedLevel DEF Created
  <2>2. cr.ready[cr.priority[x]].items \in Rows(CoRoutine)
    BY <1>1, <2>1 DEF CrTypes, Levels, ReadyLists
  <2> QED
    BY <2>2, ContainsIs DEF InReady, IsReady, Row
<1>4. \A x : WaitsFor(x) <=> x \in Waiting(cr)
  BY <1>2, ContainsIs DEF WaitsFor, Waiting
<1>5. \A x : Contains(cr.pending, x) <=> x \in ToSet(cr.pending)
  BY <1>2, ContainsIs
<1>6. Sleeping = Asleep(cr)
  BY DEF Sleeping, Asleep
<1>7. ASSUME NEW x \in Created(cr)
      PROVE  /\ InReady(x) <=> x \notin Sleeping
             /\ WaitsFor(x) \/ Contains(cr.pending, x) => x \in Sleeping
             /\ ~ (WaitsFor(x) /\ Contains(cr.pending, x))
  <2>1. ListedAt(cr, x)
    BY <1>1 DEF AllListed, Created
  <2> QED
    BY <1>3, <1>4, <1>5, <1>6, <2>1 DEF ListedAt
<1>8. \A t \in cr.timedOut : t = cr.seen
  BY <1>1 DEF Clocks
<1>9. cr.step = "select" => \A x \in Sleeping : cr.due[x] > cr.seen
  <2> SUFFICES ASSUME cr.step = "select", NEW x \in Asleep(cr) PROVE cr.due[x] > cr.seen
    BY <1>6
  <2>1. cr.seen < cr.due[x]
    BY <1>1 DEF Delays
  <2>2. x \in CoRoutine /\ cr.seen \in Nat /\ cr.due[x] \in Nat
    BY <1>1, EmptyRow DEF CrTypes, Asleep
  <2> QED
    BY <2>1, <2>2
<1>10. \A state : Tries(state) = Cardinality(Trying(cr, state))
  <2> SUFFICES ASSUME NEW state PROVE Tries(state) = Cardinality(Trying(cr, state))
    OBVIOUS
  <2>1. {x \in Created(cr) : cr.state[x] = state /\ ~ WaitsFor(x)} = Trying(cr, state)
    BY <1>4 DEF Trying
  <2> QED
    BY <2>1 DEF Tries
<1>11. ~ cr.missed =>
         /\ cr.toReceive # <<>> => cr.messages =< Tries("receive")
         /\ cr.toSend # <<>> => CrLength - cr.messages =< Tries("send")
  BY <1>1, <1>10 DEF Served
<1> QED
  BY <1>7, <1>8, <1>9, <1>11 DEF CoRoutinesInTime

\* For any co-routines, priorities, queue and wrap of the tick count: every
\* co-routine is in one list of the scheduler, and only a delayed one waits for the
\* queue or is pending; a delay ends at its tick, neither before nor after; nobody
\* waits for the queue while it could serve more than those already woken.
THEOREM CoRoutinesGoOnInTime == CrSpec => []CoRoutinesInTime
<1>1. CrInit => CrInv(cr)
  BY CrStarts
<1>2. CrInv(cr) /\ [CrNext]_cr => CrInv(cr)'
  BY CrSteps
<1>3. CrInv(cr) => CoRoutinesInTime
  BY CrInvSays
<1> QED
  BY <1>1, <1>2, <1>3, PTL DEF CrSpec
=============================================================================
