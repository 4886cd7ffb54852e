----------------------------- MODULE BoardProofs -----------------------------
(* What the parts of the board promise, for any of their constants.         *)
EXTENDS Board, TimeProofs, SequenceTheorems

-----------------------------------------------------------------------------
(* The events of GpioEvent for any pins, users and numbers of changes and   *)
(* calls.  A call is followed through its steps: its pin is switched off,   *)
(* then has no change bit, then no place in a run of the handler, so that   *)
(* its slot can be rewritten.                                               *)

(* The steps of an attach or a detach with the pin's notices off, and those *)
(* with its change bit gone.                                                *)
Gone == {"clear", "setCallback", "setData", "setPrevious", "own", "enable"}
Off  == Gone \cup {"readWas", "forget"}

(* A slot is whole except between the stores of its callback and its data. *)
SlotOK ==
    /\ \A p \in Pins : callback[p] = data[p] \/ (thread = "setData" /\ p = pin)
    /\ thread \in {"setData", "setPrevious", "own", "enable"} => callback[pin] = user
    /\ thread = "enable" => user # NoUser /\ pin \in owned
    /\ \A p \in cnen : callback[p] # NoUser

(* The pin of a call is out of the handler's sight. *)
QuietOK ==
    /\ thread \in Off => pin \notin cnen
    /\ thread \in Gone => pin \notin cnf
    /\ thread \in Gone /\ isr # "idle" => pin \notin pending
    /\ thread \in Gone /\ isr = "writeCnf" => pin \notin read

(* Once a call has dropped the flag, only another pin raises it. *)
FlagOK ==
    /\ flag => owned # {}
    /\ thread \in Gone \ {"clear"} /\ flag => cnen # {}

(* What a user was told is what its slot remembers. *)
ToldOK ==
    \A p \in Pins :
        callback[p] # NoUser /\ ~(p = pin /\ thread \in {"setData", "setPrevious"})
            => (p \in told <=> p \in previous)

(* A change is pending, about to be dispatched, told, or in masked. *)
SeenOK ==
    /\ \A p \in cnen \ masked :
           \/ p \in told <=> p \in level
           \/ p \in cnf /\ flag /\ isr = "idle"
           \/ p \in pending /\ isr = "dispatch"
    /\ thread = "forget" => cnf \ masked \subseteq was
    /\ thread = "forget" /\ isr = "writeCnf" => read \ masked \subseteq was
    /\ thread \in {"own", "enable"} /\ user # NoUser /\ pin \notin masked
           => (pin \in told <=> pin \in level)

IInv == TypeOK /\ CallsAreWhole /\ SlotOK /\ QuietOK /\ FlagOK /\ ToldOK /\ SeenOK
-----------------------------------------------------------------------------
(* The handler reads the change bits of owned pins. *)
LEMMA InterruptStep == IInv /\ Interrupt => IInv'
<1> SUFFICES ASSUME IInv, Interrupt PROVE IInv'
  OBVIOUS
<1> USE GpioEventAssumption DEF IInv, TypeOK, Steps, slots, regs, run, call, Gone, Off,
       Interrupt
<1>1. TypeOK'
  OBVIOUS
<1>2. CallsAreWhole'
  BY DEF CallsAreWhole
<1>3. SlotOK'
  BY DEF SlotOK
<1>4. QuietOK'
  BY DEF QuietOK
<1>5. FlagOK'
  BY DEF FlagOK
<1>6. ToldOK'
  BY DEF ToldOK
<1>7. SeenOK'
  BY DEF SeenOK
<1> QED
  BY <1>1, <1>2, <1>3, <1>4, <1>5, <1>6, <1>7

(* The handler compares and calls: no pin of a call under way is among its pins. *)
LEMMA DispatchStep == IInv /\ Dispatch => IInv'
<1> SUFFICES ASSUME IInv, Dispatch PROVE IInv'
  OBVIOUS
<1> USE GpioEventAssumption DEF IInv, TypeOK, Steps, slots, regs, run, call, Gone, Off,
       Dispatch, Changed
<1>1. TypeOK'
  OBVIOUS
<1>2. CallsAreWhole'
  BY DEF CallsAreWhole, SlotOK, QuietOK
<1>3. SlotOK'
  BY DEF SlotOK
<1>4. QuietOK'
  BY DEF QuietOK
<1>5. FlagOK'
  BY DEF FlagOK
<1>6. ToldOK'
  BY DEF ToldOK
<1>7. SeenOK'
  BY DEF SeenOK, SlotOK, QuietOK, ToldOK, FlagOK
<1> QED
  BY <1>1, <1>2, <1>3, <1>4, <1>5, <1>6, <1>7

(* The handler reads the change bits again, to clear those it handled. *)
LEMMA ReadCnfStep == IInv /\ ReadCnf => IInv'
<1> SUFFICES ASSUME IInv, ReadCnf PROVE IInv'
  OBVIOUS
<1> USE GpioEventAssumption DEF IInv, TypeOK, Steps, slots, regs, run, call, Gone, Off,
       ReadCnf
<1>1. TypeOK'
  OBVIOUS
<1>2. CallsAreWhole'
  BY DEF CallsAreWhole
<1>3. SlotOK'
  BY DEF SlotOK
<1>4. QuietOK'
  BY DEF QuietOK
<1>5. FlagOK'
  BY DEF FlagOK
<1>6. ToldOK'
  BY DEF ToldOK
<1>7. SeenOK'
  BY DEF SeenOK
<1> QED
  BY <1>1, <1>2, <1>3, <1>4, <1>5, <1>6, <1>7

(* The handler writes the change bits back. *)
LEMMA WriteCnfStep == IInv /\ WriteCnf => IInv'
<1> SUFFICES ASSUME IInv, WriteCnf PROVE IInv'
  OBVIOUS
<1> USE GpioEventAssumption DEF IInv, TypeOK, Steps, slots, regs, run, call, Gone, Off,
       WriteCnf
<1>1. TypeOK'
  OBVIOUS
<1>2. CallsAreWhole'
  BY DEF CallsAreWhole
<1>3. SlotOK'
  BY DEF SlotOK
<1>4. QuietOK'
  BY DEF QuietOK
<1>5. FlagOK'
  BY DEF FlagOK
<1>6. ToldOK'
  BY DEF ToldOK
<1>7. SeenOK'
  BY DEF SeenOK
<1> QED
  BY <1>1, <1>2, <1>3, <1>4, <1>5, <1>6, <1>7

(* The handler drops the flag: what it leaves untold fell into its run. *)
LEMMA ClearFlagStep == IInv /\ ClearFlag => IInv'
<1> SUFFICES ASSUME IInv, ClearFlag PROVE IInv'
  OBVIOUS
<1> USE GpioEventAssumption DEF IInv, TypeOK, Steps, slots, regs, run, call, Gone, Off,
       ClearFlag
<1>1. TypeOK'
  OBVIOUS
<1>2. CallsAreWhole'
  BY DEF CallsAreWhole
<1>3. SlotOK'
  BY DEF SlotOK
<1>4. QuietOK'
  BY DEF QuietOK
<1>5. FlagOK'
  BY DEF FlagOK
<1>6. ToldOK'
  BY DEF ToldOK
<1>7. SeenOK'
  BY DEF SeenOK
<1> QED
  BY <1>1, <1>2, <1>3, <1>4, <1>5, <1>6, <1>7

(* A call switches its pin's notices off. *)
LEMMA DisableStep == IInv /\ Disable => IInv'
<1> SUFFICES ASSUME IInv, Disable PROVE IInv'
  OBVIOUS
<1> USE GpioEventAssumption DEF IInv, TypeOK, Steps, slots, regs, run, call, Gone, Off,
       Disable, Runs
<1>1. TypeOK'
  OBVIOUS
<1>2. CallsAreWhole'
  BY DEF CallsAreWhole
<1>3. SlotOK'
  BY DEF SlotOK
<1>4. QuietOK'
  BY DEF QuietOK
<1>5. FlagOK'
  BY DEF FlagOK
<1>6. ToldOK'
  BY DEF ToldOK
<1>7. SeenOK'
  BY DEF SeenOK
<1> QED
  BY <1>1, <1>2, <1>3, <1>4, <1>5, <1>6, <1>7

(* A call reads the change bits. *)
LEMMA ReadWasStep == IInv /\ ReadWas => IInv'
<1> SUFFICES ASSUME IInv, ReadWas PROVE IInv'
  OBVIOUS
<1> USE GpioEventAssumption DEF IInv, TypeOK, Steps, slots, regs, run, call, Gone, Off,
       ReadWas, Runs
<1>1. TypeOK'
  OBVIOUS
<1>2. CallsAreWhole'
  BY DEF CallsAreWhole
<1>3. SlotOK'
  BY DEF SlotOK
<1>4. QuietOK'
  BY DEF QuietOK
<1>5. FlagOK'
  BY DEF FlagOK
<1>6. ToldOK'
  BY DEF ToldOK
<1>7. SeenOK'
  BY DEF SeenOK
<1> QED
  BY <1>1, <1>2, <1>3, <1>4, <1>5, <1>6, <1>7

(* A call writes them back without its pin: what that undoes changed after the read. *)
LEMMA ForgetStep == IInv /\ Forget => IInv'
<1> SUFFICES ASSUME IInv, Forget PROVE IInv'
  OBVIOUS
<1> USE GpioEventAssumption DEF IInv, TypeOK, Steps, slots, regs, run, call, Gone, Off,
       Forget, Runs
<1>1. TypeOK'
  OBVIOUS
<1>2. CallsAreWhole'
  BY DEF CallsAreWhole
<1>3. SlotOK'
  BY DEF SlotOK
<1>4. QuietOK'
  BY DEF QuietOK
<1>5. FlagOK'
  BY DEF FlagOK
<1>6. ToldOK'
  BY DEF ToldOK
<1>7. SeenOK'
  BY DEF SeenOK, QuietOK
<1> QED
  BY <1>1, <1>2, <1>3, <1>4, <1>5, <1>6, <1>7

(* A call drops the port's flag. *)
LEMMA DropForSlotStep == IInv /\ DropForSlot => IInv'
<1> SUFFICES ASSUME IInv, DropForSlot PROVE IInv'
  OBVIOUS
<1> USE GpioEventAssumption DEF IInv, TypeOK, Steps, slots, regs, run, call, Gone, Off,
       DropForSlot, DropFlag, Runs
<1>1. TypeOK'
  OBVIOUS
<1>2. CallsAreWhole'
  BY DEF CallsAreWhole
<1>3. SlotOK'
  BY DEF SlotOK
<1>4. QuietOK'
  BY DEF QuietOK
<1>5. FlagOK'
  BY DEF FlagOK
<1>6. ToldOK'
  BY DEF ToldOK
<1>7. SeenOK'
  BY DEF SeenOK
<1> QED
  BY <1>1, <1>2, <1>3, <1>4, <1>5, <1>6, <1>7

(* A call stores the callback, and the slot is torn. *)
LEMMA SetCallbackStep == IInv /\ SetCallback => IInv'
<1> SUFFICES ASSUME IInv, SetCallback PROVE IInv'
  OBVIOUS
<1> USE GpioEventAssumption DEF IInv, TypeOK, Steps, slots, regs, run, call, Gone, Off,
       SetCallback, Runs
<1>1. TypeOK'
  OBVIOUS
<1>2. CallsAreWhole'
  BY DEF CallsAreWhole
<1>3. SlotOK'
  BY DEF SlotOK, QuietOK
<1>4. QuietOK'
  BY DEF QuietOK
<1>5. FlagOK'
  BY DEF FlagOK
<1>6. ToldOK'
  BY DEF ToldOK
<1>7. SeenOK'
  BY DEF SeenOK
<1> QED
  BY <1>1, <1>2, <1>3, <1>4, <1>5, <1>6, <1>7

(* A call stores the data, and the slot is whole. *)
LEMMA SetDataStep == IInv /\ SetData => IInv'
<1> SUFFICES ASSUME IInv, SetData PROVE IInv'
  OBVIOUS
<1> USE GpioEventAssumption DEF IInv, TypeOK, Steps, slots, regs, run, call, Gone, Off,
       SetData, Runs
<1>1. TypeOK'
  OBVIOUS
<1>2. CallsAreWhole'
  BY DEF CallsAreWhole
<1>3. SlotOK'
  BY DEF SlotOK
<1>4. QuietOK'
  BY DEF QuietOK
<1>5. FlagOK'
  BY DEF FlagOK
<1>6. ToldOK'
  BY DEF ToldOK
<1>7. SeenOK'
  BY DEF SeenOK
<1> QED
  BY <1>1, <1>2, <1>3, <1>4, <1>5, <1>6, <1>7

(* A call stores the level, which is what the user knows. *)
LEMMA SetPreviousStep == IInv /\ SetPrevious => IInv'
<1> SUFFICES ASSUME IInv, SetPrevious PROVE IInv'
  OBVIOUS
<1> USE GpioEventAssumption DEF IInv, TypeOK, Steps, slots, regs, run, call, Gone, Off,
       SetPrevious, Runs, With
<1>1. TypeOK'
  OBVIOUS
<1>2. CallsAreWhole'
  BY DEF CallsAreWhole
<1>3. SlotOK'
  BY DEF SlotOK
<1>4. QuietOK'
  BY DEF QuietOK
<1>5. FlagOK'
  BY DEF FlagOK
<1>6. ToldOK'
  BY DEF ToldOK
<1>7. SeenOK'
  BY DEF SeenOK, SlotOK
<1> QED
  BY <1>1, <1>2, <1>3, <1>4, <1>5, <1>6, <1>7

(* A call takes or gives up its pin. *)
LEMMA OwnStep == IInv /\ Own => IInv'
<1> SUFFICES ASSUME IInv, Own PROVE IInv'
  OBVIOUS
<1> USE GpioEventAssumption DEF IInv, TypeOK, Steps, slots, regs, run, call, Gone, Off,
       Own, Runs, With
<1>1. TypeOK'
  BY DEF SlotOK
<1>2. CallsAreWhole'
  BY DEF CallsAreWhole
<1>3. SlotOK'
  BY DEF SlotOK
<1>4. QuietOK'
  BY DEF QuietOK
<1>5. FlagOK'
  BY DEF FlagOK, SlotOK
<1>6. ToldOK'
  BY DEF ToldOK
<1>7. SeenOK'
  BY DEF SeenOK
<1> QED
  BY <1>1, <1>2, <1>3, <1>4, <1>5, <1>6, <1>7

(* An attach switches its pin's notices on. *)
LEMMA EnableStep == IInv /\ Enable => IInv'
<1> SUFFICES ASSUME IInv, Enable PROVE IInv'
  OBVIOUS
<1> USE GpioEventAssumption DEF IInv, TypeOK, Steps, slots, regs, run, call, Gone, Off,
       Enable, Runs
<1>1. TypeOK'
  BY DEF SlotOK
<1>2. CallsAreWhole'
  BY DEF CallsAreWhole
<1>3. SlotOK'
  BY DEF SlotOK
<1>4. QuietOK'
  BY DEF QuietOK
<1>5. FlagOK'
  BY DEF FlagOK
<1>6. ToldOK'
  BY DEF ToldOK
<1>7. SeenOK'
  BY DEF SeenOK, SlotOK
<1> QED
  BY <1>1, <1>2, <1>3, <1>4, <1>5, <1>6, <1>7

(* A call that masks or unmasks the interrupt begins. *)
LEMMA IrqCallsStep == IInv /\ (IrqEnable \/ IrqDisable \/ IrqSetEnabled) => IInv'
<1> SUFFICES ASSUME IInv, IrqEnable \/ IrqDisable \/ IrqSetEnabled PROVE IInv'
  OBVIOUS
<1> USE GpioEventAssumption DEF IInv, TypeOK, Steps, slots, regs, run, call, Gone, Off,
       IrqEnable, IrqDisable, IrqSetEnabled, IrqCall, Calls, Runs
<1>1. TypeOK'
  OBVIOUS
<1>2. CallsAreWhole'
  BY DEF CallsAreWhole
<1>3. SlotOK'
  BY DEF SlotOK
<1>4. QuietOK'
  BY DEF QuietOK
<1>5. FlagOK'
  BY DEF FlagOK
<1>6. ToldOK'
  BY DEF ToldOK
<1>7. SeenOK'
  BY DEF SeenOK
<1> QED
  BY <1>1, <1>2, <1>3, <1>4, <1>5, <1>6, <1>7

(* Such a call drops the flag. *)
LEMMA DropsStep == IInv /\ (EnableDrop \/ DisableDrop) => IInv'
<1> SUFFICES ASSUME IInv, EnableDrop \/ DisableDrop PROVE IInv'
  OBVIOUS
<1> USE GpioEventAssumption DEF IInv, TypeOK, Steps, slots, regs, run, call, Gone, Off,
       EnableDrop, DisableDrop, DropFlag, Runs
<1>1. TypeOK'
  OBVIOUS
<1>2. CallsAreWhole'
  BY DEF CallsAreWhole
<1>3. SlotOK'
  BY DEF SlotOK
<1>4. QuietOK'
  BY DEF QuietOK
<1>5. FlagOK'
  BY DEF FlagOK
<1>6. ToldOK'
  BY DEF ToldOK
<1>7. SeenOK'
  BY DEF SeenOK
<1> QED
  BY <1>1, <1>2, <1>3, <1>4, <1>5, <1>6, <1>7

(* Such a call writes the enable bit. *)
LEMMA SwitchesStep == IInv /\ (EnableOn \/ DisableOff \/ SetEnabled) => IInv'
<1> SUFFICES ASSUME IInv, EnableOn \/ DisableOff \/ SetEnabled PROVE IInv'
  OBVIOUS
<1> USE GpioEventAssumption DEF IInv, TypeOK, Steps, slots, regs, run, call, Gone, Off,
       EnableOn, DisableOff, SetEnabled, SetIe, Runs
<1>1. TypeOK'
  OBVIOUS
<1>2. CallsAreWhole'
  BY DEF CallsAreWhole
<1>3. SlotOK'
  BY DEF SlotOK
<1>4. QuietOK'
  BY DEF QuietOK
<1>5. FlagOK'
  BY DEF FlagOK
<1>6. ToldOK'
  BY DEF ToldOK
<1>7. SeenOK'
  BY DEF SeenOK
<1> QED
  BY <1>1, <1>2, <1>3, <1>4, <1>5, <1>6, <1>7

(* An attach or a detach begins. *)
LEMMA CallStep ==
    IInv /\ (\E p \in Pins : Detach(p) \/ \E u \in Users : Attach(p, u)) => IInv'
<1> SUFFICES ASSUME IInv, \E p \in Pins : Detach(p) \/ \E u \in Users : Attach(p, u)
             PROVE  IInv'
  OBVIOUS
<1> USE GpioEventAssumption DEF IInv, TypeOK, Steps, slots, regs, run, call, Gone, Off,
       Detach, Attach, Calls, Runs
<1>1. TypeOK'
  OBVIOUS
<1>2. CallsAreWhole'
  BY DEF CallsAreWhole
<1>3. SlotOK'
  BY DEF SlotOK
<1>4. QuietOK'
  BY DEF QuietOK
<1>5. FlagOK'
  BY DEF FlagOK
<1>6. ToldOK'
  BY DEF ToldOK
<1>7. SeenOK'
  BY DEF SeenOK
<1> QED
  BY <1>1, <1>2, <1>3, <1>4, <1>5, <1>6, <1>7

(* A pin changes. *)
LEMMA EdgeStep == IInv /\ (\E p \in Pins : Edge(p)) => IInv'
<1> SUFFICES ASSUME IInv, \E p \in Pins : Edge(p) PROVE IInv'
  OBVIOUS
<1> USE GpioEventAssumption DEF IInv, TypeOK, Steps, slots, regs, run, call, Gone, Off,
       Edge, With, InTheMiddle
<1>1. TypeOK'
  OBVIOUS
<1>2. CallsAreWhole'
  BY DEF CallsAreWhole
<1>3. SlotOK'
  BY DEF SlotOK
<1>4. QuietOK'
  BY DEF QuietOK
<1>5. FlagOK'
  BY DEF FlagOK
<1>6. ToldOK'
  BY DEF ToldOK
<1>7. SeenOK'
  BY DEF SeenOK
<1> QED
  BY <1>1, <1>2, <1>3, <1>4, <1>5, <1>6, <1>7

-----------------------------------------------------------------------------
(* Nothing is attached at first. *)
LEMMA InitHolds == Init => IInv
<1> SUFFICES ASSUME Init PROVE IInv
  OBVIOUS
<1> USE GpioEventAssumption DEF Init
<1>1. TypeOK
  <2>1. callback \in [Pins -> Users \cup {NoUser}] /\ data \in [Pins -> Users \cup {NoUser}]
    OBVIOUS
  <2>2. level \subseteq Pins /\ pin \in Pins /\ thread \in Steps
    BY DEF Steps
  <2>3. calls \in 0 .. MaxCalls /\ edges \in 0 .. MaxEdges
    OBVIOUS
  <2> QED
    BY <2>1, <2>2, <2>3 DEF TypeOK
<1>2. CallsAreWhole /\ FlagOK /\ ToldOK
  BY DEF CallsAreWhole, FlagOK, ToldOK
<1>3. SlotOK /\ QuietOK /\ SeenOK
  BY DEF SlotOK, QuietOK, SeenOK, Off, Gone
<1> QED
  BY <1>1, <1>2, <1>3 DEF IInv

(* A step in which nothing changes. *)
LEMMA StutterStep == IInv /\ UNCHANGED vars => IInv'
BY DEF IInv, TypeOK, CallsAreWhole, SlotOK, QuietOK, FlagOK, ToldOK, SeenOK,
       vars, regs, slots, run, call

(* Every step preserves the invariant. *)
LEMMA NextHolds == IInv /\ [Next]_vars => IInv'
<1> SUFFICES ASSUME IInv, [Next]_vars PROVE IInv'
  OBVIOUS
<1>1. CASE Handler
  BY <1>1, InterruptStep, DispatchStep, ReadCnfStep, WriteCnfStep, ClearFlagStep DEF Handler
<1>2. CASE Thread
  <2>1. CASE \E p \in Pins : Detach(p) \/ \E u \in Users : Attach(p, u)
    BY <2>1, CallStep
  <2>2. CASE Disable \/ ReadWas \/ Forget \/ DropForSlot
    BY <2>2, DisableStep, ReadWasStep, ForgetStep, DropForSlotStep
  <2>3. CASE SetCallback \/ SetData \/ SetPrevious \/ Own \/ Enable
    BY <2>3, SetCallbackStep, SetDataStep, SetPreviousStep, OwnStep, EnableStep
  <2>4. CASE IrqEnable \/ IrqDisable \/ IrqSetEnabled
    BY <2>4, IrqCallsStep
  <2>5. CASE EnableDrop \/ DisableDrop
    BY <2>5, DropsStep
  <2>6. CASE EnableOn \/ DisableOff \/ SetEnabled
    BY <2>6, SwitchesStep
  <2> QED
    BY <1>2, <2>1, <2>2, <2>3, <2>4, <2>5, <2>6 DEF Thread
<1>3. CASE \E p \in Pins : Edge(p)
  BY <1>3, EdgeStep
<1>4. CASE UNCHANGED vars
  BY <1>4, StutterStep
<1> QED
  BY <1>1, <1>2, <1>3, <1>4 DEF Next

(* The invariant holds throughout. *)
LEMMA Invariant == Spec => []IInv
BY InitHolds, NextHolds, PTL DEF Spec

(* A run of the handler calls a pin's user only with a level it has not     *)
(* been told: what it was told is what the slot remembers, and the handler  *)
(* has compared the two.                                                    *)
LEMMA RunAlternates ==
    ASSUME IInv, [Next]_vars, called' # called, NEW c \in called'
    PROVE  (c.pin \in told') # (c.pin \in told)
<1>1. CASE Dispatch
  <2>1. PICK p \in Changed : callback[p] # NoUser /\ c.pin = p
    BY <1>1 DEF Dispatch
  <2>2. p \in pending /\ p \in Pins
    BY <2>1 DEF Changed, IInv, TypeOK
  <2>3. ~(p = pin /\ thread \in {"setData", "setPrevious"})
    BY <1>1, <2>2 DEF IInv, QuietOK, Gone, Dispatch
  <2>4. (p \in told) = (p \in previous)
    BY <2>1, <2>2, <2>3 DEF IInv, ToldOK
  <2>5. (p \in told') = (p \in level)
    BY <1>1, <2>1, <2>2 DEF Dispatch
  <2> QED
    BY <2>1, <2>4, <2>5 DEF Changed
<1>2. CASE Interrupt
  BY <1>2 DEF Interrupt
<1>3. CASE ~Dispatch /\ ~Interrupt
  <2>1. called' = called
    BY <1>3 DEF Next, Handler, Thread, ReadCnf, WriteCnf, ClearFlag, Attach, Detach,
         Disable, ReadWas, Forget, DropForSlot, DropFlag, SetCallback, SetData,
         SetPrevious, Own, Enable, IrqEnable, IrqDisable, IrqSetEnabled, IrqCall,
         EnableDrop, DisableDrop, EnableOn, DisableOff, SetEnabled, SetIe, Edge, vars
  <2> QED
    BY <2>1
<1> QED
  BY <1>1, <1>2, <1>3

(* nora_gpio_event_dspic33ak.c keeps its registers and slots within their   *)
(* ranges, and the hardware notices changes of owned pins only.             *)
THEOREM TypeCorrect == Spec => []TypeOK
<1>1. IInv => TypeOK
  BY DEF IInv
<1> QED
  BY <1>1, Invariant, PTL

(* nora_gpio_event_process_isr never calls from a slot that attach or       *)
(* detach is in the middle of rewriting.                                    *)
THEOREM CallsWhole == Spec => []CallsAreWhole
<1>1. IInv => CallsAreWhole
  BY DEF IInv
<1> QED
  BY <1>1, Invariant, PTL

(* nora_gpio_event_process_isr misses no change but those that fall into    *)
(* a run of its own or a call that clears the port's flag.                  *)
THEOREM ChangesTold == Spec => []ChangesAreTold
<1>1. IInv => ChangesAreTold
  BY DEF IInv, SeenOK, ChangesAreTold
<1> QED
  BY <1>1, Invariant, PTL

(* The port's interrupt always finds an owned pin, so its flag is cleared   *)
(* and it does not interrupt for ever.                                      *)
THEOREM FlagsOwned == Spec => []FlagHasOwner
<1>1. IInv => FlagHasOwner
  BY DEF IInv, FlagOK, FlagHasOwner
<1> QED
  BY <1>1, Invariant, PTL

(* The callbacks of a pin report rising and falling edges in turn.          *)
THEOREM Alternates == Spec => EdgesAlternate
<1>1. IInv /\ [Next]_vars =>
          [called' # called =>
               \A c \in called' : (c.pin \in told') # (c.pin \in told)]_vars
  BY RunAlternates
<1> QED
  BY <1>1, Invariant, PTL DEF Spec, EdgesAlternate

-----------------------------------------------------------------------------

(* The touch controller's lists. *)
Cores == [adc : BOOLEAN, on : BOOLEAN, started : BOOLEAN]
ListRecords == [up : BOOLEAN, running : BOOLEAN, config : ListConfigs]
NoCounts == [charge |-> 0, balance |-> 0, period |-> 0]
HwRecords == [enabled : BOOLEAN, busy : BOOLEAN, done : BOOLEAN,
              counts : {NoCounts} \cup {CountsOf(c) : c \in ListConfigs}]

ItcTyped == core \in Cores /\ lists \in [Lists -> ListRecords] /\ hw \in [Lists -> HwRecords]

\* The driver's own record of the core is never apart from the core's ON bit.
RecordIsTrue == core.on <=> core.started

\* What is programmed of a list that is up is what its configuration comes to.
CountsAreAsked == \A l \in Lists : lists[l].up => hw[l].counts = CountsOf(lists[l].config)

ItcInv == ItcTyped /\ RecordIsTrue /\ ListsAreServed /\ CountsAreAsked

LEMMA ItcInitInv == ItcInitState => ItcInv
<1> SUFFICES ASSUME ItcInitState PROVE ItcInv
  OBVIOUS
<1>1. (CHOOSE c \in ListConfigs : TRUE) \in ListConfigs
  BY ItcAssumption
<1>2. core \in Cores /\ ~core.on /\ ~core.started
  BY DEF ItcInitState, Cores
<1> DEFINE first == [up |-> FALSE, running |-> FALSE, config |-> CHOOSE c \in ListConfigs : TRUE]
           off   == [enabled |-> FALSE, busy |-> FALSE, done |-> FALSE, counts |-> NoCounts]
<1>3. first \in ListRecords /\ ~first.up /\ off \in HwRecords
  BY <1>1 DEF ListRecords, HwRecords
<1>4. lists = [l \in Lists |-> first] /\ hw = [l \in Lists |-> off]
  BY DEF ItcInitState, NoCounts
<1> HIDE DEF first, off
<1>5. QED
  BY <1>2, <1>3, <1>4 DEF ItcInv, ItcTyped, RecordIsTrue, ListsAreServed, CountsAreAsked

\* A step that leaves the core, and which lists are up, and takes no trigger from a list.
LEMMA ItcKept ==
  ASSUME ItcInv, ItcTyped', core' = core,
         \A l \in Lists : /\ lists'[l].up = lists[l].up /\ (hw[l].enabled => hw'[l].enabled)
                          /\ lists'[l].config = lists[l].config /\ hw'[l].counts = hw[l].counts
  PROVE  ItcInv'
BY DEF ItcInv, RecordIsTrue, ListsAreServed, CountsAreAsked

\* The core comes up, or was up, with the list that asked for it.
LEMMA ListComesUp ==
  ASSUME ItcInv, NEW l \in Lists, ItcTyped', core'.adc, core'.on, core'.started,
         lists'[l].up, hw'[l].enabled, hw'[l].counts = CountsOf(lists'[l].config),
         \A k \in Lists \ {l} : lists'[k] = lists[k] /\ hw'[k] = hw[k]
  PROVE  ItcInv'
BY DEF ItcInv, RecordIsTrue, ListsAreServed, CountsAreAsked

LEMMA InitKeeps ==
  ASSUME ItcInv, NEW l \in Lists, NEW c \in ListConfigs, NEW adcReady \in BOOLEAN,
         NEW coreReady \in BOOLEAN, ItcInit(l, c, adcReady, coreReady)
  PROVE  ItcInv'
<1>1. CASE UNCHANGED itcVars
  BY <1>1 DEF itcVars, ItcInv, ItcTyped, RecordIsTrue, ListsAreServed, CountsAreAsked
<1> DEFINE a == AdcStarts
<1>2. a \in Cores /\ a.adc /\ a.on = core.on /\ a.started = core.started
  BY DEF ItcInv, ItcTyped, Cores, AdcStarts
<1> HIDE DEF a
<1>3. CASE core' = a /\ UNCHANGED <<lists, hw>>
  BY <1>2, <1>3 DEF ItcInv, ItcTyped, RecordIsTrue, ListsAreServed, CountsAreAsked
<1> DEFINE s == CoreStarts(a, coreReady)
<1>4. s \in Cores /\ s.adc /\ (core.started => s = a) /\ (~core.started => s.on = coreReady /\ s.started = coreReady)
  BY <1>2 DEF CoreStarts, Cores
<1> HIDE DEF s
<1>5. CASE core' = s /\ ~core'.started /\ UNCHANGED <<lists, hw>>
  <2>1. ~core.started /\ ~s.on /\ ~core.on /\ ~s.started
    BY <1>2, <1>4, <1>5 DEF ItcInv, RecordIsTrue
  <2>2. QED
    BY <1>4, <1>5, <2>1 DEF ItcInv, ItcTyped, RecordIsTrue, ListsAreServed, CountsAreAsked
<1>6. CASE core' = s /\ core'.started /\ InitDone(l, c)
  <2>1. s.on /\ s.adc /\ s.started
    BY <1>2, <1>4, <1>6 DEF ItcInv, RecordIsTrue
  <2> DEFINE r == [up |-> TRUE, running |-> FALSE, config |-> c]
             h == [hw[l] EXCEPT !.enabled = TRUE, !.counts = CountsOf(c)]
  <2>2. /\ r \in ListRecords /\ r.up /\ r.config = c
        /\ h \in HwRecords /\ h.enabled /\ h.counts = CountsOf(c)
    BY DEF ListRecords, HwRecords, ItcInv, ItcTyped
  <2>3. lists' = [lists EXCEPT ![l] = r] /\ hw' = [hw EXCEPT ![l] = h]
    BY <1>6 DEF InitDone
  <2> HIDE DEF r, h
  <2>4. ItcTyped'
    BY <1>4, <1>6, <2>2, <2>3 DEF ItcInv, ItcTyped
  <2>5. QED
    BY <1>6, <2>1, <2>2, <2>3, <2>4, ListComesUp DEF ItcInv, ItcTyped
<1>7. QED
  BY <1>1, <1>3, <1>5, <1>6 DEF ItcInit, a, s

LEMMA DeinitKeeps ==
  ASSUME ItcInv, NEW l \in Lists, ItcDeinit(l)
  PROVE  ItcInv'
<1> DEFINE r == [lists[l] EXCEPT !.up = FALSE, !.running = FALSE]
           h == [hw[l] EXCEPT !.enabled = FALSE]
           off == [core EXCEPT !.on = FALSE, !.started = FALSE]
<1>1. r \in ListRecords /\ ~r.up /\ h \in HwRecords /\ off \in Cores /\ ~off.on /\ ~off.started
  BY DEF ListRecords, HwRecords, Cores, ItcInv, ItcTyped
<1>2. lists' = [lists EXCEPT ![l] = r] /\ hw' = [hw EXCEPT ![l] = h]
  BY DEF ItcDeinit
<1>3. core' = IF LastOne(l) THEN off ELSE core
  BY DEF ItcDeinit
<1> HIDE DEF r, h, off
<1>4. ItcTyped'
  BY <1>1, <1>2, <1>3 DEF ItcInv, ItcTyped
<1>5. /\ ~lists'[l].up
      /\ \A k \in Lists \ {l} : lists'[k] = lists[k] /\ hw'[k] = hw[k]
  BY <1>1, <1>2 DEF ItcInv, ItcTyped
<1>6. CASE LastOne(l)
  <2>1. \A k \in Lists : ~lists'[k].up
    BY <1>5, <1>6 DEF LastOne
  <2>2. QED
    BY <1>1, <1>3, <1>4, <1>6, <2>1 DEF ItcInv, RecordIsTrue, ListsAreServed, CountsAreAsked
<1>7. CASE ~LastOne(l)
  <2>1. PICK k \in Lists \ {l} : lists[k].up
    BY <1>7 DEF LastOne
  <2>2. core' = core /\ lists'[k].up
    BY <1>3, <1>5, <1>7, <2>1
  <2>3. QED
    BY <1>4, <1>5, <2>1, <2>2 DEF ItcInv, RecordIsTrue, ListsAreServed, CountsAreAsked
<1>8. QED
  BY <1>6, <1>7

\* Scans begin, run and end without touching the core or the triggers.
LEMMA ScansKeep ==
  ASSUME ItcInv, NEW l \in Lists, ScanStart(l) \/ ReadAll(l) \/ TimerStarts(l) \/ ScanEnds(l)
  PROVE  ItcInv'
<1>a. lists[l] \in ListRecords /\ hw[l] \in HwRecords /\ core \in Cores
  BY DEF ItcInv, ItcTyped
<1>1. CASE ScanStart(l)
  <2>1. PICK taken \in BOOLEAN : hw' = [hw EXCEPT ![l].enabled = TRUE, ![l].busy = taken]
    BY <1>1 DEF ScanStart
  <2> DEFINE r == [lists[l] EXCEPT !.running = TRUE]
             h == [hw[l] EXCEPT !.enabled = TRUE, !.busy = taken]
  <2>2. /\ r \in ListRecords /\ r.up = lists[l].up /\ r.config = lists[l].config
        /\ h \in HwRecords /\ h.enabled /\ h.counts = hw[l].counts
    BY <1>a DEF ListRecords, HwRecords
  <2>3. lists' = [lists EXCEPT ![l] = r] /\ hw' = [hw EXCEPT ![l] = h] /\ core' = core
    BY <1>1, <2>1 DEF ScanStart
  <2> HIDE DEF r, h
  <2>4. ItcTyped'
    BY <2>2, <2>3 DEF ItcInv, ItcTyped
  <2>5. QED
    BY <2>2, <2>3, <2>4, ItcKept DEF ItcInv, ItcTyped
<1>2. CASE ReadAll(l)
  <2> DEFINE r == [lists[l] EXCEPT !.running = FALSE]
             h == [hw[l] EXCEPT !.done = FALSE]
  <2>2. /\ r \in ListRecords /\ r.up = lists[l].up /\ r.config = lists[l].config
        /\ h \in HwRecords /\ h.enabled = hw[l].enabled /\ h.counts = hw[l].counts
    BY <1>a DEF ListRecords, HwRecords
  <2>3. lists' = [lists EXCEPT ![l] = r] /\ hw' = [hw EXCEPT ![l] = h] /\ core' = core
    BY <1>2 DEF ReadAll
  <2> HIDE DEF r, h
  <2>4. ItcTyped'
    BY <2>2, <2>3 DEF ItcInv, ItcTyped
  <2>5. QED
    BY <2>2, <2>3, <2>4, ItcKept DEF ItcInv, ItcTyped
<1>3. ASSUME NEW b \in BOOLEAN, NEW d \in BOOLEAN,
             hw' = [hw EXCEPT ![l] = [@ EXCEPT !.busy = b, !.done = d]], UNCHANGED <<core, lists>>
      PROVE  ItcInv'
  <2> DEFINE h == [hw[l] EXCEPT !.busy = b, !.done = d]
  <2>1. h \in HwRecords /\ h.enabled = hw[l].enabled /\ h.counts = hw[l].counts
    BY <1>a DEF HwRecords
  <2>2. hw' = [hw EXCEPT ![l] = h]
    BY <1>3
  <2> HIDE DEF h
  <2>3. ItcTyped'
    BY <1>3, <2>1, <2>2 DEF ItcInv, ItcTyped
  <2>4. QED
    BY <1>3, <2>1, <2>2, <2>3, ItcKept DEF ItcInv, ItcTyped
<1>4. CASE TimerStarts(l)
  <2>1. hw[l].done \in BOOLEAN /\ [hw[l] EXCEPT !.busy = TRUE] = [hw[l] EXCEPT !.busy = TRUE, !.done = hw[l].done]
    BY <1>a DEF HwRecords
  <2>2. hw' = [hw EXCEPT ![l] = [@ EXCEPT !.busy = TRUE, !.done = hw[l].done]]
    BY <1>4, <2>1 DEF TimerStarts
  <2>3. QED
    BY <1>3, <1>4, <2>1, <2>2 DEF TimerStarts
<1>5. CASE ScanEnds(l)
  <2>1. core.on \in BOOLEAN /\ hw' = [hw EXCEPT ![l] = [@ EXCEPT !.busy = FALSE, !.done = core.on]]
    BY <1>5, <1>a DEF ScanEnds, Cores
  <2>2. QED
    BY <1>3, <1>5, <2>1 DEF ScanEnds
<1>6. QED
  BY <1>1, <1>2, <1>4, <1>5

LEMMA ItcStepInv == ItcInv /\ [ItcNext]_itcVars => ItcInv'
<1> SUFFICES ASSUME ItcInv, [ItcNext]_itcVars PROVE ItcInv'
  OBVIOUS
<1>1. CASE UNCHANGED itcVars
  BY <1>1 DEF itcVars, ItcInv, ItcTyped, RecordIsTrue, ListsAreServed, CountsAreAsked
<1>2. CASE ItcNext
  BY <1>2, InitKeeps, DeinitKeeps, ScansKeep DEF ItcNext
<1>3. QED
  BY <1>1, <1>2

LEMMA RoundedUp ==
  ASSUME NEW x \in Nat, NEW d \in Nat \ {0}
  PROVE  (x + d - 1) \div d \in Nat /\ ((x + d - 1) \div d) * d >= x
<1> DEFINE n == x + d - 1
           q == n \div d
<1>1. n \in Nat
  OBVIOUS
<1>2. n \div d \in Nat /\ n % d \in 0 .. d - 1 /\ n = d * (n \div d) + (n % d)
  BY <1>1, Quotient
<1>3. q \in Nat /\ n < d * q + d
  BY <1>2
<1>4. n = x + d - 1
  OBVIOUS
<1> HIDE DEF n, q
<1>5. d * q \in Nat /\ q * d = d * q
  BY <1>3
<1>6. q * d >= x
  BY <1>3, <1>4, <1>5
<1> QED
  BY <1>3, <1>6 DEF n, q

\* The time in picoseconds of what is asked fits a word, and so the counts cover it.
LEMMA CountsMeet ==
  ASSUME NEW c \in ListConfigs, NEW ns \in Nat, ns * PerNs + Tad(c) <= WordSize
  PROVE  Counts(c, ns) * Tad(c) >= ns * PerNs
<1> DEFINE x == ns * PerNs
           d == Tad(c)
<1>1. c.clock \in Nat \ {0} /\ c.clock <= TadBase /\ TadBase \in Nat /\ PerNs \in Nat /\ WordSize \in Nat \ {0}
  BY ItcAssumption
<1>2. x \in Nat
  BY <1>1
<1>3. d \in Nat \ {0}
  <2> DEFINE f == c.clock
             q == TadBase \div f
             r == TadBase % f
  <2>1. f \in Nat \ {0} /\ f <= TadBase
    BY <1>1
  <2>2. d = q
    BY DEF Tad
  <2> HIDE DEF f
  <2>3. q \in Nat /\ r \in 0 .. f - 1 /\ TadBase = f * q + r
    BY <1>1, <2>1, Quotient
  <2> HIDE DEF q, r
  <2>4. q # 0
    BY <1>1, <2>1, <2>3
  <2> HIDE DEF d
  <2> QED
    BY <2>2, <2>3, <2>4
<1>4. x + d <= WordSize
  OBVIOUS
<1>5. Counts(c, ns) = InWord(InWord(x) + d - 1) \div d
  BY DEF Counts
<1> HIDE DEF x, d
<1>6. InWord(x) = x
  BY <1>1, <1>2, <1>3, <1>4 DEF InWord
<1>7. InWord(x + d - 1) = x + d - 1
  BY <1>1, <1>2, <1>3, <1>4 DEF InWord
<1>8. Counts(c, ns) * d >= x
  BY <1>2, <1>3, <1>5, <1>6, <1>7, RoundedUp
<1> QED
  BY <1>8 DEF x, d

LEMMA ItcPromise == ItcInv => TimesAreMet
<1> SUFFICES ASSUME ItcInv, NEW l \in Lists, lists[l].up
             PROVE  LET c == lists[l].config
                        Met(count, ns) == ns * PerNs + Tad(c) <= WordSize => count * Tad(c) >= ns * PerNs
                    IN  Met(hw[l].counts.charge, c.charge) /\ Met(hw[l].counts.balance, c.balance)
  BY DEF TimesAreMet
<1> DEFINE c == lists[l].config
<1>1. c \in ListConfigs
  BY DEF ItcInv, ItcTyped, ListRecords
<1>2. c.charge \in Nat /\ c.balance \in Nat
  BY <1>1, ItcAssumption
<1>3. hw[l].counts = CountsOf(c)
  BY DEF ItcInv, CountsAreAsked
<1>4. hw[l].counts.charge = Counts(c, c.charge) /\ hw[l].counts.balance = Counts(c, c.balance)
  BY <1>3 DEF CountsOf
<1> HIDE DEF c
<1> QED
  BY <1>1, <1>2, <1>4, CountsMeet DEF c

-----------------------------------------------------------------------------
(* The pins.  Of the row of operations that a call has left, each aims at a *)
(* register that is still as it was when the call began, and the others are *)
(* already as the call wants them; the pin begins to drive with the last.   *)

PinNames == Pads \cup Lights
PortSet == [Registers -> SUBSET PinNames]
Ops == [how : {"set", "clear", "toggle"}, reg : Registers, pad : PinNames]
JobSet == [ops : Seq(Ops), pad : EndPoints \cup {"none"}, fn : Functions \cup Inputs \cup {"none"},
           mux : BOOLEAN, aim : PortSet]
Left(s) == {s[i].reg : i \in DOMAIN s}

\* A row of operations: one for each register at most; only levels are toggled; that which
\* ends to drive is the first and that which begins to is the last; one pull is set at most.
RowOK(s) == /\ \A i, j \in DOMAIN s : s[i].reg = s[j].reg => i = j
            /\ \A i \in DOMAIN s : s[i].how = "toggle" => s[i].reg = "LAT"
            /\ \A i \in DOMAIN s : s[i].reg = "TRIS" => i = IF s[i].how = "set" THEN 1 ELSE Len(s)
            /\ \A i, j \in DOMAIN s : s[i].reg = "CNPU" /\ s[j].reg = "CNPD" => ~(s[i].how = "set" /\ s[j].how = "set")
\* A pull is set only behind the clearing of the other one.
PullsOK(s, rs) ==
  \A i \in DOMAIN s, r, q \in {"CNPU", "CNPD"} :
    s[i].how = "set" /\ s[i].reg = r /\ q # r => s[i].pad \notin rs[q] \/ \E j \in 1 .. i - 1 : s[j].reg = q /\ s[j].how = "clear"

PinTyped ==
  /\ port \in PortSet /\ asked \in PortSet /\ job \in JobSet
  /\ DOMAIN route = Pads \cup Lights \cup Virtual
  /\ held \in [is : BOOLEAN, bits : SUBSET PinNames]

JobOK ==
  /\ job.ops # <<>> => job.pad \in Pads
  /\ \A i \in DOMAIN job.ops : job.ops[i].pad = job.pad
  /\ RowOK(job.ops) /\ PullsOK(job.ops, port)
  /\ ~NoCall => job.aim = AllApplied(job.ops, port)
  /\ \A r \in Left(job.ops) : port[r] = asked[r]
  /\ \A i \in DOMAIN job.ops : job.ops[i].reg = "TRIS" /\ job.ops[i].how = "set" => port = asked
  /\ job.ops # <<>> /\ "TRIS" \notin Left(job.ops) /\ job.pad \notin port["TRIS"] => job.pad \notin asked["TRIS"]
  /\ held.is => job.ops # <<>> /\ held.bits = port[Head(job.ops).reg]

PullsApart == port["CNPU"] \cap port["CNPD"] = {}

MuxAims ==
  job.mux => /\ job.fn \in Functions \cup Inputs
             /\ job.pad \in Pads => /\ job.pad \notin job.aim["ANSEL"]
                                    /\ job.fn \in Functions => job.pad \notin job.aim["TRIS"]
                                    /\ job.fn \in Inputs => job.pad \in job.aim["TRIS"]

PinInv == PinTyped /\ JobOK /\ PullsApart /\ MuxAims /\ PinsAreAsAsked /\ MuxIsWhole

-----------------------------------------------------------------------------
\* What a row makes of a register it aims at, and of one it leaves alone.
LEMMA AppliedAt ==
  ASSUME NEW s, RowOK(s), NEW rs, NEW i \in DOMAIN s, s[i].reg \in Registers
  PROVE  AllApplied(s, rs)[s[i].reg] = Applied(s[i], rs[s[i].reg])
<1>1. OnReg(s, s[i].reg) = {s[i]}
  BY DEF OnReg, RowOK
<1>2. (CHOOSE op \in {s[i]} : TRUE) = s[i]
  OBVIOUS
<1> QED
  BY <1>1, <1>2 DEF AllApplied

LEMMA NotLeft ==
  ASSUME NEW s, NEW rs, NEW r \in Registers, r \notin Left(s)
  PROVE  AllApplied(s, rs)[r] = rs[r]
<1>1. OnReg(s, r) = {}
  BY DEF OnReg, Left
<1> QED
  BY <1>1 DEF AllApplied

LEMMA NoneLeft == ASSUME NEW rs \in PortSet PROVE AllApplied(<<>>, rs) = rs
<1>1. \A r \in Registers : AllApplied(<<>>, rs)[r] = rs[r]
  BY NotLeft DEF Left
<1> QED
  BY <1>1 DEF AllApplied, PortSet

\* Bits are those of pins.
LEMMA AppliedType ==
  ASSUME NEW op \in Ops, NEW bits \in SUBSET PinNames
  PROVE  Applied(op, bits) \in SUBSET PinNames
BY DEF Ops, Applied

LEMMA AllAppliedType ==
  ASSUME NEW s \in Seq(Ops), RowOK(s), NEW rs \in PortSet
  PROVE  AllApplied(s, rs) \in PortSet
<1> SUFFICES ASSUME NEW r \in Registers PROVE AllApplied(s, rs)[r] \in SUBSET PinNames
  BY DEF AllApplied, PortSet
<1>1. rs[r] \in SUBSET PinNames
  BY DEF PortSet
<1>2. CASE r \in Left(s)
  <2>1. PICK i \in DOMAIN s : s[i].reg = r
    BY <1>2 DEF Left
  <2>2. s[i] \in Ops
    BY <2>1
  <2> QED
    BY <1>1, <2>1, <2>2, AppliedAt, AppliedType
<1> QED
  BY <1>1, <1>2, NotLeft

\* The rest of a row.
LEMMA RowTail ==
  ASSUME NEW s \in Seq(Ops), s # <<>>, RowOK(s), NEW t, t = Tail(s)
  PROVE  /\ t \in Seq(Ops) /\ RowOK(t) /\ 1 \in DOMAIN s /\ Head(s) = s[1] /\ s[1] \in Ops
         /\ \A i \in DOMAIN t : i + 1 \in DOMAIN s /\ t[i] = s[i + 1] /\ i \in Nat \ {0}
         /\ \A i \in DOMAIN s \ {1} : i - 1 \in DOMAIN t /\ t[i - 1] = s[i]
         /\ s[1].reg \notin Left(t) /\ Left(s) = Left(t) \cup {s[1].reg}
         /\ s[1].reg = "TRIS" /\ s[1].how = "clear" => t = <<>>
<1>1. PICK n \in Nat \ {0} : n = Len(s)
  OBVIOUS
<1>2. DOMAIN s = 1 .. n /\ Head(s) = s[1] /\ \A i \in 1 .. n : s[i] \in Ops
  BY <1>1
<1>3. t \in Seq(Ops) /\ Len(t) = n - 1 /\ DOMAIN t = 1 .. n - 1 /\ \A i \in 1 .. n - 1 : t[i] = s[i + 1]
  BY <1>1, HeadTailProperties
<1>4. /\ \A i \in DOMAIN t : i + 1 \in DOMAIN s /\ t[i] = s[i + 1] /\ i \in Nat \ {0}
      /\ \A i \in DOMAIN s \ {1} : i - 1 \in DOMAIN t /\ t[i - 1] = s[i]
  BY <1>2, <1>3
<1>5. RowOK(t)
  <2>1. \A i, j \in DOMAIN t : t[i].reg = t[j].reg => i = j
    <3> SUFFICES ASSUME NEW i \in DOMAIN t, NEW j \in DOMAIN t, t[i].reg = t[j].reg PROVE i = j
      OBVIOUS
    <3>1. i + 1 = j + 1
      BY <1>4 DEF RowOK
    <3> QED
      BY <1>4, <3>1
  <2>2. \A i \in DOMAIN t : t[i].how = "toggle" => t[i].reg = "LAT"
    BY <1>4 DEF RowOK
  <2>3. \A i \in DOMAIN t : t[i].reg = "TRIS" => i = IF t[i].how = "set" THEN 1 ELSE Len(t)
    <3> SUFFICES ASSUME NEW i \in DOMAIN t, t[i].reg = "TRIS" PROVE i = IF t[i].how = "set" THEN 1 ELSE Len(t)
      OBVIOUS
    <3>1. i + 1 = IF s[i + 1].how = "set" THEN 1 ELSE n
      BY <1>1, <1>4 DEF RowOK
    <3> QED
      BY <1>3, <1>4, <3>1
  <2>4. \A i, j \in DOMAIN t : t[i].reg = "CNPU" /\ t[j].reg = "CNPD" => ~(t[i].how = "set" /\ t[j].how = "set")
    BY <1>4 DEF RowOK
  <2> QED
    BY <2>1, <2>2, <2>3, <2>4 DEF RowOK
<1>6. s[1].reg \notin Left(t)
  <2> SUFFICES ASSUME NEW i \in DOMAIN t, t[i].reg = s[1].reg PROVE FALSE
    BY DEF Left
  <2>1. i + 1 = 1
    BY <1>1, <1>2, <1>4 DEF RowOK
  <2> QED
    BY <1>4, <2>1
<1>7. Left(s) = Left(t) \cup {s[1].reg}
  BY <1>1, <1>2, <1>4 DEF Left
<1>8. s[1].reg = "TRIS" /\ s[1].how = "clear" => t = <<>>
  <2> SUFFICES ASSUME s[1].reg = "TRIS", s[1].how = "clear" PROVE t = <<>>
    OBVIOUS
  <2>1. n = 1
    BY <1>1, <1>2 DEF RowOK
  <2> QED
    BY <1>3, <2>1, EmptySeq
<1> QED
  BY <1>1, <1>2, <1>3, <1>4, <1>5, <1>6, <1>7, <1>8

-----------------------------------------------------------------------------
(* The rows of the calls.                                                   *)

\* Every row that a call begins with, and the registers it aims at for the pin.
Fits(s, p) == s \in Seq(Ops) /\ RowOK(s) /\ PullsOK(s, port) /\ \A i \in DOMAIN s : s[i].pad = p

LEMMA OneOp ==
  ASSUME NEW op \in Ops, op.reg \notin {"CNPU", "CNPD"}, op.how = "toggle" => op.reg = "LAT"
  PROVE  Fits(<<op>>, op.pad)
<1>1. <<op>> \in Seq(Ops) /\ DOMAIN <<op>> = {1} /\ Len(<<op>>) = 1 /\ <<op>>[1] = op
  OBVIOUS
<1> DEFINE s == <<op>>
<1> HIDE DEF s
<1> QED
  BY <1>1 DEF Fits, RowOK, PullsOK, s

\* What the pulls are set by.
Pulling(a, b) == /\ a.how = "clear" /\ b.how \in {"set", "clear"}
                 /\ <<a.reg, b.reg>> \in {<<"CNPD", "CNPU">>, <<"CNPU", "CNPD">>}

LEMMA TwoOps ==
  ASSUME NEW a \in Ops, NEW b \in Ops, Pulling(a, b), a.pad = b.pad
  PROVE  Fits(<<a, b>>, a.pad)
<1>1. <<a, b>> \in Seq(Ops) /\ DOMAIN <<a, b>> = {1, 2} /\ Len(<<a, b>>) = 2 /\ <<a, b>>[1] = a /\ <<a, b>>[2] = b
  OBVIOUS
<1> DEFINE s == <<a, b>>
<1> HIDE DEF s
<1>2. RowOK(s)
  BY <1>1 DEF RowOK, Pulling, s
<1>3. PullsOK(s, port)
  BY <1>1 DEF PullsOK, Pulling, s
<1> QED
  BY <1>1, <1>2, <1>3 DEF Fits, s

LEMMA InputRow ==
  ASSUME NEW p, NEW s \in Seq(Ops), Len(s) = 5, s[1].reg = "TRIS", s[1].how = "set", s[2].reg = "ANSEL", s[2].how # "toggle",
         Pulling(s[3], s[4]), s[5].reg = "ODC", s[5].how # "toggle", \A i \in 1 .. 5 : s[i].pad = p
  PROVE  Fits(s, p)
<1>1. s \in Seq(Ops) /\ DOMAIN s = {1, 2, 3, 4, 5} /\ Len(s) = 5 /\ \A i \in DOMAIN s : s[i].pad = p
  OBVIOUS
<1>2. RowOK(s)
  <2>1. \A i, j \in DOMAIN s : s[i].reg = s[j].reg => i = j
    BY <1>1 DEF Pulling
  <2> QED
    BY <1>1, <2>1 DEF RowOK, Pulling
<1>3. PullsOK(s, port)
  <2>1. ASSUME NEW i \in DOMAIN s, s[i].how = "set", s[i].reg \in {"CNPU", "CNPD"}
        PROVE  i = 4 /\ 3 \in 1 .. i - 1 /\ s[3].how = "clear" /\ \A q \in {"CNPU", "CNPD"} : q # s[i].reg => s[3].reg = q
    BY <1>1, <2>1 DEF Pulling
  <2> QED
    BY <2>1 DEF PullsOK
<1> QED
  BY <1>1, <1>2, <1>3 DEF Fits

LEMMA OutputRow ==
  ASSUME NEW p, NEW s \in Seq(Ops), Len(s) = 6, s[1].reg = "ANSEL", s[1].how # "toggle", Pulling(s[2], s[3]),
         s[4].reg = "ODC", s[4].how # "toggle", s[5].reg = "LAT", s[6].reg = "TRIS", s[6].how = "clear",
         \A i \in 1 .. 6 : s[i].pad = p
  PROVE  Fits(s, p)
<1>1. s \in Seq(Ops) /\ DOMAIN s = {1, 2, 3, 4, 5, 6} /\ Len(s) = 6 /\ \A i \in DOMAIN s : s[i].pad = p
  OBVIOUS
<1>2. RowOK(s)
  <2>1. \A i, j \in DOMAIN s : s[i].reg = s[j].reg => i = j
    BY <1>1 DEF Pulling
  <2> QED
    BY <1>1, <2>1 DEF RowOK, Pulling
<1>3. PullsOK(s, port)
  <2>1. ASSUME NEW i \in DOMAIN s, s[i].how = "set", s[i].reg \in {"CNPU", "CNPD"}
        PROVE  i = 3 /\ 2 \in 1 .. i - 1 /\ s[2].how = "clear" /\ \A q \in {"CNPU", "CNPD"} : q # s[i].reg => s[2].reg = q
    BY <1>1, <2>1 DEF Pulling
  <2> QED
    BY <2>1 DEF PullsOK
<1> QED
  BY <1>1, <1>2, <1>3 DEF Fits

LEMMA PullOps ==
  ASSUME NEW p \in PinNames, NEW pull \in {"UP", "DOWN", "NONE"}
  PROVE  \E a, b \in Ops : SetPull(p, pull) = <<a, b>> /\ Pulling(a, b) /\ a.pad = p /\ b.pad = p
<1> DEFINE a == IF pull = "UP" THEN Op("clear", "CNPD", p) ELSE Op("clear", "CNPU", p)
           b == CASE pull = "UP" -> Op("set", "CNPU", p) [] pull = "DOWN" -> Op("set", "CNPD", p)
                  [] pull = "NONE" -> Op("clear", "CNPD", p)
<1>1. a \in Ops /\ b \in Ops /\ Pulling(a, b) /\ a.pad = p /\ b.pad = p
  BY DEF Op, Ops, Registers, Pulling
<1>2. SetPull(p, pull) = <<a, b>>
  BY DEF SetPull
<1> QED
  BY <1>1, <1>2

\* Rows joined one operation after the other.
LEMMA JoinedTwo ==
  ASSUME NEW u \in Seq(Ops), NEW a \in Ops, NEW b \in Ops
  PROVE  u \o <<a, b>> = Append(Append(u, a), b)
<1>1. <<a, b>> = Append(<<a>>, b) /\ <<a>> \in Seq(Ops) /\ <<b>> \in Seq(Ops)
  OBVIOUS
<1>2. <<a, b>> = <<a>> \o <<b>> /\ u \o <<a>> = Append(u, a)
  BY <1>1, AppendIsConcat
<1>3. u \o (<<a>> \o <<b>>) = (u \o <<a>>) \o <<b>>
  BY <1>1, ConcatAssociative
<1>4. (u \o <<a>>) \o <<b>> = Append(Append(u, a), b)
  BY <1>1, <1>2, AppendIsConcat, AppendProperties
<1> QED
  BY <1>2, <1>3, <1>4

LEMMA Chained ==
  ASSUME NEW t \in Ops, NEW n \in Ops, NEW a \in Ops, NEW b \in Ops, NEW d \in Ops, NEW l \in Ops
  PROVE  /\ <<n>> \o <<a, b>> \o <<d>> \o <<l, t>> = Append(Append(Append(Append(Append(<<n>>, a), b), d), l), t)
         /\ <<t>> \o <<n>> \o <<a, b>> \o <<d>> \o <<>> = Append(Append(Append(Append(<<t>>, n), a), b), d)
<1>1. ASSUME NEW u \in Seq(Ops) PROVE u \o <<a, b>> \o <<d>> = Append(Append(Append(u, a), b), d)
  BY <1>1, JoinedTwo, AppendIsConcat, AppendProperties
<1> DEFINE w(u) == Append(Append(Append(u, a), b), d)
<1>2. ASSUME NEW u \in Seq(Ops) PROVE w(u) \in Seq(Ops)
  BY <1>2, AppendProperties
<1> HIDE DEF w
<1>3. <<n>> \o <<a, b>> \o <<d>> \o <<l, t>> = Append(Append(w(<<n>>), l), t)
  BY <1>1, <1>2, JoinedTwo DEF w
<1>4. <<t>> \o <<n>> = Append(<<t>>, n) /\ Append(<<t>>, n) \in Seq(Ops)
  BY AppendIsConcat
<1>5. <<t>> \o <<n>> \o <<a, b>> \o <<d>> \o <<>> = w(Append(<<t>>, n))
  BY <1>1, <1>2, <1>4, ConcatEmptySeq DEF w
<1> QED
  BY <1>3, <1>5 DEF w

LEMMA ConfigFits ==
  ASSUME NEW p \in PinNames, NEW c, c.pull \in {"UP", "DOWN", "NONE"},
         c.out \in BOOLEAN, c.analog \in BOOLEAN, c.drain \in BOOLEAN, c.high \in BOOLEAN
  PROVE  /\ Fits(Config(p, c), p)
         /\ ~c.analog => p \notin AllApplied(Config(p, c), port)["ANSEL"]
         /\ c.out => p \notin AllApplied(Config(p, c), port)["TRIS"]
         /\ ~c.out => p \in AllApplied(Config(p, c), port)["TRIS"]
<1> DEFINE n == Op(IF c.analog THEN "set" ELSE "clear", "ANSEL", p)
           d == Op(IF c.drain THEN "set" ELSE "clear", "ODC", p)
           l == Op(IF c.high THEN "set" ELSE "clear", "LAT", p)
           t == Op(IF c.out THEN "clear" ELSE "set", "TRIS", p)
           s == Config(p, c)
<1>1. PICK a, b \in Ops : SetPull(p, c.pull) = <<a, b>> /\ Pulling(a, b) /\ a.pad = p /\ b.pad = p
  BY PullOps
<1>2. /\ n \in Ops /\ n.reg = "ANSEL" /\ n.how = (IF c.analog THEN "set" ELSE "clear") /\ n.pad = p
      /\ d \in Ops /\ d.reg = "ODC" /\ d.how # "toggle" /\ d.pad = p
      /\ l \in Ops /\ l.reg = "LAT" /\ l.pad = p
      /\ t \in Ops /\ t.reg = "TRIS" /\ t.how = (IF c.out THEN "clear" ELSE "set") /\ t.pad = p
  BY DEF Op, Ops, Registers
<1>3. s = (IF c.out THEN <<>> ELSE <<t>>) \o <<n>> \o <<a, b>> \o <<d>> \o (IF c.out THEN <<l>> \o <<t>> ELSE <<>>)
  <2>1. ~c.out => SetDirection(p, FALSE) = <<t>>
    BY DEF SetDirection
  <2>2. c.out => SetDirection(p, TRUE) = <<t>>
    BY DEF SetDirection
  <2>3. SetAnalog(p, c.analog) = <<n>> /\ SetOpenDrain(p, c.drain) = <<d>> /\ Write(p, c.high) = <<l>>
    BY DEF SetAnalog, SetOpenDrain, Write
  <2> HIDE DEF n, d, l, t
  <2> QED
    BY <1>1, <2>1, <2>2, <2>3 DEF Config
<1> HIDE DEF n, d, l, t, s
<1>4. "TRIS" \in Registers /\ "ANSEL" \in Registers
  BY DEF Registers
<1>5. /\ <<n>> \o <<a, b>> \o <<d>> \o <<l, t>> = Append(Append(Append(Append(Append(<<n>>, a), b), d), l), t)
      /\ <<t>> \o <<n>> \o <<a, b>> \o <<d>> \o <<>> = Append(Append(Append(Append(<<t>>, n), a), b), d)
  <2>1. t \in Ops /\ n \in Ops /\ d \in Ops /\ l \in Ops
    BY <1>2
  <2> QED
    BY <2>1, Chained, SMTT(30)
<1>6. n.how # "toggle" /\ (c.out => t.how = "clear") /\ (~c.out => t.how = "set")
  BY <1>2
<1>7. CASE c.out
  <2>1. /\ s \in Seq(Ops) /\ Len(s) = 6
        /\ s[1] = n /\ s[2] = a /\ s[3] = b /\ s[4] = d /\ s[5] = l /\ s[6] = t
    <3>1. s = <<n>> \o <<a, b>> \o <<d>> \o <<l, t>>
      <4>1. s = <<>> \o <<n>> \o <<a, b>> \o <<d>> \o (<<l>> \o <<t>>)
        BY <1>3, <1>7
      <4>2. <<>> \o <<n>> = <<n>>
        BY <1>2, ConcatEmptySeq
      <4>3. <<l>> \o <<t>> = <<l, t>>
        <5>1. <<l, t>> = Append(<<l>>, t) /\ <<l>> \in Seq(Ops)
          BY <1>2
        <5> QED
          BY <1>2, <5>1, AppendIsConcat
      <4> QED
        BY <4>1, <4>2, <4>3, Zenon
    <3>2. s = Append(Append(Append(Append(Append(<<n>>, a), b), d), l), t)
      BY <1>5, <3>1
    <3> QED
      BY <1>2, <3>2
  <2>2. Fits(s, p)
    <3>1. /\ s[1].reg = "ANSEL" /\ s[1].how # "toggle" /\ Pulling(s[2], s[3]) /\ s[4].reg = "ODC" /\ s[4].how # "toggle"
          /\ s[5].reg = "LAT" /\ s[6].reg = "TRIS" /\ s[6].how = "clear"
      BY <1>1, <1>2, <1>7, <1>6, <2>1
    <3>2. \A i \in 1 .. 6 : s[i].pad = p
      BY <1>1, <1>2, <2>1
    <3> QED
      BY <2>1, <3>1, <3>2, OutputRow
  <2>3. /\ 1 \in DOMAIN s /\ s[1] = n /\ 6 \in DOMAIN s /\ s[6] = t
    BY <2>1
  <2>4. AllApplied(s, port)["ANSEL"] = Applied(n, port["ANSEL"]) /\ AllApplied(s, port)["TRIS"] = Applied(t, port["TRIS"])
    BY <1>2, <1>4, <2>2, <2>3, AppliedAt DEF Fits
  <2> QED
    BY <1>2, <1>7, <2>2, <2>4 DEF Applied, s
<1>8. CASE ~c.out
  <2>1. /\ s \in Seq(Ops) /\ Len(s) = 5
        /\ s[1] = t /\ s[2] = n /\ s[3] = a /\ s[4] = b /\ s[5] = d
    <3>1. s = <<t>> \o <<n>> \o <<a, b>> \o <<d>> \o <<>>
      BY <1>3, <1>8
    <3>2. s = Append(Append(Append(Append(<<t>>, n), a), b), d)
      BY <1>5, <3>1
    <3> QED
      BY <1>2, <3>2
  <2>2. Fits(s, p)
    <3>1. /\ s[1].reg = "TRIS" /\ s[1].how = "set" /\ s[2].reg = "ANSEL" /\ s[2].how # "toggle"
          /\ Pulling(s[3], s[4]) /\ s[5].reg = "ODC" /\ s[5].how # "toggle"
      BY <1>1, <1>2, <1>8, <1>6, <2>1
    <3>2. \A i \in 1 .. 5 : s[i].pad = p
      BY <1>1, <1>2, <2>1
    <3> QED
      BY <2>1, <3>1, <3>2, InputRow
  <2>3. /\ 2 \in DOMAIN s /\ s[2] = n /\ 1 \in DOMAIN s /\ s[1] = t
    BY <2>1
  <2>4. AllApplied(s, port)["ANSEL"] = Applied(n, port["ANSEL"]) /\ AllApplied(s, port)["TRIS"] = Applied(t, port["TRIS"])
    BY <1>2, <1>4, <2>2, <2>3, AppliedAt DEF Fits
  <2> QED
    BY <1>2, <1>8, <2>2, <2>4 DEF Applied, s
<1> QED
  BY <1>7, <1>8

-----------------------------------------------------------------------------
(* The thread.                                                              *)

LEMMA PinInitInv == PinInitState => PinInv
<1> SUFFICES ASSUME PinInitState PROVE PinInv
  OBVIOUS
<1>1. /\ port = [r \in Registers |-> CASE r = "TRIS" -> Pads [] r = "ANSEL" -> Pads [] OTHER -> {}]
      /\ asked = port /\ job = NoJob /\ held = NotHeld /\ route = NoRoutes /\ verdict = NoVerdict
  BY DEF PinInitState
<1>2. port \in PortSet /\ port["CNPU"] = {}
  BY <1>1 DEF PortSet, PinNames, Registers
<1>3. job \in JobSet /\ job.ops = <<>> /\ job.pad = "none" /\ job.mux = FALSE
  BY <1>1 DEF NoJob, JobSet, PortSet
<1>4. PinTyped
  BY <1>1, <1>2, <1>3 DEF PinTyped, NoRoutes, NotHeld
<1>5. NoCall /\ ~held.is /\ verdict.pad = "none" /\ DOMAIN job.ops = {}
  BY <1>1, <1>3 DEF NoCall, NotHeld, NoVerdict
<1> QED
  BY <1>1, <1>2, <1>3, <1>4, <1>5 DEF PinInv, JobOK, RowOK, PullsOK, PullsApart, MuxAims, PinsAreAsAsked, MuxIsWhole, Left

\* What the end of a pinmux call has to find.
AimsFor(p, fn, aim) ==
  /\ fn \in Functions \cup Inputs
  /\ p \in Pads => /\ p \notin aim["ANSEL"]
                   /\ fn \in Functions => p \notin aim["TRIS"]
                   /\ fn \in Inputs => p \in aim["TRIS"]

LEMMA BeginKeeps ==
  ASSUME PinInv, NEW p \in EndPoints, NEW s, NEW fn \in Functions \cup Inputs \cup {"none"}, NEW mux \in BOOLEAN,
         BeginOps(p, s, fn, mux), Fits(s, p), s # <<>> => p \in Pads, mux => AimsFor(p, fn, AllApplied(s, port))
  PROVE  PinInv'
<1> DEFINE aim == AllApplied(s, port)
           r == [ops |-> s, pad |-> p, fn |-> fn, mux |-> mux, aim |-> aim]
<1>1. NoCall /\ job' = r /\ verdict' = NoVerdict /\ UNCHANGED <<port, route, source, iolock, held, asked>>
  BY DEF BeginOps
<1>2. s \in Seq(Ops) /\ RowOK(s) /\ PullsOK(s, port) /\ \A i \in DOMAIN s : s[i].pad = p
  BY DEF Fits
<1>3. aim \in PortSet
  BY <1>2, AllAppliedType DEF PinInv, PinTyped
<1>4. r \in JobSet
  BY <1>2, <1>3 DEF JobSet
<1>5. p # "none" /\ ~held.is /\ port = asked
  BY <1>1, PinMuxAssumption DEF EndPoints, Nowhere, PinInv, JobOK, NoCall, PinsAreAsAsked
<1> HIDE DEF aim
<1>6. r.ops = s /\ r.pad = p /\ r.fn = fn /\ r.mux = mux /\ r.aim = aim
  OBVIOUS
<1> HIDE DEF r
<1>7. PinTyped' /\ PullsApart'
  BY <1>1, <1>4 DEF PinInv, PinTyped, PullsApart
<1>8. ~NoCall' /\ PinsAreAsAsked' /\ MuxIsWhole'
  BY <1>1, <1>5, <1>6 DEF NoCall, PinsAreAsAsked, MuxIsWhole
<1>9. MuxAims'
  BY <1>1, <1>6 DEF MuxAims, AimsFor, aim
<1>10. JobOK'
  <2>1. job'.aim = AllApplied(s, port)
    BY <1>1, <1>6 DEF aim
  <2>2. Left(s) = Left(job.ops)'
    BY <1>1, <1>6 DEF Left
  <2> QED
    BY <1>1, <1>2, <1>5, <1>6, <2>1, <2>2 DEF JobOK
<1> QED
  BY <1>7, <1>8, <1>9, <1>10 DEF PinInv

LEMMA NoOps == ASSUME NEW p PROVE Fits(<<>>, p)
BY DEF Fits, RowOK, PullsOK

LEMMA GpioCallKeeps == ASSUME PinInv, GpioCall PROVE PinInv'
<1>1. PICK p \in Pads :
        \/ \E c \in PinConfigs : BeginOps(p, Config(p, c), "none", FALSE)
        \/ \E b \in BOOLEAN, which \in {"w", "d", "a", "o"} :
             BeginOps(p, CASE which = "w" -> Write(p, b) [] which = "d" -> SetDirection(p, b)
                           [] which = "a" -> SetAnalog(p, b) [] which = "o" -> SetOpenDrain(p, b), "none", FALSE)
        \/ \E pull \in {"UP", "DOWN", "NONE"} : BeginOps(p, SetPull(p, pull), "none", FALSE)
        \/ BeginOps(p, Toggle(p), "none", FALSE)
  BY DEF GpioCall
<1>2. ASSUME NEW s, Fits(s, p), BeginOps(p, s, "none", FALSE) PROVE PinInv'
  BY <1>2, BeginKeeps DEF EndPoints
<1>3. p \in PinNames
  BY DEF PinNames
<1>4. CASE \E c \in PinConfigs : BeginOps(p, Config(p, c), "none", FALSE)
  <2>1. PICK c \in PinConfigs : BeginOps(p, Config(p, c), "none", FALSE)
    BY <1>4
  <2>2. Fits(Config(p, c), p)
    BY <1>3, PinMuxAssumption, ConfigFits
  <2> QED
    BY <1>2, <2>1, <2>2
<1>5. ASSUME NEW how \in {"set", "clear", "toggle"}, NEW reg \in {"LAT", "TRIS", "ANSEL", "ODC"}, how = "toggle" => reg = "LAT"
      PROVE  Fits(<<Op(how, reg, p)>>, p)
  <2> DEFINE op == Op(how, reg, p)
  <2>1. op \in Ops /\ op.reg = reg /\ op.how = how /\ op.pad = p
    BY <1>3 DEF Op, Ops, Registers
  <2> HIDE DEF op
  <2>2. Fits(<<op>>, op.pad)
    BY <1>5, <2>1, OneOp
  <2> QED
    BY <2>1, <2>2 DEF op
<1>6. CASE \E b \in BOOLEAN, which \in {"w", "d", "a", "o"} :
             BeginOps(p, CASE which = "w" -> Write(p, b) [] which = "d" -> SetDirection(p, b)
                           [] which = "a" -> SetAnalog(p, b) [] which = "o" -> SetOpenDrain(p, b), "none", FALSE)
  <2>1. PICK b \in BOOLEAN, which \in {"w", "d", "a", "o"} :
             BeginOps(p, CASE which = "w" -> Write(p, b) [] which = "d" -> SetDirection(p, b)
                           [] which = "a" -> SetAnalog(p, b) [] which = "o" -> SetOpenDrain(p, b), "none", FALSE)
    BY <1>6
  <2>2. Fits(Write(p, b), p) /\ Fits(SetDirection(p, b), p) /\ Fits(SetAnalog(p, b), p) /\ Fits(SetOpenDrain(p, b), p)
    BY <1>5 DEF Write, SetDirection, SetAnalog, SetOpenDrain
  <2> QED
    BY <1>2, <2>1, <2>2
<1>7. CASE \E pull \in {"UP", "DOWN", "NONE"} : BeginOps(p, SetPull(p, pull), "none", FALSE)
  <2>1. PICK pull \in {"UP", "DOWN", "NONE"} : BeginOps(p, SetPull(p, pull), "none", FALSE)
    BY <1>7
  <2>2. PICK a, b \in Ops : SetPull(p, pull) = <<a, b>> /\ Pulling(a, b) /\ a.pad = p /\ b.pad = p
    BY <1>3, PullOps
  <2>3. Fits(<<a, b>>, p)
    BY <2>2, TwoOps
  <2> QED
    BY <1>2, <2>1, <2>2, <2>3
<1>8. CASE BeginOps(p, Toggle(p), "none", FALSE)
  BY <1>2, <1>5, <1>8 DEF Toggle
<1> QED
  BY <1>1, <1>4, <1>6, <1>7, <1>8

LEMMA RouteCallKeeps == ASSUME PinInv, RouteCall PROVE PinInv'
<1>1. PICK end \in EndPoints, fn \in Functions \cup Inputs : BeginOps(end, <<>>, fn, FALSE)
  BY DEF RouteCall
<1> QED
  BY <1>1, NoOps, BeginKeeps

LEMMA MuxCallKeeps == ASSUME PinInv, MuxCall PROVE PinInv'
<1>1. ASSUME NEW end \in EndPoints, NEW fn \in Functions \cup Inputs, NEW c,
             c.pull = "NONE", c.out \in BOOLEAN, c.out <=> fn \in Functions, c.analog = FALSE, c.drain = FALSE, c.high \in BOOLEAN,
             BeginOps(end, PinFirst(end, c), fn, TRUE)
      PROVE  PinInv'
  <2>1. CASE end \in Pads
    <3> DEFINE s == Config(end, c)
    <3>1. end \in PinNames /\ PinFirst(end, c) = s
      BY <2>1 DEF PinNames, PinFirst
    <3>2. /\ Fits(s, end) /\ end \notin AllApplied(s, port)["ANSEL"]
          /\ c.out => end \notin AllApplied(s, port)["TRIS"]
          /\ ~c.out => end \in AllApplied(s, port)["TRIS"]
      <4>1. /\ Fits(Config(end, c), end) /\ (~c.analog => end \notin AllApplied(Config(end, c), port)["ANSEL"])
            /\ c.out => end \notin AllApplied(Config(end, c), port)["TRIS"]
            /\ ~c.out => end \in AllApplied(Config(end, c), port)["TRIS"]
        <5>1. c.pull \in {"UP", "DOWN", "NONE"} /\ c.analog \in BOOLEAN /\ c.drain \in BOOLEAN
          BY <1>1
        <5> HIDE DEF s
        <5> QED
          BY <1>1, <3>1, <5>1, ConfigFits
      <4> QED
        BY <1>1, <4>1
    <3> HIDE DEF s
    <3>3. AimsFor(end, fn, AllApplied(s, port))
      BY <1>1, <3>2, PinMuxAssumption DEF AimsFor
    <3> QED
      BY <1>1, <2>1, <3>1, <3>2, <3>3, BeginKeeps
  <2>2. CASE end \notin Pads
    BY <1>1, <2>2, NoOps, BeginKeeps DEF PinFirst, AimsFor
  <2> QED
    BY <2>1, <2>2
<1>2. CASE \E end \in EndPoints, fn \in Functions, high \in BOOLEAN : BeginOps(end, PinFirst(end, DigitalOutput(high)), fn, TRUE)
  <2>1. PICK end \in EndPoints, fn \in Functions, high \in BOOLEAN : BeginOps(end, PinFirst(end, DigitalOutput(high)), fn, TRUE)
    BY <1>2
  <2> DEFINE c == DigitalOutput(high)
  <2>2. c.pull = "NONE" /\ c.out \in BOOLEAN /\ (c.out <=> fn \in Functions) /\ c.analog = FALSE /\ c.drain = FALSE /\ c.high \in BOOLEAN
    BY DEF DigitalOutput
  <2> HIDE DEF c
  <2> QED
    BY <1>1, <2>1, <2>2 DEF c
<1>3. CASE \E end \in EndPoints, fn \in Inputs : BeginOps(end, PinFirst(end, DigitalInput), fn, TRUE)
  <2>1. PICK end \in EndPoints, fn \in Inputs : BeginOps(end, PinFirst(end, DigitalInput), fn, TRUE)
    BY <1>3
  <2> DEFINE c == DigitalInput
  <2>2. c.pull = "NONE" /\ c.out \in BOOLEAN /\ (c.out <=> fn \in Functions) /\ c.analog = FALSE /\ c.drain = FALSE /\ c.high \in BOOLEAN
    BY PinMuxAssumption DEF DigitalInput
  <2> HIDE DEF c
  <2> QED
    BY <1>1, <2>1, <2>2 DEF c
<1> QED
  BY <1>2, <1>3 DEF MuxCall

LEMMA LoadKeeps == ASSUME PinInv, LoadReg PROVE PinInv'
<1>1. job.ops # <<>> /\ UNCHANGED <<port, route, source, iolock, job, asked, verdict>>
      /\ held' = [is |-> TRUE, bits |-> port[Head(job.ops).reg]]
  BY DEF LoadReg
<1>2. Head(job.ops) \in Ops /\ port \in PortSet
  BY <1>1 DEF PinInv, PinTyped, JobSet
<1>3. port[Head(job.ops).reg] \in SUBSET PinNames
  BY <1>2 DEF Ops, PortSet
<1>4. PinTyped'
  BY <1>1, <1>3 DEF PinInv, PinTyped
<1>5. JobOK'
  BY <1>1 DEF PinInv, JobOK, NoCall
<1> QED
  BY <1>1, <1>4, <1>5 DEF PinInv, PullsApart, MuxAims, PinsAreAsAsked, MuxIsWhole, NoCall, FoundAt, IsPad, HasCode

LEMMA StoreKeeps == ASSUME PinInv, StoreReg PROVE PinInv'
<1> DEFINE s == job.ops
           t == Tail(s)
           o == s[1]
           new == Applied(o, port[o.reg])
<1>1. /\ held.is /\ held' = NotHeld /\ UNCHANGED <<route, source, iolock, asked, verdict>>
      /\ port' = [port EXCEPT ![Head(s).reg] = Applied(Head(s), held.bits)] /\ job' = [job EXCEPT !.ops = Tail(@)]
  BY DEF StoreReg
<1>2. /\ s \in Seq(Ops) /\ s # <<>> /\ RowOK(s) /\ PullsOK(s, port) /\ held.bits = port[Head(s).reg]
      /\ job.pad \in Pads /\ \A i \in DOMAIN s : s[i].pad = job.pad
  BY <1>1 DEF PinInv, PinTyped, JobSet, JobOK
<1>3. /\ t \in Seq(Ops) /\ RowOK(t) /\ 1 \in DOMAIN s /\ Head(s) = o /\ o \in Ops
      /\ \A i \in DOMAIN t : i + 1 \in DOMAIN s /\ t[i] = s[i + 1] /\ i \in Nat \ {0}
      /\ \A i \in DOMAIN s \ {1} : i - 1 \in DOMAIN t /\ t[i - 1] = s[i]
      /\ o.reg \notin Left(t) /\ Left(s) = Left(t) \cup {o.reg}
      /\ o.reg = "TRIS" /\ o.how = "clear" => t = <<>>
  BY <1>2, RowTail
<1>4. /\ o.reg \in Registers /\ o.pad = job.pad /\ o.how \in {"set", "clear", "toggle"} /\ o.pad \in PinNames
      /\ (o.how = "toggle" => o.reg = "LAT") /\ port \in PortSet /\ job \in JobSet
  BY <1>2, <1>3 DEF Ops, RowOK, PinInv, PinTyped, PinNames
<1>5. /\ port' = [port EXCEPT ![o.reg] = new] /\ new \in SUBSET PinNames
  BY <1>1, <1>2, <1>3, <1>4, AppliedType DEF PortSet
<1>6. port'[o.reg] = new /\ \A r \in Registers \ {o.reg} : port'[r] = port[r]
  BY <1>4, <1>5 DEF PortSet
<1>7. /\ job'.ops = t /\ job'.pad = job.pad /\ job'.fn = job.fn /\ job'.mux = job.mux /\ job'.aim = job.aim /\ job' \in JobSet
  BY <1>1, <1>3, <1>4 DEF JobSet
<1>8. port' \in PortSet
  BY <1>4, <1>5 DEF PortSet
<1>9. (o.how = "set" => new = port[o.reg] \cup {job.pad}) /\ (o.how = "clear" => new = port[o.reg] \ {job.pad})
  BY <1>4 DEF Applied
<1>a. Left(job.ops)' = Left(t)
  BY <1>7 DEF Left
<1> HIDE DEF new, t, o
<1>10. PinTyped'
  BY <1>1, <1>7, <1>8 DEF PinInv, PinTyped, NotHeld
<1>11. ~NoCall /\ ~NoCall'
  BY <1>2, <1>7, PinMuxAssumption DEF NoCall
<1>12. PullsOK(t, port')
  <2> SUFFICES ASSUME NEW i \in DOMAIN t, NEW r \in {"CNPU", "CNPD"}, NEW q \in {"CNPU", "CNPD"},
                      t[i].how = "set", t[i].reg = r, q # r, t[i].pad \in port'[q]
               PROVE  \E j \in 1 .. i - 1 : t[j].reg = q /\ t[j].how = "clear"
    BY DEF PullsOK
  <2>1. i + 1 \in DOMAIN s /\ s[i + 1] = t[i] /\ t[i].pad = job.pad /\ i \in Nat \ {0} /\ q \in Registers
    BY <1>2, <1>3 DEF Registers
  <2>2. s[i + 1].pad \notin port[q] \/ \E j \in 1 .. (i + 1) - 1 : s[j].reg = q /\ s[j].how = "clear"
    BY <1>2, <2>1 DEF PullsOK
  <2>3. CASE \E j \in 1 .. (i + 1) - 1 : s[j].reg = q /\ s[j].how = "clear"
    <3>1. PICK j \in 1 .. (i + 1) - 1 : s[j].reg = q /\ s[j].how = "clear"
      BY <2>3
    <3>2. j # 1
      <4> SUFFICES ASSUME j = 1 PROVE FALSE
        OBVIOUS
      <4>1. o.reg = q /\ o.how = "clear"
        BY <3>1 DEF o
      <4> QED
        BY <1>6, <1>9, <2>1, <4>1
    <3>3. i + 1 <= Len(s)
      BY <1>2, <2>1
    <3>4. j \in DOMAIN s \ {1}
      BY <1>2, <2>1, <3>2, <3>3
    <3>5. j - 1 \in DOMAIN t /\ t[j - 1] = s[j]
      BY <1>3, <3>4
    <3>6. j - 1 \in 1 .. i - 1
      BY <2>1, <3>2
    <3> QED
      BY <3>1, <3>5, <3>6
  <2>4. CASE job.pad \notin port[q]
    <3>1. o.reg = q /\ o.how = "set"
      BY <1>4, <1>6, <1>9, <2>1, <2>4
    <3>2. 1 \in DOMAIN s /\ s[1].reg = q /\ s[1].how = "set" /\ s[i + 1].reg = r /\ s[i + 1].how = "set"
      BY <1>3, <2>1, <3>1 DEF o
    <3> QED
      BY <1>2, <2>1, <3>2 DEF RowOK
  <2> QED
    BY <2>1, <2>2, <2>3, <2>4
<1>13. PullsApart'
  <2>1. CASE o.how = "set" /\ o.reg \in {"CNPU", "CNPD"}
    <3>1. \A q \in {"CNPU", "CNPD"} : q # o.reg => o.pad \notin port[q]
      BY <1>2, <1>3, <2>1, SMTT(30) DEF PullsOK, o
    <3> QED
      BY <1>4, <1>6, <1>9, <2>1, <3>1 DEF PinInv, PullsApart, Registers
  <2>2. CASE o.how = "clear" /\ o.reg \in {"CNPU", "CNPD"}
    BY <1>4, <1>6, <1>9, <2>2 DEF PinInv, PullsApart, Registers
  <2>3. CASE o.reg \notin {"CNPU", "CNPD"}
    BY <1>6, <2>3 DEF PinInv, PullsApart, Registers
  <2> QED
    BY <1>4, <2>1, <2>2, <2>3
<1>14. AllApplied(t, port') = AllApplied(s, port)
  <2> SUFFICES ASSUME NEW r \in Registers PROVE AllApplied(t, port')[r] = AllApplied(s, port)[r]
    BY DEF AllApplied
  <2>1. CASE r = o.reg
    <3>1. AllApplied(t, port')[r] = new
      BY <1>3, <1>6, <2>1, NotLeft
    <3>2. AllApplied(s, port)[r] = new
      BY <1>2, <1>3, <1>4, <2>1, AppliedAt DEF o, new
    <3> QED
      BY <3>1, <3>2
  <2>2. CASE r \in Left(t)
    <3>1. PICK i \in DOMAIN t : t[i].reg = r
      BY <2>2 DEF Left
    <3>2. i + 1 \in DOMAIN s /\ s[i + 1] = t[i] /\ r # o.reg
      BY <1>3, <2>2, <3>1
    <3>3. AllApplied(t, port')[r] = Applied(t[i], port'[r])
      BY <1>3, <3>1, AppliedAt
    <3>4. AllApplied(s, port)[r] = Applied(s[i + 1], port[r])
      BY <1>2, <3>1, <3>2, AppliedAt
    <3> QED
      BY <1>6, <3>2, <3>3, <3>4
  <2>3. CASE r \notin Left(t) /\ r # o.reg
    BY <1>3, <1>6, <2>3, NotLeft
  <2> QED
    BY <2>1, <2>2, <2>3
<1>15. JobOK'
  <2>1. t # <<>> => job.pad \in Pads
    BY <1>2
  <2>2. \A i \in DOMAIN t : t[i].pad = job.pad
    BY <1>2, <1>3
  <2>3. job'.aim = AllApplied(t, port')
    BY <1>7, <1>11, <1>14 DEF PinInv, JobOK
  <2>4. \A r \in Left(t) : port'[r] = asked'[r]
    <3> SUFFICES ASSUME NEW r \in Left(t) PROVE port'[r] = asked[r]
      BY <1>1
    <3>1. PICK i \in DOMAIN t : t[i].reg = r
      BY DEF Left
    <3>2. t[i] \in Ops
      BY <1>3
    <3>3. r \in Left(s) /\ r # o.reg /\ r \in Registers
      BY <1>3, <3>1, <3>2 DEF Ops
    <3> QED
      BY <1>6, <3>3 DEF PinInv, JobOK
  <2>5. \A i \in DOMAIN t : ~(t[i].reg = "TRIS" /\ t[i].how = "set")
    <3> SUFFICES ASSUME NEW i \in DOMAIN t, t[i].reg = "TRIS", t[i].how = "set" PROVE FALSE
      OBVIOUS
    <3>1. i \in Nat \ {0} /\ i + 1 \in DOMAIN s /\ s[i + 1].reg = "TRIS" /\ s[i + 1].how = "set"
      BY <1>3
    <3>2. i + 1 = 1
      BY <1>2, <3>1 DEF RowOK
    <3> QED
      BY <3>1, <3>2
  <2>6. ASSUME t # <<>>, "TRIS" \notin Left(t), job.pad \notin port'["TRIS"] PROVE job.pad \notin asked["TRIS"]
    <3>1. o.reg # "TRIS"
      BY <1>3, <1>4, <1>6, <1>9, <2>6
    <3>2. "TRIS" \notin Left(s) /\ port'["TRIS"] = port["TRIS"]
      BY <1>3, <1>6, <2>6, <3>1 DEF Registers
    <3> QED
      BY <1>2, <2>6, <3>2 DEF PinInv, JobOK
  <2>7. ~held'.is
    BY <1>1 DEF NotHeld
  <2> QED
    BY <1>1, <1>3, <1>7, <1>a, <1>12, <2>1, <2>2, <2>3, <2>4, <2>5, <2>6, <2>7 DEF JobOK
<1>16. MuxAims'
  BY <1>7 DEF PinInv, MuxAims
<1> QED
  BY <1>10, <1>11, <1>13, <1>15, <1>16 DEF PinInv, PinsAreAsAsked, MuxIsWhole

LEMMA JobEndsKeeps == ASSUME PinInv, JobEnds PROVE PinInv'
<1>1. /\ job.pad # "none" /\ job.ops = <<>> /\ asked' = job.aim /\ job' = NoJob /\ UNCHANGED <<port, held>>
      /\ verdict' = IF job.mux THEN [pad |-> job.pad, fn |-> job.fn, ok |-> HasCode(job.fn) /\ ~Refused,
                                     route |-> route, source |-> source]
                    ELSE NoVerdict
      /\ CASE job.fn = "none" \/ Refused -> UNCHANGED <<route, source, iolock>>
           [] ~Refused /\ job.fn \in Functions -> RouteOutput(job.fn, job.pad)
           [] ~Refused /\ job.fn \in Inputs -> RouteInput(job.fn, job.pad)
  BY DEF JobEnds
<1>2. port \in PortSet /\ job \in JobSet /\ ~NoCall /\ ~held.is
  BY <1>1 DEF PinInv, PinTyped, JobOK, NoCall
<1>3. job.aim = port
  BY <1>1, <1>2, NoneLeft DEF PinInv, JobOK
<1>4. job'.ops = <<>> /\ job'.pad = "none" /\ job'.mux = FALSE /\ job' \in JobSet
  BY <1>1 DEF NoJob, JobSet, PortSet
<1>5. job.fn \in Functions \cup Inputs \cup {"none"} /\ "none" \notin Functions \cup Inputs
  BY <1>2, PinMuxAssumption DEF JobSet
<1>8. DOMAIN route' = DOMAIN route
  BY <1>1, <1>5 DEF RouteOutput, RouteInput, WriteOutput
<1>9. PinTyped'
  BY <1>1, <1>2, <1>3, <1>4, <1>8 DEF PinInv, PinTyped
<1>10. NoCall' /\ PinsAreAsAsked'
  BY <1>1, <1>3, <1>4 DEF NoCall, PinsAreAsAsked
<1>11. JobOK'
  BY <1>1, <1>2, <1>4, <1>10 DEF JobOK, RowOK, PullsOK, Left
<1>12. PullsApart' /\ MuxAims'
  BY <1>1, <1>4 DEF PinInv, PullsApart, MuxAims
<1>13. MuxIsWhole'
  <2>1. CASE ~job.mux
    BY <1>1, <2>1 DEF MuxIsWhole, NoVerdict
  <2> DEFINE v == [pad |-> job.pad, fn |-> job.fn, ok |-> HasCode(job.fn) /\ ~Refused, route |-> route, source |-> source]
  <2>2. v.pad = job.pad /\ v.fn = job.fn /\ (v.ok <=> HasCode(job.fn) /\ ~Refused) /\ v.route = route /\ v.source = source
    OBVIOUS
  <2> HIDE DEF v
  <2>3. CASE job.mux /\ Refused
    <3>1. verdict' = v /\ UNCHANGED <<route, source>>
      BY <1>1, <2>3 DEF v
    <3> QED
      BY <2>2, <2>3, <3>1 DEF MuxIsWhole
  <2>4. CASE job.mux /\ ~Refused /\ job.fn \in Functions
    <3>1. verdict' = v /\ RouteOutput(job.fn, job.pad)
      BY <1>1, <1>5, <2>4, PinMuxAssumption DEF v
    <3>2. job.pad \in Pads /\ job.pad \notin port'["ANSEL"] /\ job.pad \notin port'["TRIS"]
      BY <1>1, <1>3, <2>4 DEF PinInv, MuxAims, Refused
    <3>3. job.fn \notin Inputs /\ Defined(job.pad) /\ IsPad(job.pad) /\ job.pad \in DOMAIN route
      BY <2>4, <3>2, PinMuxAssumption DEF Defined, IsPad, PinInv, PinTyped
    <3>4. CASE HasCode(job.fn)
      <4>1. iolock' /\ route' = [route EXCEPT ![job.pad] = job.fn] /\ source' = source
        BY <3>1, <3>3, <3>4 DEF RouteOutput, WriteOutput
      <4>2. job.pad \in DOMAIN route' /\ route'[job.pad] = job.fn
        BY <3>3, <4>1
      <4>3. v.ok
        BY <2>2, <2>4, <3>4
      <4>4. verdict'.pad = job.pad /\ verdict'.fn = job.fn /\ verdict'.ok /\ verdict'.route = route /\ verdict'.source = source
        BY <2>2, <3>1, <4>3
      <4>5. job.pad \in FoundAt(verdict.fn)'
        BY <3>3, <3>4, <4>2, <4>4 DEF FoundAt, IsPad, HasCode
      <4> QED
        BY <2>4, <3>2, <3>3, <4>1, <4>4, <4>5 DEF MuxIsWhole
    <3>5. CASE ~HasCode(job.fn)
      <4>1. UNCHANGED <<route, source>> /\ ~v.ok
        BY <2>2, <3>1, <3>5 DEF RouteOutput
      <4> QED
        BY <2>2, <3>1, <4>1 DEF MuxIsWhole
    <3> QED
      BY <3>4, <3>5
  <2>5. CASE job.mux /\ ~Refused /\ job.fn \in Inputs
    <3>1. verdict' = v /\ RouteInput(job.fn, job.pad)
      BY <1>1, <1>5, <2>5, PinMuxAssumption DEF v
    <3>2. job.pad \in Pads /\ job.pad \notin port'["ANSEL"] /\ job.pad \in port'["TRIS"]
      BY <1>1, <1>3, <2>5 DEF PinInv, MuxAims, Refused
    <3>3. job.fn \notin Functions /\ Defined(job.pad)
      BY <2>5, <3>2, PinMuxAssumption DEF Defined, IsPad
    <3>4. iolock' /\ route' = route /\ source' = IF HasCode(job.fn) THEN [source EXCEPT ![job.fn] = job.pad] ELSE source
      BY <3>1, <3>3 DEF RouteInput, SelectInput
    <3>5. verdict'.pad = job.pad /\ verdict'.fn = job.fn /\ (verdict'.ok <=> HasCode(job.fn)) /\ verdict'.route = route /\ verdict'.source = source
      BY <2>2, <2>5, <3>1
    <3> QED
      BY <2>5, <3>2, <3>3, <3>4, <3>5 DEF MuxIsWhole
  <2> QED
    BY <2>1, <2>3, <2>4, <2>5 DEF PinInv, MuxAims
<1> QED
  BY <1>9, <1>10, <1>11, <1>12, <1>13 DEF PinInv

\* The handler's light is none of the pins that the thread configures.
LEMMA HandlerDrivesKeeps == ASSUME PinInv, HandlerDrives PROVE PinInv'
<1>1. PICK l \in Lights, high \in BOOLEAN :
        /\ port' = AllApplied(Write(l, high), port) /\ asked' = AllApplied(Write(l, high), asked)
        /\ job' = [job EXCEPT !.aim = IF NoCall THEN @ ELSE AllApplied(Write(l, high), @)]
        /\ ~held.is /\ UNCHANGED <<route, source, iolock, held, verdict>>
  BY DEF HandlerDrives, MasksOut
<1> DEFINE o == Op(IF high THEN "set" ELSE "clear", "LAT", l)
           w == <<o>>
           s == job.ops
<1>2. /\ o \in Ops /\ o.reg = "LAT" /\ o.how \in {"set", "clear"} /\ o.pad = l /\ Write(l, high) = w
  BY DEF Op, Ops, Registers, PinNames, Write
<1> HIDE DEF o
<1>3. w \in Seq(Ops) /\ RowOK(w) /\ DOMAIN w = {1} /\ w[1] = o
  BY <1>2, OneOp DEF Fits
<1> HIDE DEF w
<1>4. ASSUME NEW rs \in PortSet
      PROVE  /\ AllApplied(w, rs) \in PortSet /\ AllApplied(w, rs)["LAT"] = Applied(o, rs["LAT"])
             /\ \A r \in Registers \ {"LAT"} : AllApplied(w, rs)[r] = rs[r]
  <2>1. AllApplied(w, rs)["LAT"] = Applied(o, rs["LAT"])
    BY <1>2, <1>3, AppliedAt DEF Registers
  <2>2. \A r \in Registers \ {"LAT"} : AllApplied(w, rs)[r] = rs[r]
    BY <1>2, <1>3, NotLeft DEF Left
  <2> QED
    BY <1>3, <2>1, <2>2, AllAppliedType
<1>5. /\ port \in PortSet /\ asked \in PortSet /\ job \in JobSet /\ job.aim \in PortSet /\ s \in Seq(Ops) /\ RowOK(s)
  BY DEF PinInv, PinTyped, JobSet, JobOK
<1>6. /\ port' = AllApplied(w, port) /\ asked' = AllApplied(w, asked)
      /\ port' \in PortSet /\ port'["LAT"] = Applied(o, port["LAT"]) /\ \A r \in Registers \ {"LAT"} : port'[r] = port[r]
      /\ asked' \in PortSet /\ asked'["LAT"] = Applied(o, asked["LAT"]) /\ \A r \in Registers \ {"LAT"} : asked'[r] = asked[r]
  BY <1>1, <1>2, <1>4, <1>5
<1>7. /\ job'.ops = s /\ job'.pad = job.pad /\ job'.fn = job.fn /\ job'.mux = job.mux
      /\ job'.aim = IF NoCall THEN job.aim ELSE AllApplied(w, job.aim)
      /\ job' \in JobSet
  BY <1>1, <1>2, <1>4, <1>5 DEF JobSet
<1>8. (NoCall' <=> NoCall) /\ Left(job.ops)' = Left(s)
  BY <1>7 DEF NoCall, Left
<1>9. PinTyped'
  BY <1>1, <1>6, <1>7 DEF PinInv, PinTyped
<1>10. PullsApart'
  BY <1>6 DEF PinInv, PullsApart, Registers
<1>11. MuxAims'
  <2>1. \A r \in {"ANSEL", "TRIS"} : job'.aim[r] = job.aim[r]
    BY <1>4, <1>5, <1>7 DEF Registers
  <2> QED
    BY <1>7, <2>1 DEF PinInv, MuxAims
<1>12. PinsAreAsAsked'
  BY <1>6, <1>8 DEF PinInv, PinsAreAsAsked
<1>13. MuxIsWhole'
  <2>1. port'["ANSEL"] = port["ANSEL"] /\ port'["TRIS"] = port["TRIS"]
    BY <1>6 DEF Registers
  <2>2. \A fn : FoundAt(fn)' = FoundAt(fn)
    BY <1>1 DEF FoundAt, IsPad, HasCode
  <2> QED
    BY <1>1, <1>8, <2>1, <2>2 DEF PinInv, MuxIsWhole
<1>14. \A i \in DOMAIN s : s[i] \in Ops /\ s[i].pad = job.pad /\ s[i].pad # l /\ s[i].reg \in Registers
  <2>1. ASSUME NEW i \in DOMAIN s PROVE s[i] \in Ops /\ s[i].pad = job.pad /\ job.pad \in Pads
    <3>1. s # <<>>
      BY <2>1
    <3> QED
      BY <1>5, <2>1, <3>1 DEF PinInv, JobOK
  <2> QED
    BY <2>1, PinMuxAssumption DEF Ops
<1>15. ~NoCall => job'.aim = AllApplied(s, port')
  <2> SUFFICES ASSUME ~NoCall PROVE job'.aim = AllApplied(s, port')
    OBVIOUS
  <2>1. job.aim = AllApplied(s, port)
    BY DEF PinInv, JobOK
  <2>2. ASSUME NEW r \in Registers PROVE job'.aim[r] = AllApplied(s, port')[r]
    <3>1. CASE r # "LAT"
      <4>1. job'.aim[r] = AllApplied(s, port)[r]
        BY <1>4, <1>5, <1>7, <2>1, <2>2, <3>1
      <4>2. CASE r \in Left(s)
        <5>1. PICK i \in DOMAIN s : s[i].reg = r
          BY <4>2 DEF Left
        <5> QED
          BY <1>5, <1>6, <2>2, <3>1, <4>1, <5>1, AppliedAt
      <4>3. CASE r \notin Left(s)
        BY <1>6, <2>2, <3>1, <4>1, <4>3, NotLeft
      <4> QED
        BY <4>2, <4>3
    <3>2. CASE r = "LAT"
      <4>1. job'.aim[r] = Applied(o, AllApplied(s, port)[r])
        BY <1>4, <1>5, <1>7, <2>1, <3>2
      <4>2. CASE r \in Left(s)
        <5>1. PICK i \in DOMAIN s : s[i].reg = r
          BY <4>2 DEF Left
        <5>2. AllApplied(s, port)[r] = Applied(s[i], port[r]) /\ AllApplied(s, port')[r] = Applied(s[i], port'[r])
          BY <1>5, <2>2, <5>1, AppliedAt
        <5>3. s[i].how \in {"set", "clear", "toggle"} /\ s[i].pad # o.pad
          BY <1>2, <1>14, <5>1 DEF Ops
        <5>4. Applied(o, Applied(s[i], port[r])) = Applied(s[i], Applied(o, port[r]))
          BY <1>2, <5>3, SMTT(30) DEF Applied
        <5> QED
          BY <1>6, <3>2, <4>1, <5>2, <5>4
      <4>3. CASE r \notin Left(s)
        BY <1>6, <2>2, <3>2, <4>1, <4>3, NotLeft
      <4> QED
        BY <4>2, <4>3
    <3> QED
      BY <3>1, <3>2
  <2>3. job'.aim \in PortSet
    BY <1>7 DEF JobSet
  <2> QED
    BY <2>2, <2>3 DEF AllApplied, PortSet
<1>16. JobOK'
  <2>1. \A r \in Left(s) : port'[r] = asked'[r]
    <3> SUFFICES ASSUME NEW r \in Left(s) PROVE port'[r] = asked'[r]
      OBVIOUS
    <3>1. r \in Registers /\ port[r] = asked[r]
      BY <1>14 DEF Left, PinInv, JobOK
    <3> QED
      BY <1>6, <3>1
  <2>2. \A i \in DOMAIN s : s[i].reg = "TRIS" /\ s[i].how = "set" => port' = asked'
    BY <1>6 DEF PinInv, JobOK
  <2>3. port'["TRIS"] = port["TRIS"] /\ asked'["TRIS"] = asked["TRIS"] /\ port'["CNPU"] = port["CNPU"] /\ port'["CNPD"] = port["CNPD"]
    BY <1>6 DEF Registers
  <2>4. PullsOK(s, port')
    BY <2>3 DEF PinInv, JobOK, PullsOK
  <2>5. ~held'.is /\ (s # <<>> => job.pad \in Pads)
    BY <1>1 DEF PinInv, JobOK
  <2>6. s # <<>> /\ "TRIS" \notin Left(s) /\ job.pad \notin port'["TRIS"] => job.pad \notin asked'["TRIS"]
    BY <2>3 DEF PinInv, JobOK
  <2> QED
    BY <1>5, <1>7, <1>8, <1>14, <1>15, <2>1, <2>2, <2>4, <2>5, <2>6 DEF JobOK
<1> QED
  BY <1>9, <1>10, <1>11, <1>12, <1>13, <1>16 DEF PinInv

LEMMA PinStepInv == PinInv /\ [PinNext]_pinVars => PinInv'
<1> SUFFICES ASSUME PinInv, [PinNext]_pinVars PROVE PinInv'
  OBVIOUS
<1>1. CASE UNCHANGED pinVars
  BY <1>1 DEF pinVars, PinInv, PinTyped, JobOK, PullsApart, MuxAims, PinsAreAsAsked, MuxIsWhole, NoCall, FoundAt, IsPad, HasCode
<1> QED
  BY <1>1, GpioCallKeeps, RouteCallKeeps, MuxCallKeeps, LoadKeeps, StoreKeeps, JobEndsKeeps, HandlerDrivesKeeps DEF PinNext

\* A pin that drives during a call drives as before or as it is to.
LEMMA PinPromise == PinInv => PinsAreAsAsked /\ NoGlitch /\ MuxIsWhole
<1> SUFFICES ASSUME PinInv PROVE NoGlitch
  BY DEF PinInv
<1> SUFFICES ASSUME NEW p \in {job.pad} \cap Pads, NEW r \in {"LAT", "ODC"}, p \notin port["TRIS"]
             PROVE  \/ p \notin asked["TRIS"] /\ (p \in port[r] <=> p \in asked[r])
                    \/ p \notin job.aim["TRIS"] /\ (p \in port[r] <=> p \in job.aim[r])
  BY DEF NoGlitch, PinInv, PullsApart
<1> DEFINE s == job.ops
<1>1. p = job.pad /\ ~NoCall /\ r \in Registers /\ "TRIS" \in Registers
  BY PinMuxAssumption DEF NoCall, Registers
<1>2. job.aim = AllApplied(s, port) /\ RowOK(s) /\ s \in Seq(Ops)
  BY <1>1 DEF PinInv, JobOK, PinTyped, JobSet
<1>3. r \in Left(s) => port[r] = asked[r]
  BY DEF PinInv, JobOK
<1>4. r \notin Left(s) => job.aim[r] = port[r]
  BY <1>1, <1>2, NotLeft
<1>5. CASE "TRIS" \in Left(s)
  <2>1. PICK i \in DOMAIN s : s[i].reg = "TRIS"
    BY <1>5 DEF Left
  <2>2. CASE s[i].how = "set"
    BY <2>1, <2>2 DEF PinInv, JobOK
  <2>3. CASE s[i].how = "clear"
    <3>1. s[i].pad = p
      BY <1>1, <2>1 DEF PinInv, JobOK
    <3>2. job.aim["TRIS"] = port["TRIS"] \ {p}
      <4>1. AllApplied(s, port)[s[i].reg] = Applied(s[i], port[s[i].reg])
        BY <1>1, <1>2, <2>1, AppliedAt
      <4>2. Applied(s[i], port["TRIS"]) = port["TRIS"] \ {p}
        BY <2>3, <3>1 DEF Applied
      <4> QED
        BY <1>2, <2>1, <4>1, <4>2
    <3>3. port["TRIS"] = asked["TRIS"]
      BY <1>5 DEF PinInv, JobOK
    <3> QED
      BY <1>3, <1>4, <3>2, <3>3
  <2> QED
    <3>1. s[i] \in Ops
      BY <1>2, <2>1
    <3>2. s[i].how \in {"set", "clear"}
      BY <1>2, <2>1, <3>1 DEF Ops, RowOK
    <3> QED
      BY <2>2, <2>3, <3>2
<1>6. CASE "TRIS" \notin Left(s)
  <2>1. job.aim["TRIS"] = port["TRIS"]
    BY <1>1, <1>2, <1>6, NotLeft
  <2>2. r \in Left(s) => p \notin asked["TRIS"]
    <3>1. r \in Left(s) => s # <<>>
      BY DEF Left
    <3> QED
      BY <1>1, <1>6, <3>1 DEF PinInv, JobOK
  <2> QED
    BY <1>3, <1>4, <2>1, <2>2
<1> QED
  BY <1>5, <1>6

-----------------------------------------------------------------------------
(* The keys.  A key is judged only by results of scans that were started    *)
(* under the present settings; and as long as no touch was measured, every  *)
(* sample that is believed is its baseline, so it shows no activity at all. *)

KeyFields == {"base", "valid", "pressed", "press", "release", "debounce", "win", "sum", "mag", "settle", "seed", "rejects",
              "idleRef", "peak", "run", "quiet", "learning", "samples", "cold", "pinned"}

PairOK(p) == p.press \in Nat \ {0} /\ p.release \in Nat /\ p.release < p.press

\* What each field of a key may hold.
Values ==
  [base |-> Int, valid |-> BOOLEAN, pressed |-> BOOLEAN, press |-> Nat \ {0}, release |-> Nat, debounce |-> Int,
   win |-> {w \in Seq(Int) : Len(w) = T.magScans}, sum |-> Int, mag |-> Int, settle |-> 0 .. T.settleScans,
   seed |-> {w \in Seq(Int) : Len(w) < SeedSamples}, rejects |-> Int, idleRef |-> Int, peak |-> Nat, run |-> Int,
   quiet |-> Int, learning |-> BOOLEAN, samples |-> {w \in Seq(Nat) : Len(w) <= T.learnSamplesMax},
   cold |-> BOOLEAN, pinned |-> BOOLEAN]
KeyOK(k) == DOMAIN k = KeyFields /\ (\A f \in KeyFields : k[f] \in Values[f]) /\ k.release < k.press

\* A key that no touch has reached.
Still(k) ==
  /\ ~k.pressed /\ k.sum = 0 /\ k.mag = 0 /\ \A i \in 1 .. T.magScans : k.win[i] = 0
  /\ \A i \in 1 .. Len(k.seed) : k.seed[i] \in {Idle, Garbage}
  /\ k.valid => k.base \in {Idle, Garbage}

KeysTyped ==
  /\ {touchUp, inFlight, done, allQuiet} \subseteq BOOLEAN
  /\ scan \in {"idle", "asked", "busy"} /\ stall \in 0 .. T.stallPolls
  /\ event \in {"none", "PRESSED", "RELEASED"}
  /\ DOMAIN current = {"scan", "result"} /\ {current.scan, current.result} \subseteq BOOLEAN
  /\ DOMAIN seen = {"touched", "stale", "heard", "forced"}
  /\ {seen.touched, seen.stale, seen.heard, seen.forced} \subseteq BOOLEAN
  /\ PairOK(pair) /\ KeyOK(key)

\* Once a result has been counted off, what runs and what waits is of the present settings.
ScansAreCurrent ==
  /\ inFlight => current.scan
  /\ key.settle < T.settleScans => current.scan /\ (done => current.result)
  /\ ~seen.stale

StillUntouched == ~seen.touched => Still(key)

\* What the events that were read, and the one that waits, tell of the key.
KeyIsTold ==
  /\ ~touchUp => ~key.pressed /\ ~seen.heard /\ event = "none"
  /\ ~seen.forced => CASE event = "none" -> seen.heard <=> key.pressed
                       [] event = "PRESSED" -> key.pressed
                       [] event = "RELEASED" -> ~key.pressed

TouchInv == KeysTyped /\ ScansAreCurrent /\ StillUntouched /\ KeyIsTold

-----------------------------------------------------------------------------
(* Numbers.                                                                 *)

LEMMA Measures ==
  ASSUME NEW a \in Int, NEW b \in Int
  PROVE  /\ Least(a, b) \in Int /\ Least(a, b) <= a /\ Least(a, b) <= b /\ Least(a, b) \in {a, b}
         /\ Most(a, b) \in Int /\ Most(a, b) >= a /\ Most(a, b) >= b /\ Most(a, b) \in {a, b}
         /\ Magnitude(a) \in Nat /\ (Magnitude(a) = 0 <=> a = 0)
BY DEF Least, Most, Magnitude

LEMMA Quotients ==
  ASSUME NEW n \in Int, NEW d \in Nat \ {0}
  PROVE  n \div d \in Int /\ 0 \div d = 0
OBVIOUS

LEMMA SettingsTyped ==
  /\ T.press \in Nat \ {0} /\ T.release \in Nat /\ T.release < T.press
  /\ T.settleScans \in Nat \ {0} /\ T.magScans \in Nat \ {0} /\ T.learnSamplesMax \in Nat \ {0} /\ T.stallPolls \in Nat
  /\ T.baselineDiv \in Nat \ {0} /\ T.seedAgreeDiv \in Nat \ {0} /\ T.implausibleDiv \in Nat \ {0}
  /\ T.idleDiv \in Nat \ {0} /\ T.learnDen \in Nat \ {0} /\ T.candMin \in Nat \ {0} /\ T.floorMin \in Nat \ {0}
  /\ T.coldPress \in Nat /\ T.debounce \in Nat /\ T.coldDebounce \in Nat /\ T.releaseDebounce \in Nat
  /\ T.rejectRunMax \in Nat /\ T.learnPresses \in Nat /\ T.candMult \in Nat /\ T.learnRun \in Nat /\ T.learnNum \in Nat
  /\ T.floorMult \in Nat /\ T.floorMax \in Nat /\ T.quietRun \in Nat
BY TouchAssumption

\* The weakest of some samples is one of them.
LEMMA Weakest ==
  ASSUME NEW s \in Seq(Nat), NEW at \in SUBSET DOMAIN s, at # {}
  PROVE  WeakestAt(s, at) \in at
<1> DEFINE V == {s[i] : i \in at}
           R == WellFounded!OpToRel(<, Nat)
<1>1. V \subseteq Nat /\ V # {}
  OBVIOUS
<1>2. WellFounded!IsWellFoundedOn(R, Nat)
  BY WellFounded!NatLessThanWellFounded
<1>3. \A x, y \in Nat : y < x => <<y, x>> \in R
  BY DEF WellFounded!OpToRel
<1> HIDE DEF R
<1>4. \E v \in V : \A w \in V : ~(<<w, v>> \in R)
  <2> HIDE DEF V
  <2> QED
    BY <1>1, <1>2, WellFounded!WFMin
<1>5. PICK v \in V : \A w \in V : ~(<<w, v>> \in R)
  BY <1>4
<1>6. PICK i \in at : v = s[i]
  BY <1>5
<1>7. ASSUME NEW j \in at PROVE s[i] <= s[j]
  <2>1. s[j] \in V /\ s[j] \in Nat /\ s[i] \in Nat
    BY <1>1
  <2>2. ~(s[j] < s[i])
    BY <1>3, <1>5, <1>6, <2>1
  <2> QED
    BY <2>1, <2>2
<1> QED
  BY <1>6, <1>7 DEF WeakestAt

LEMMA WeakTyped ==
  ASSUME NEW s \in Seq(Nat), s # <<>>
  PROVE  Weak(s) \in Nat
<1> DEFINE first == WeakestAt(s, DOMAIN s)
<1>1. Len(s) \in Nat \ {0} /\ DOMAIN s = 1 .. Len(s)
  OBVIOUS
<1>2. first \in DOMAIN s
  <2>1. 1 \in DOMAIN s
    BY <1>1
  <2> QED
    BY <2>1, Weakest
<1> HIDE DEF first
<1>3. Len(s) >= 4 => WeakestAt(s, DOMAIN s \ {first}) \in DOMAIN s
  <2> SUFFICES ASSUME Len(s) >= 4 PROVE WeakestAt(s, DOMAIN s \ {first}) \in DOMAIN s
    OBVIOUS
  <2>1. 1 \in DOMAIN s /\ 2 \in DOMAIN s /\ (first # 1 \/ first # 2)
    BY <1>1
  <2> QED
    BY <2>1, Weakest
<1> QED
  BY <1>2, <1>3 DEF Weak, first

-----------------------------------------------------------------------------
(* A key and its updates.                                                   *)

LEMMA KeyTyped ==
  ASSUME NEW k, KeyOK(k)
  PROVE  /\ k.valid \in BOOLEAN /\ k.pressed \in BOOLEAN /\ k.learning \in BOOLEAN /\ k.cold \in BOOLEAN
         /\ k.pinned \in BOOLEAN
         /\ k.base \in Int /\ k.debounce \in Int /\ k.sum \in Int /\ k.mag \in Int
         /\ k.rejects \in Int /\ k.idleRef \in Int /\ k.run \in Int /\ k.quiet \in Int
         /\ k.settle \in 0 .. T.settleScans /\ k.peak \in Nat
         /\ k.press \in Nat \ {0} /\ k.release \in Nat /\ k.release < k.press
         /\ k.win \in Seq(Int) /\ Len(k.win) = T.magScans
         /\ k.seed \in Seq(Int) /\ Len(k.seed) < SeedSamples
         /\ k.samples \in Seq(Nat) /\ Len(k.samples) <= T.learnSamplesMax
BY DEF KeyOK, KeyFields, Values

\* The parts of a key that an update leaves alone.
Same(k, u, fields) == DOMAIN u = DOMAIN k /\ \A f \in KeyFields \ fields : u[f] = k[f]

LEMMA Updated ==
  ASSUME NEW k, KeyOK(k), NEW u, NEW fields, Same(k, u, fields),
         \A f \in fields : u[f] \in Values[f],
         u.release < u.press \/ fields \cap {"press", "release"} = {}
  PROVE  KeyOK(u)
<1>1. DOMAIN u = KeyFields /\ \A f \in KeyFields : u[f] \in Values[f]
  BY DEF Same, KeyOK
<1>2. u.release < u.press
  BY DEF Same, KeyOK, KeyFields
<1> QED
  BY <1>1, <1>2 DEF KeyOK

LEMMA NewKeyOK ==
  ASSUME NEW p, PairOK(p)
  PROVE  KeyOK(NewKey(p)) /\ Still(NewKey(p)) /\ NewKey(p).settle = T.settleScans /\ ~NewKey(p).pressed
<1> DEFINE k == NewKey(p)
           w == [i \in 1 .. T.magScans |-> 0]
<1>1. /\ DOMAIN k = KeyFields /\ k.win = w
      /\ k.valid = FALSE /\ k.pressed = FALSE /\ k.learning = FALSE /\ k.cold = TRUE /\ k.pinned = FALSE
      /\ k.base = 0 /\ k.debounce = 0 /\ k.sum = 0 /\ k.mag = 0 /\ k.rejects = 0 /\ k.idleRef = 0 /\ k.run = 0 /\ k.quiet = 0
      /\ k.press = p.press /\ k.release = p.release /\ k.settle = T.settleScans /\ k.peak = 0
      /\ k.seed = <<>> /\ k.samples = <<>>
  BY DEF NewKey, KeyFields
<1>2. w \in Seq(Int) /\ Len(w) = T.magScans /\ \A i \in 1 .. T.magScans : w[i] = 0
  <2>1. T.magScans \in Nat /\ \A i \in 1 .. T.magScans : 0 \in Int
    BY SettingsTyped
  <2>2. w \in Seq(Int)
    BY <2>1, IsASeq
  <2> QED
    BY <2>1, <2>2, LenProperties
<1>3. k.seed \in Seq(Int) /\ Len(k.seed) = 0 /\ k.samples \in Seq(Nat) /\ Len(k.samples) = 0
  BY <1>1
<1>4. T.settleScans \in Nat /\ T.learnSamplesMax \in Nat
  BY SettingsTyped
<1> HIDE DEF k, w
<1>5. KeyOK(k)
  <2>1. k.valid \in BOOLEAN
    BY <1>1
  <2>2. k.pressed \in BOOLEAN
    BY <1>1
  <2>3. k.learning \in BOOLEAN
    BY <1>1
  <2>4. k.cold \in BOOLEAN
    BY <1>1
  <2>5. k.pinned \in BOOLEAN
    BY <1>1
  <2>6. /\ k.base \in Int /\ k.debounce \in Int /\ k.sum \in Int /\ k.mag \in Int /\ k.rejects \in Int
        /\ k.idleRef \in Int /\ k.run \in Int /\ k.quiet \in Int /\ k.peak \in Nat /\ k.settle \in 0 .. T.settleScans
        /\ k.press \in Nat \ {0} /\ k.release \in Nat /\ k.release < k.press
    BY <1>1, <1>4 DEF PairOK
  <2>7. \A f \in KeyFields : k[f] \in Values[f]
    <3>1. /\ k.valid \in Values.valid /\ k.pressed \in Values.pressed /\ k.learning \in Values.learning
          /\ k.cold \in Values.cold /\ k.pinned \in Values.pinned
      BY <2>1, <2>2, <2>3, <2>4, <2>5 DEF Values
    <3>2. /\ k.base \in Values.base /\ k.debounce \in Values.debounce /\ k.sum \in Values.sum /\ k.mag \in Values.mag
          /\ k.rejects \in Values.rejects /\ k.idleRef \in Values.idleRef /\ k.run \in Values.run
          /\ k.quiet \in Values.quiet /\ k.peak \in Values.peak /\ k.settle \in Values.settle
          /\ k.press \in Values.press /\ k.release \in Values.release
      BY <2>6 DEF Values
    <3>3. k.win \in Values.win /\ k.seed \in Values.seed /\ k.samples \in Values.samples
      BY <1>1, <1>2, <1>3, <1>4 DEF Values, SeedSamples
    <3> QED
      BY <3>1, <3>2, <3>3, Zenon DEF KeyFields
  <2> QED
    BY <1>1, <2>6, <2>7 DEF KeyOK
<1>6. Still(k)
  BY <1>1, <1>2, <1>3 DEF Still
<1> QED
  BY <1>1, <1>5, <1>6 DEF k

LEMMA ClearedOK ==
  ASSUME NEW k, KeyOK(k)
  PROVE  /\ KeyOK(Cleared(k)) /\ ~Cleared(k).pressed /\ Same(k, Cleared(k), {"pressed", "debounce"})
         /\ Still(k) => Still(Cleared(k))
<1> DEFINE u == Cleared(k)
<1>1. Same(k, u, {"pressed", "debounce"}) /\ u.pressed = FALSE /\ u.debounce = 0
  BY DEF Cleared, Same, KeyOK, KeyFields
<1> HIDE DEF u
<1>2. \A f \in {"pressed", "debounce"} : u[f] \in Values[f]
  <2>1. u.pressed \in BOOLEAN
    BY <1>1
  <2>2. u.debounce \in Int
    BY <1>1
  <2> QED
    BY <2>1, <2>2 DEF Values
<1>3. KeyOK(u)
  BY <1>1, <1>2, Updated
<1>4. Still(k) => Still(u)
  BY <1>1 DEF Same, Still, KeyFields
<1> QED
  BY <1>1, <1>3, <1>4 DEF u

LEMMA UnlearntOK ==
  ASSUME NEW k, KeyOK(k), NEW p, PairOK(p)
  PROVE  /\ KeyOK(Unlearnt(k, p)) /\ Unlearnt(k, p).pressed = k.pressed /\ Unlearnt(k, p).settle = k.settle
         /\ Still(k) => Still(Unlearnt(k, p))
<1> DEFINE u == [k EXCEPT !.peak = 0, !.run = 0, !.quiet = 0, !.learning = FALSE, !.samples = <<>>, !.cold = TRUE]
           v == [u EXCEPT !.press = p.press, !.release = p.release]
           forgotten == {"peak", "run", "quiet", "learning", "samples", "cold"}
<1>1. /\ Same(k, u, forgotten)
      /\ u.peak = 0 /\ u.run = 0 /\ u.quiet = 0 /\ u.learning = FALSE /\ u.samples = <<>> /\ u.cold = TRUE
  BY DEF Same, KeyOK, KeyFields
<1> HIDE DEF u
<1>2. Same(u, v, {"press", "release"}) /\ v.press = p.press /\ v.release = p.release
  BY <1>1 DEF Same, KeyOK, KeyFields
<1> HIDE DEF v
<1>3. KeyOK(u)
  <2>1. u.samples \in Seq(Nat) /\ Len(u.samples) = 0
    BY <1>1
  <2>2. T.learnSamplesMax \in Nat
    BY SettingsTyped
  <2>3. u.learning \in BOOLEAN
    BY <1>1
  <2>4. u.cold \in BOOLEAN
    BY <1>1
  <2>5. u.peak \in Nat /\ u.run \in Int /\ u.quiet \in Int
    BY <1>1
  <2>6. \A f \in forgotten : u[f] \in Values[f]
    BY <2>1, <2>2, <2>3, <2>4, <2>5 DEF Values
  <2> QED
    BY <1>1, <2>6, Updated
<1>4. KeyOK(v)
  <2>1. (\A f \in {"press", "release"} : v[f] \in Values[f]) /\ v.release < v.press
    BY <1>2 DEF Values, PairOK
  <2> QED
    BY <1>2, <1>3, <2>1, Updated
<1>5. (Still(k) => Still(u)) /\ (Still(u) => Still(v))
  BY <1>1, <1>2 DEF Same, KeyFields, Still
<1>6. Unlearnt(k, p) = IF k.pinned THEN u ELSE v
  BY DEF Unlearnt, u, v
<1>7. u.pressed = k.pressed /\ v.pressed = k.pressed /\ u.settle = k.settle /\ v.settle = k.settle
  BY <1>1, <1>2 DEF Same, KeyFields
<1> QED
  BY <1>3, <1>4, <1>5, <1>6, <1>7

LEMMA ReconfiguredOK ==
  ASSUME NEW k, KeyOK(k), PairOK(pair)
  PROVE  /\ KeyOK(Reconfigured(k)) /\ ~Reconfigured(k).pressed /\ Reconfigured(k).settle = T.settleScans
         /\ Still(k) => Still(Reconfigured(k))
<1> DEFINE w == Unlearnt(Cleared(k), pair)
           u == [w EXCEPT !.valid = FALSE, !.settle = T.settleScans, !.seed = <<>>, !.rejects = 0, !.idleRef = 0]
           fresh == {"valid", "settle", "seed", "rejects", "idleRef"}
<1>1. KeyOK(w) /\ w.pressed = FALSE /\ (Still(k) => Still(w))
  <2>1. KeyOK(Cleared(k)) /\ Cleared(k).pressed = FALSE /\ (Still(k) => Still(Cleared(k)))
    BY ClearedOK, KeyTyped
  <2> QED
    BY <2>1, UnlearntOK
<1> HIDE DEF w
<1>2. /\ Same(w, u, fresh)
      /\ u.valid = FALSE /\ u.settle = T.settleScans /\ u.seed = <<>> /\ u.rejects = 0 /\ u.idleRef = 0
  BY <1>1 DEF Same, KeyOK, KeyFields
<1> HIDE DEF u
<1>3. u.seed \in Seq(Int) /\ Len(u.seed) = 0
  BY <1>2
<1>4. KeyOK(u)
  <2>1. T.settleScans \in Nat
    BY SettingsTyped
  <2>2. u.valid \in BOOLEAN
    BY <1>2
  <2>3. u.settle \in 0 .. T.settleScans /\ u.rejects \in Int /\ u.idleRef \in Int
    BY <1>2, <2>1
  <2>4. \A f \in fresh : u[f] \in Values[f]
    <3>1. u.seed \in Values.seed
      BY <1>3 DEF Values, SeedSamples
    <3>2. u.valid \in Values.valid
      BY <2>2 DEF Values
    <3>3. u.settle \in Values.settle /\ u.rejects \in Values.rejects /\ u.idleRef \in Values.idleRef
      BY <2>3 DEF Values
    <3> QED
      BY <3>1, <3>2, <3>3, Zenon
  <2> QED
    BY <1>1, <1>2, <2>4, Updated
<1>5. u.pressed = FALSE /\ (Still(w) => Still(u))
  BY <1>1, <1>2, <1>3 DEF Same, Still, KeyFields
<1> QED
  BY <1>1, <1>2, <1>4, <1>5 DEF Reconfigured, u, w

\* Thresholds that are set, or learnt.
LEMMA ThresholdsOK ==
  ASSUME NEW k, KeyOK(k), NEW u, Same(k, u, {"press", "release", "pinned"}),
         u.press \in Nat \ {0}, u.release \in Nat, u.release < u.press, u.pinned \in BOOLEAN
  PROVE  /\ KeyOK(u) /\ u.pressed = k.pressed /\ u.settle = k.settle /\ (Still(k) => Still(u))
<1>1. \A f \in {"press", "release", "pinned"} : u[f] \in Values[f]
  BY DEF Values
<1>2. KeyOK(u)
  BY <1>1, Updated
<1> QED
  BY <1>2 DEF Same, KeyFields, Still

-----------------------------------------------------------------------------
(* What becomes of a key with a sample.                                     *)

\* The baseline is one of the three samples.
LEMMA Median ==
  ASSUME NEW x \in Int, NEW y \in Int, NEW z \in Int
  PROVE  x + y + z - Least(Least(x, y), z) - Most(Most(x, y), z) \in {x, y, z}
BY DEF Least, Most

LEMMA SeededOK ==
  ASSUME NEW k, KeyOK(k), ~k.valid, NEW raw \in Int
  PROVE  /\ KeyOK(Seeded(k, raw)) /\ Seeded(k, raw).pressed = k.pressed /\ Seeded(k, raw).settle = k.settle
         /\ Still(k) /\ raw \in {Idle, Garbage} => Still(Seeded(k, raw))
<1> DEFINE s  == Append(k.seed, raw)
           lo == Least(Least(s[1], s[2]), s[3])
           hi == Most(Most(s[1], s[2]), s[3])
           m  == s[1] + s[2] + s[3] - lo - hi
           a  == [k EXCEPT !.seed = s]
           b  == [k EXCEPT !.seed = <<>>]
           c  == [k EXCEPT !.base = m, !.valid = TRUE, !.seed = <<>>]
<1>1. k.seed \in Seq(Int) /\ Len(k.seed) < SeedSamples
  BY KeyTyped
<1>2. /\ s \in Seq(Int) /\ Len(s) = Len(k.seed) + 1 /\ Len(s) \in 1 .. SeedSamples /\ s[Len(s)] = raw
      /\ \A i \in 1 .. Len(k.seed) : s[i] = k.seed[i]
  BY <1>1 DEF SeedSamples
<1>3. Still(k) /\ raw \in {Idle, Garbage} => \A i \in 1 .. Len(s) : s[i] \in {Idle, Garbage}
  BY <1>1, <1>2 DEF Still
<1>4. Seeded(k, raw) = CASE Len(s) < SeedSamples -> a
                         [] Len(s) = SeedSamples /\ hi - lo > Magnitude(lo) \div T.seedAgreeDiv -> b
                         [] OTHER -> c
  BY DEF Seeded
<1> HIDE DEF s
<1>5. Len(s) = SeedSamples => m \in Int /\ m \in {s[1], s[2], s[3]}
  <2> SUFFICES ASSUME Len(s) = SeedSamples PROVE m \in Int /\ m \in {s[1], s[2], s[3]}
    OBVIOUS
  <2>1. s[1] \in Int /\ s[2] \in Int /\ s[3] \in Int
    BY <1>2 DEF SeedSamples
  <2>2. m \in {s[1], s[2], s[3]}
    BY <2>1, Median
  <2> QED
    BY <2>1, <2>2
<1> HIDE DEF lo, hi, m
<1>6. Same(k, a, {"seed"}) /\ a.seed = s
  BY DEF Same, KeyOK, KeyFields
<1>7. Same(k, b, {"seed"}) /\ b.seed = <<>>
  BY DEF Same, KeyOK, KeyFields
<1>8. Same(k, c, {"base", "valid", "seed"}) /\ c.base = m /\ c.valid = TRUE /\ c.seed = <<>>
  BY DEF Same, KeyOK, KeyFields
<1> HIDE DEF a, b, c
<1>9. CASE Len(s) < SeedSamples
  <2>1. Seeded(k, raw) = a
    BY <1>4, <1>9
  <2>2. \A f \in {"seed"} : a[f] \in Values[f]
    BY <1>2, <1>6, <1>9 DEF Values
  <2>3. KeyOK(a)
    BY <1>6, <2>2, Updated
  <2>4. Still(k) /\ raw \in {Idle, Garbage} => Still(a)
    BY <1>3, <1>6 DEF Same, KeyFields, Still
  <2> QED
    BY <1>6, <2>1, <2>3, <2>4 DEF Same, KeyFields
<1>10. CASE Len(s) = SeedSamples /\ hi - lo > Magnitude(lo) \div T.seedAgreeDiv
  <2>1. Seeded(k, raw) = b
    BY <1>4, <1>10 DEF SeedSamples
  <2>2. b.seed \in Seq(Int) /\ Len(b.seed) = 0
    BY <1>7
  <2>3. \A f \in {"seed"} : b[f] \in Values[f]
    BY <2>2 DEF Values, SeedSamples
  <2>4. KeyOK(b)
    BY <1>7, <2>3, Updated
  <2>5. Still(k) => Still(b)
    BY <1>7, <2>2 DEF Same, KeyFields, Still
  <2> QED
    BY <1>7, <2>1, <2>4, <2>5 DEF Same, KeyFields
<1>11. CASE Len(s) = SeedSamples /\ ~(hi - lo > Magnitude(lo) \div T.seedAgreeDiv)
  <2>1. Seeded(k, raw) = c
    BY <1>4, <1>11 DEF SeedSamples
  <2>2. c.seed \in Seq(Int) /\ Len(c.seed) = 0 /\ c.base \in Int
    BY <1>5, <1>8, <1>11
  <2>3. c.valid \in BOOLEAN
    BY <1>8
  <2>6. \A f \in {"base", "valid", "seed"} : c[f] \in Values[f]
    BY <2>2, <2>3 DEF Values, SeedSamples
  <2>4. KeyOK(c)
    BY <1>8, <2>6, Updated
  <2>5. Still(k) /\ raw \in {Idle, Garbage} => Still(c)
    <3> SUFFICES ASSUME Still(k), raw \in {Idle, Garbage} PROVE Still(c)
      OBVIOUS
    <3>1. s[1] \in {Idle, Garbage} /\ s[2] \in {Idle, Garbage} /\ s[3] \in {Idle, Garbage}
      BY <1>3, <1>11 DEF SeedSamples
    <3>2. m \in {Idle, Garbage}
      BY <1>5, <1>11, <3>1
    <3> QED
      BY <1>8, <2>2, <3>2 DEF Same, KeyFields, Still
  <2> QED
    BY <1>8, <2>1, <2>4, <2>5 DEF Same, KeyFields
<1> QED
  BY <1>2, <1>9, <1>10, <1>11 DEF SeedSamples

LEMMA RejectedOK ==
  ASSUME NEW k, KeyOK(k)
  PROVE  /\ KeyOK(Rejected(k)) /\ (Still(k) => Still(Rejected(k))) /\ Rejected(k).settle = k.settle
         /\ Rejected(k).pressed => k.pressed
         /\ k.pressed /\ ~Rejected(k).pressed => ~Rejected(k).valid
<1> DEFINE w == Cleared(k)
           a == [k EXCEPT !.rejects = @ + 1]
           u == [w EXCEPT !.valid = FALSE, !.seed = <<>>, !.rejects = 0]
           lost == {"valid", "seed", "rejects"}
<1>1. KeyOK(w) /\ w.pressed = FALSE /\ w.settle = k.settle /\ (Still(k) => Still(w))
  <2>1. KeyOK(w) /\ ~w.pressed /\ Same(k, w, {"pressed", "debounce"}) /\ (Still(k) => Still(w))
    BY ClearedOK
  <2> QED
    BY <2>1, KeyTyped DEF Same, KeyFields
<1>2. Same(k, a, {"rejects"}) /\ a.rejects = k.rejects + 1
  BY DEF Same, KeyOK, KeyFields
<1>3. Rejected(k) = IF k.rejects + 1 < T.rejectRunMax THEN a ELSE u
  BY DEF Rejected
<1> HIDE DEF w
<1>4. Same(w, u, lost) /\ u.valid = FALSE /\ u.seed = <<>> /\ u.rejects = 0
  BY <1>1 DEF Same, KeyOK, KeyFields
<1> HIDE DEF a, u
<1>5. KeyOK(a) /\ (Still(k) => Still(a)) /\ a.settle = k.settle /\ a.pressed = k.pressed
  <2>1. \A f \in {"rejects"} : a[f] \in Values[f]
    BY <1>2, KeyTyped DEF Values
  <2>2. KeyOK(a)
    BY <1>2, <2>1, Updated
  <2> QED
    BY <1>2, <2>2 DEF Same, KeyFields, Still
<1>6. KeyOK(u) /\ (Still(w) => Still(u)) /\ u.settle = k.settle /\ u.pressed = FALSE
  <2>1. u.seed \in Seq(Int) /\ Len(u.seed) = 0
    BY <1>4
  <2>4. u.valid \in BOOLEAN
    BY <1>4
  <2>5. u.rejects \in Int
    BY <1>4
  <2>2. \A f \in lost : u[f] \in Values[f]
    BY <2>1, <2>4, <2>5 DEF Values, SeedSamples
  <2>3. KeyOK(u)
    BY <1>1, <1>4, <2>2, Updated
  <2> QED
    BY <1>1, <1>4, <2>1, <2>3 DEF Same, KeyFields, Still
<1> QED
  BY <1>1, <1>3, <1>4, <1>5, <1>6

\* As long as no touch was measured, only the baseline itself is believed.
LEMMA OnlyTheBaseline ==
  ASSUME NEW k, Still(k), k.valid, NEW raw \in {Idle, Garbage}, ~Implausible(k, raw)
  PROVE  raw = k.base
<1>1. k.base \in {Idle, Garbage}
  BY DEF Still
<1>2. Idle \in Int /\ Garbage \in Int
  BY TouchAssumption
<1>3. raw # k.base => Magnitude(k.base) \div T.implausibleDiv \in 1 .. Magnitude(raw - k.base) - 1
  BY <1>1, TouchAssumption
<1>4. Magnitude(k.base) \in Int /\ Magnitude(raw - k.base) \in Int
  BY <1>1, <1>2 DEF Magnitude
<1> HIDE DEF Magnitude
<1> DEFINE limit == Magnitude(k.base) \div T.implausibleDiv
           far == Magnitude(raw - k.base)
<1>5. ~(limit > 0 /\ far > limit)
  BY DEF Implausible
<1>6. raw # k.base => limit \in 1 .. far - 1 /\ far \in Int
  BY <1>3, <1>4
<1> HIDE DEF limit, far
<1> QED
  BY <1>5, <1>6

LEMMA AveragedOK ==
  ASSUME NEW k, KeyOK(k), NEW raw \in Int
  PROVE  /\ KeyOK(Averaged(k, raw)) /\ Same(k, Averaged(k, raw), {"rejects", "win", "sum", "mag"})
         /\ Still(k) /\ raw = k.base => Still(Averaged(k, raw))
<1> DEFINE m == Magnitude(raw - k.base)
           sum == k.sum - Head(k.win) + m
           win == Append(Tail(k.win), m)
           mean == sum \div T.magScans
           u == [k EXCEPT !.rejects = 0, !.win = win, !.sum = sum, !.mag = mean]
           moved == {"rejects", "win", "sum", "mag"}
<1>1. T.magScans \in Nat \ {0}
  BY SettingsTyped
<1>2. k.base \in Int /\ k.sum \in Int /\ k.win \in Seq(Int) /\ Len(k.win) = T.magScans
  BY KeyTyped
<1>3. m \in Int /\ (raw = k.base => m = 0)
  BY <1>2 DEF Magnitude
<1>4. Averaged(k, raw) = u
  BY DEF Averaged
<1> HIDE DEF m
<1>5. /\ win \in Seq(Int) /\ Len(win) = T.magScans /\ Head(k.win) = k.win[1] /\ k.win[1] \in Int
      /\ \A i \in 1 .. T.magScans : win[i] = IF i = T.magScans THEN m ELSE k.win[i + 1]
  <2>1. k.win # <<>> /\ k.win[1] \in Int
    BY <1>1, <1>2
  <2>2. /\ Head(k.win) = k.win[1] /\ Tail(k.win) \in Seq(Int) /\ Len(Tail(k.win)) = T.magScans - 1
        /\ \A i \in 1 .. T.magScans - 1 : Tail(k.win)[i] = k.win[i + 1]
    BY <1>1, <1>2, <2>1, HeadTailProperties
  <2> DEFINE t == Tail(k.win)
  <2> HIDE DEF t
  <2>3. t \in Seq(Int) /\ Len(t) = T.magScans - 1 /\ win = Append(t, m)
    BY <2>2 DEF t
  <2>4. /\ win \in Seq(Int) /\ Len(win) = T.magScans
        /\ \A i \in 1 .. T.magScans : win[i] = IF i = T.magScans THEN m ELSE t[i]
    <3> HIDE DEF win
    <3>1. win \in Seq(Int) /\ Len(win) = Len(t) + 1
      BY <1>3, <2>3, AppendProperties
    <3>2. \A i \in 1 .. Len(t) + 1 : win[i] = IF i = Len(t) + 1 THEN m ELSE t[i]
      BY <1>3, <2>3, AppendProperties
    <3> QED
      BY <1>1, <2>3, <3>1, <3>2
  <2> QED
    BY <1>1, <2>1, <2>2, <2>4 DEF t
<1> HIDE DEF win
<1>6. sum \in Int
  BY <1>2, <1>3, <1>5
<1>7. mean \in Int /\ (sum = 0 => mean = 0)
  BY <1>1, <1>6, Quotients
<1>8. Still(k) /\ raw = k.base => sum = 0 /\ \A i \in 1 .. T.magScans : win[i] = 0
  <2> SUFFICES ASSUME Still(k), raw = k.base PROVE sum = 0 /\ \A i \in 1 .. T.magScans : win[i] = 0
    OBVIOUS
  <2>1. k.sum = 0 /\ \A i \in 1 .. T.magScans : k.win[i] = 0
    BY DEF Still
  <2>2. sum = 0
    BY <1>1, <1>3, <1>5, <2>1
  <2>3. \A i \in 1 .. T.magScans : i # T.magScans => i + 1 \in 1 .. T.magScans
    BY <1>1
  <2> HIDE DEF sum
  <2> QED
    BY <1>3, <1>5, <2>1, <2>2, <2>3
<1> HIDE DEF sum, mean
<1>9. Same(k, u, moved) /\ u.rejects = 0 /\ u.win = win /\ u.sum = sum /\ u.mag = mean
  BY DEF Same, KeyOK, KeyFields
<1> HIDE DEF u
<1>10. KeyOK(u)
  <2>1. u.win \in Values.win
    BY <1>5, <1>9 DEF Values
  <2>2. u.rejects \in Values.rejects /\ u.sum \in Values.sum /\ u.mag \in Values.mag
    BY <1>6, <1>7, <1>9 DEF Values
  <2>3. \A f \in moved : u[f] \in Values[f]
    BY <2>1, <2>2, Zenon
  <2> QED
    BY <1>9, <2>3, Updated
<1>11. Still(k) /\ raw = k.base => Still(u)
  BY <1>7, <1>8, <1>9 DEF Same, KeyFields, Still
<1> QED
  BY <1>4, <1>9, <1>10, <1>11

\* What is learnt is a pair of which the release lies below the press.
LEMMA LearntOK ==
  ASSUME NEW k, KeyOK(k), k.samples # <<>>, PairOK(pair)
  PROVE  KeyOK(Learnt(k)) /\ Same(k, Learnt(k), {"press", "release"})
<1> DEFINE y == k.idleRef * T.floorMult
           z == Least(y, T.floorMax)
           floor == Most(z, T.floorMin)
           x == (Weak(k.samples) * T.learnNum) \div T.learnDen
           press == Most(Least(x, pair.press), floor)
           u == [k EXCEPT !.press = press, !.release = ReleaseOf(press, k)]
<1>1. k.idleRef \in Int /\ k.samples \in Seq(Nat) /\ KeyOK(k)
  BY KeyTyped
<1>2. floor \in Int /\ floor >= 1
  <2>1. T.floorMult \in Nat /\ T.floorMax \in Nat /\ T.floorMin \in Nat \ {0}
    BY SettingsTyped
  <2>2. y \in Int
    BY <1>1, <2>1
  <2> HIDE DEF y
  <2>3. z \in Int
    BY <2>1, <2>2 DEF Least
  <2> HIDE DEF z
  <2> QED
    BY <2>1, <2>3 DEF Most
<1>3. x \in Int
  <2>1. Weak(k.samples) \in Nat
    BY <1>1, WeakTyped
  <2>2. T.learnNum \in Nat /\ T.learnDen \in Nat \ {0}
    BY SettingsTyped
  <2>3. Weak(k.samples) * T.learnNum \in Int
    BY <2>1, <2>2
  <2> QED
    BY <2>2, <2>3, Quotients
<1> HIDE DEF x, y, z, floor
<1>4. press \in Int /\ press >= 1
  <2>1. pair.press \in Int
    BY DEF PairOK
  <2> QED
    BY <1>2, <1>3, <2>1 DEF Least, Most
<1>5. Learnt(k) = u
  BY DEF Learnt, x, y, z, floor
<1> HIDE DEF press
<1>6. Same(k, u, {"press", "release"}) /\ u.press = press /\ u.release = ReleaseOf(press, k)
  BY DEF Same, KeyOK, KeyFields
<1>7. ReleaseOf(press, k) \in Nat /\ ReleaseOf(press, k) < press
  BY <1>4 DEF ReleaseOf
<1> HIDE DEF u
<1>8. /\ \A f \in {"press", "release"} : u[f] \in Values[f]
      /\ u.release < u.press
  BY <1>4, <1>6, <1>7 DEF Values
<1> QED
  BY <1>5, <1>6, <1>8, Updated

LEMMA SampledOK ==
  ASSUME NEW k, KeyOK(k), PairOK(pair)
  PROVE  KeyOK(Sampled(k)) /\ Same(k, Sampled(k), {"samples", "press", "release"})
<1> DEFINE kept == IF Len(k.samples) >= T.learnSamplesMax THEN Tail(k.samples) ELSE k.samples
           new == Append(kept, k.peak)
           s == [k EXCEPT !.samples = new]
<1>1. k.samples \in Seq(Nat) /\ Len(k.samples) <= T.learnSamplesMax /\ k.peak \in Nat /\ KeyOK(k)
  BY KeyTyped
<1>2. T.learnSamplesMax \in Nat \ {0}
  BY SettingsTyped
<1>3. kept \in Seq(Nat) /\ Len(kept) < T.learnSamplesMax
  <2>1. CASE Len(k.samples) >= T.learnSamplesMax
    <3>1. k.samples # <<>> /\ Len(k.samples) = T.learnSamplesMax
      BY <1>1, <1>2, <2>1
    <3>2. Tail(k.samples) \in Seq(Nat) /\ Len(Tail(k.samples)) = Len(k.samples) - 1
      BY <1>1, <3>1, HeadTailProperties
    <3> QED
      BY <1>2, <2>1, <3>1, <3>2
  <2>2. CASE ~(Len(k.samples) >= T.learnSamplesMax)
    BY <1>1, <1>2, <2>2
  <2> QED
    BY <2>1, <2>2
<1>4. Sampled(k) = IF T.learnPresses = 0 \/ k.pinned THEN k
                   ELSE IF Len(s.samples) >= T.learnPresses THEN Learnt(s) ELSE s
  BY DEF Sampled
<1> HIDE DEF kept
<1>5. new \in Seq(Nat) /\ Len(new) <= T.learnSamplesMax /\ new # <<>>
  <2>1. new \in Seq(Nat) /\ Len(new) = Len(kept) + 1
    BY <1>1, <1>3, AppendProperties
  <2> HIDE DEF new
  <2> QED
    BY <1>2, <1>3, <2>1
<1> HIDE DEF new
<1>6. Same(k, s, {"samples"}) /\ s.samples = new
  BY <1>1 DEF Same, KeyOK, KeyFields
<1> HIDE DEF s
<1>7. KeyOK(s)
  <2>1. \A f \in {"samples"} : s[f] \in Values[f]
    BY <1>5, <1>6 DEF Values
  <2> QED
    BY <1>1, <1>6, <2>1, Updated
<1>8. KeyOK(Learnt(s)) /\ Same(s, Learnt(s), {"press", "release"})
  BY <1>5, <1>6, <1>7, LearntOK
<1>9. Same(k, Learnt(s), {"samples", "press", "release"}) /\ Same(k, s, {"samples", "press", "release"})
  BY <1>6, <1>8 DEF Same
<1>10. Same(k, k, {"samples", "press", "release"})
  BY DEF Same
<1> QED
  BY <1>1, <1>4, <1>7, <1>8, <1>9, <1>10

LEMMA LearningOK ==
  ASSUME NEW k, KeyOK(k), PairOK(pair)
  PROVE  /\ KeyOK(Learning(k))
         /\ Same(k, Learning(k), {"peak", "run", "quiet", "learning", "samples", "press", "release", "idleRef"})
<1> DEFINE all == {"peak", "run", "quiet", "learning", "samples", "press", "release", "idleRef"}
           peak == Most(k.peak, k.mag)
           length == Least(k.run + 1, T.learnRun)
           on == k.learning \/ k.run + 1 >= T.learnRun
           a == [k EXCEPT !.peak = peak, !.run = length, !.learning = on, !.quiet = 0]
           s == IF k.learning THEN Sampled(k) ELSE k
           quiet == Least(k.quiet + 1, T.quietRun)
           ref == IF quiet >= T.quietRun /\ allQuiet THEN s.idleRef + (k.mag - s.idleRef) \div T.idleDiv ELSE s.idleRef
           b == [s EXCEPT !.learning = FALSE, !.run = 0, !.peak = 0, !.quiet = quiet, !.idleRef = ref]
<1>1. /\ k.mag \in Int /\ k.run \in Int /\ k.quiet \in Int /\ k.idleRef \in Int /\ k.peak \in Nat
  BY KeyTyped
<1>2. T.learnRun \in Nat /\ T.quietRun \in Nat /\ T.idleDiv \in Nat \ {0}
  BY SettingsTyped
<1>3. Learning(k) \in {a, b}
  BY DEF Learning
<1>4. KeyOK(s) /\ Same(k, s, {"samples", "press", "release"})
  <2>1. Same(k, k, {"samples", "press", "release"})
    BY DEF Same
  <2> QED
    BY <2>1, SampledOK
<1> HIDE DEF s
<1>5. peak \in Nat /\ length \in Int /\ quiet \in Int
  BY <1>1, <1>2 DEF Least, Most
<1>6. ref \in Int
  <2>1. s.idleRef \in Int
    BY <1>4, KeyTyped
  <2>2. k.mag - s.idleRef \in Int
    BY <1>1, <2>1
  <2>3. (k.mag - s.idleRef) \div T.idleDiv \in Int
    BY <1>2, <2>2, Quotients
  <2> HIDE DEF quiet
  <2> QED
    BY <2>1, <2>3
<1>7. on \in BOOLEAN
  OBVIOUS
<1> HIDE DEF peak, length, quiet, ref, on
<1>8. /\ Same(k, a, {"peak", "run", "learning", "quiet"})
      /\ a.peak = peak /\ a.run = length /\ a.learning = on /\ a.quiet = 0
  BY DEF Same, KeyOK, KeyFields
<1>9. /\ Same(s, b, {"peak", "run", "learning", "quiet", "idleRef"})
      /\ b.peak = 0 /\ b.run = 0 /\ b.learning = FALSE /\ b.quiet = quiet /\ b.idleRef = ref
  BY <1>4 DEF Same, KeyOK, KeyFields
<1> HIDE DEF a, b
<1>10. KeyOK(a) /\ Same(k, a, all)
  <2>1. a.learning \in Values.learning
    BY <1>7, <1>8 DEF Values
  <2>2. a.peak \in Values.peak /\ a.run \in Values.run /\ a.quiet \in Values.quiet
    BY <1>5, <1>8 DEF Values
  <2>3. \A f \in {"peak", "run", "learning", "quiet"} : a[f] \in Values[f]
    BY <2>1, <2>2, Zenon
  <2>4. KeyOK(a)
    BY <1>8, <2>3, Updated
  <2> QED
    BY <1>8, <2>4 DEF Same
<1>11. KeyOK(b) /\ Same(k, b, all)
  <2>1. b.learning \in Values.learning
    BY <1>9 DEF Values
  <2>2. b.peak \in Values.peak /\ b.run \in Values.run /\ b.quiet \in Values.quiet /\ b.idleRef \in Values.idleRef
    BY <1>5, <1>6, <1>9 DEF Values
  <2>3. \A f \in {"peak", "run", "learning", "quiet", "idleRef"} : b[f] \in Values[f]
    BY <2>1, <2>2, Zenon
  <2>4. KeyOK(b)
    BY <1>4, <1>9, <2>3, Updated
  <2> QED
    BY <1>4, <1>9, <2>4 DEF Same
<1> QED
  BY <1>3, <1>10, <1>11

\* At no magnitude at all, a key is neither pressed nor near it.
LEMMA DetectedOK ==
  ASSUME NEW k, KeyOK(k), NEW raw \in Int
  PROVE  /\ KeyOK(Detected(k, raw)) /\ Same(k, Detected(k, raw), {"base", "debounce", "pressed", "cold"})
         /\ Still(k) /\ (k.valid => raw = k.base) => Still(Detected(k, raw))
<1> DEFINE moved == {"base", "debounce", "pressed", "cold"}
           base == k.base + (raw - k.base) \div T.baselineDiv
           still == [k EXCEPT !.base = base]
           drift == IF k.pressed THEN k ELSE [k EXCEPT !.base = k.base + (raw - k.base) \div T.baselineDiv]
           over == IF k.pressed THEN k.mag < k.release ELSE k.mag >= PressAt(k)
           enough == IF k.pressed THEN T.releaseDebounce ELSE DebounceAt(k)
           flipped == ~k.pressed
           cold == drift.cold /\ k.pressed
           a == [drift EXCEPT !.debounce = 0]
           b == [drift EXCEPT !.debounce = drift.debounce + 1]
           c == [drift EXCEPT !.debounce = 0, !.pressed = flipped, !.cold = cold]
<1>1. /\ k.base \in Int /\ k.debounce \in Int /\ k.mag \in Int /\ k.press \in Nat \ {0}
      /\ k.pressed \in BOOLEAN /\ k.valid \in BOOLEAN
  BY KeyTyped
<1>2. T.baselineDiv \in Nat \ {0} /\ T.coldPress \in Nat
  BY SettingsTyped
<1>3. base \in Int /\ (raw = k.base => base = k.base)
  <2> DEFINE d == raw - k.base
  <2>1. d \in Int /\ (raw = k.base => d = 0)
    BY <1>1
  <2> HIDE DEF d
  <2>2. d \div T.baselineDiv \in Int /\ 0 \div T.baselineDiv = 0
    BY <1>2, <2>1, Quotients
  <2>3. base = k.base + d \div T.baselineDiv
    BY DEF d
  <2> HIDE DEF base
  <2> QED
    BY <1>1, <2>1, <2>2, <2>3
<1>4. Detected(k, raw) = CASE ~over -> a
                           [] over /\ k.debounce + 1 < enough -> b
                           [] OTHER -> c
  BY DEF Detected
<1>5. Still(k) => ~over
  <2>1. PressAt(k) \in Int /\ PressAt(k) >= 1
    BY <1>1, <1>2 DEF PressAt, Most
  <2>2. ~k.pressed => (over <=> k.mag >= PressAt(k))
    OBVIOUS
  <2> HIDE DEF over
  <2> QED
    BY <2>1, <2>2 DEF Still
<1>6. Same(k, still, {"base"}) /\ still.base = base
  BY DEF Same, KeyOK, KeyFields
<1>7. drift = IF k.pressed THEN k ELSE still
  OBVIOUS
<1> HIDE DEF base, still
<1>8. KeyOK(still)
  <2>1. \A f \in {"base"} : still[f] \in Values[f]
    BY <1>3, <1>6 DEF Values
  <2> QED
    BY <1>6, <2>1, Updated
<1> HIDE DEF drift
<1>9. KeyOK(drift) /\ Same(k, drift, {"base"}) /\ (drift.base = k.base \/ drift.base = base)
  BY <1>6, <1>7, <1>8 DEF Same
<1>10. drift.debounce \in Int /\ drift.cold \in BOOLEAN
  BY <1>9, KeyTyped
<1>11. cold \in BOOLEAN
  OBVIOUS
<1>20. flipped \in BOOLEAN
  OBVIOUS
<1> HIDE DEF cold, flipped, enough, over
<1>12. Same(drift, a, {"debounce"}) /\ a.debounce = 0
  BY <1>9 DEF Same, KeyOK, KeyFields
<1>13. Same(drift, b, {"debounce"}) /\ b.debounce = drift.debounce + 1
  BY <1>9 DEF Same, KeyOK, KeyFields
<1>14. Same(drift, c, {"debounce", "pressed", "cold"}) /\ c.debounce = 0 /\ c.pressed = flipped /\ c.cold = cold
  BY <1>9 DEF Same, KeyOK, KeyFields
<1> HIDE DEF a, b, c
<1>15. KeyOK(a) /\ Same(k, a, moved)
  <2>1. \A f \in {"debounce"} : a[f] \in Values[f]
    BY <1>12 DEF Values
  <2>2. KeyOK(a)
    BY <1>9, <1>12, <2>1, Updated
  <2> QED
    BY <1>9, <1>12, <2>2 DEF Same
<1>16. KeyOK(b) /\ Same(k, b, moved)
  <2>1. \A f \in {"debounce"} : b[f] \in Values[f]
    BY <1>10, <1>13 DEF Values
  <2>2. KeyOK(b)
    BY <1>9, <1>13, <2>1, Updated
  <2> QED
    BY <1>9, <1>13, <2>2 DEF Same
<1>17. KeyOK(c) /\ Same(k, c, moved)
  <2>1. c.pressed \in Values.pressed
    BY <1>14, <1>20 DEF Values
  <2>2. c.cold \in Values.cold
    BY <1>11, <1>14 DEF Values
  <2>3. c.debounce \in Values.debounce
    BY <1>14 DEF Values
  <2>4. \A f \in {"debounce", "pressed", "cold"} : c[f] \in Values[f]
    BY <2>1, <2>2, <2>3, Zenon
  <2>5. KeyOK(c)
    BY <1>9, <1>14, <2>4, Updated
  <2> QED
    BY <1>9, <1>14, <2>5 DEF Same
<1>18. KeyOK(Detected(k, raw)) /\ Same(k, Detected(k, raw), moved)
  <2>1. Detected(k, raw) \in {a, b, c}
    BY <1>4
  <2> QED
    BY <1>15, <1>16, <1>17, <2>1
<1>19. Still(k) /\ (k.valid => raw = k.base) => Still(Detected(k, raw))
  <2> SUFFICES ASSUME Still(k), k.valid => raw = k.base PROVE Still(a)
    BY <1>4, <1>5
  <2>1. /\ a.pressed = k.pressed /\ a.sum = k.sum /\ a.mag = k.mag /\ a.win = k.win /\ a.seed = k.seed
        /\ a.valid = k.valid /\ a.base = drift.base
    BY <1>9, <1>12 DEF Same, KeyFields
  <2>2. k.valid => a.base = k.base
    BY <1>3, <1>9, <2>1
  <2> QED
    BY <2>1, <2>2 DEF Still
<1> QED
  BY <1>18, <1>19

\* A sample: the settle count falls, and only a touch wakes a key.
LEMMA UpdateKeyOK ==
  ASSUME NEW k, KeyOK(k), PairOK(pair), NEW raw \in Int
  PROVE  /\ KeyOK(UpdateKey(k, raw))
         /\ UpdateKey(k, raw).settle = IF k.settle > 0 THEN k.settle - 1 ELSE 0
         /\ Still(k) /\ raw \in {Idle, Garbage} => Still(UpdateKey(k, raw))
<1> DEFINE e == [k EXCEPT !.settle = k.settle - 1]
           a == Averaged(k, raw)
           l == Learning(a)
           d == Detected(l, raw)
<1>1. k.settle \in 0 .. T.settleScans /\ k.valid \in BOOLEAN /\ k.base \in Int
  BY KeyTyped
<1>2. UpdateKey(k, raw) = CASE k.settle > 0 -> e
                            [] k.settle = 0 /\ ~k.valid -> Seeded(k, raw)
                            [] k.settle = 0 /\ k.valid /\ Implausible(k, raw) -> Rejected(k)
                            [] OTHER -> d
  BY DEF UpdateKey
<1>3. T.settleScans \in Nat
  BY SettingsTyped
<1> HIDE DEF a, l, d, e
<1>4. CASE k.settle > 0
  <2>1. UpdateKey(k, raw) = e
    BY <1>2, <1>4
  <2>2. Same(k, e, {"settle"}) /\ e.settle = k.settle - 1
    BY DEF Same, KeyOK, KeyFields, e
  <2>3. e.settle \in 0 .. T.settleScans
    BY <1>1, <1>3, <1>4, <2>2
  <2>4. \A f \in {"settle"} : e[f] \in Values[f]
    <3>1. e.settle \in Values.settle
      BY <2>3 DEF Values
    <3> QED
      BY <3>1, Zenon
  <2>5. KeyOK(e)
    BY <2>2, <2>4, Updated
  <2>6. Still(k) => Still(e)
    BY <2>2 DEF Same, KeyFields, Still
  <2> QED
    BY <1>4, <2>1, <2>2, <2>5, <2>6
<1>5. CASE k.settle = 0 /\ ~k.valid
  <2>1. UpdateKey(k, raw) = Seeded(k, raw)
    BY <1>2, <1>5
  <2> QED
    BY <1>5, <2>1, SeededOK
<1>6. CASE k.settle = 0 /\ k.valid /\ Implausible(k, raw)
  <2>1. UpdateKey(k, raw) = Rejected(k)
    BY <1>2, <1>6
  <2> QED
    BY <1>6, <2>1, RejectedOK
<1>7. CASE k.settle = 0 /\ k.valid /\ ~Implausible(k, raw)
  <2>1. UpdateKey(k, raw) = d
    BY <1>2, <1>7
  <2>2. KeyOK(a) /\ Same(k, a, {"rejects", "win", "sum", "mag"}) /\ (Still(k) /\ raw = k.base => Still(a))
    BY AveragedOK DEF a
  <2>3. /\ KeyOK(l)
        /\ Same(a, l, {"peak", "run", "quiet", "learning", "samples", "press", "release", "idleRef"})
    BY <2>2, LearningOK DEF l
  <2>4. Still(a) => Still(l)
    BY <2>3 DEF Same, KeyFields, Still
  <2>5. /\ KeyOK(d) /\ Same(l, d, {"base", "debounce", "pressed", "cold"})
        /\ Still(l) /\ (l.valid => raw = l.base) => Still(d)
    BY <2>3, DetectedOK DEF d
  <2>6. l.base = k.base /\ d.settle = k.settle
    BY <2>2, <2>3, <2>5 DEF Same, KeyFields
  <2>7. Still(k) /\ raw \in {Idle, Garbage} => Still(d)
    <3> SUFFICES ASSUME Still(k), raw \in {Idle, Garbage} PROVE Still(d)
      OBVIOUS
    <3>1. raw = k.base
      BY <1>7, OnlyTheBaseline
    <3> QED
      BY <2>2, <2>4, <2>5, <2>6, <3>1
  <2> QED
    BY <1>7, <2>1, <2>5, <2>6, <2>7
<1> QED
  BY <1>1, <1>3, <1>4, <1>5, <1>6, <1>7

-----------------------------------------------------------------------------
(* The steps.                                                               *)

\* The engine's part of the invariant, of a key that keeps its state.
LEMMA KeyKept ==
  ASSUME TouchInv, UNCHANGED <<pair, key, allQuiet, event, seen>>,
         touchUp' \in BOOLEAN, inFlight' \in BOOLEAN, done' \in BOOLEAN, touchUp => touchUp',
         scan' \in {"idle", "asked", "busy"}, stall' \in 0 .. T.stallPolls,
         current'.scan \in BOOLEAN, current'.result \in BOOLEAN, DOMAIN current' = {"scan", "result"},
         inFlight' => current'.scan,
         key.settle < T.settleScans => current'.scan /\ (done' => current'.result)
  PROVE  TouchInv'
<1>1. KeysTyped'
  BY DEF TouchInv, KeysTyped, KeyOK, PairOK
<1>2. ScansAreCurrent'
  BY DEF TouchInv, ScansAreCurrent
<1>3. StillUntouched'
  BY DEF TouchInv, StillUntouched, Still
<1>4. KeyIsTold'
  BY DEF TouchInv, KeyIsTold
<1> QED
  BY <1>1, <1>2, <1>3, <1>4 DEF TouchInv

LEMMA Parts ==
  ASSUME TouchInv
  PROVE  /\ touchUp \in BOOLEAN /\ inFlight \in BOOLEAN /\ done \in BOOLEAN /\ allQuiet \in BOOLEAN
         /\ scan \in {"idle", "asked", "busy"} /\ stall \in 0 .. T.stallPolls
         /\ event \in {"none", "PRESSED", "RELEASED"}
         /\ DOMAIN current = {"scan", "result"} /\ current.scan \in BOOLEAN /\ current.result \in BOOLEAN
         /\ DOMAIN seen = {"touched", "stale", "heard", "forced"}
         /\ seen.touched \in BOOLEAN /\ seen.stale \in BOOLEAN /\ seen.heard \in BOOLEAN /\ seen.forced \in BOOLEAN
         /\ PairOK(pair) /\ KeyOK(key) /\ key.pressed \in BOOLEAN
         /\ inFlight => current.scan
         /\ key.settle < T.settleScans => current.scan /\ (done => current.result)
         /\ T.stallPolls \in Nat
<1>1. T.stallPolls \in Nat
  BY SettingsTyped
<1>2. KeyOK(key) /\ PairOK(pair)
  BY DEF TouchInv, KeysTyped
<1>3. key.pressed \in BOOLEAN
  BY <1>2, KeyTyped
<1> QED
  BY <1>1, <1>2, <1>3 DEF TouchInv, KeysTyped, ScansAreCurrent

\* A scan that is asked for is of the present settings.
LEMMA Armed ==
  ASSUME TouchInv, ArmScan
  PROVE  /\ inFlight' \in BOOLEAN /\ scan' \in {"idle", "asked", "busy"} /\ stall' \in 0 .. T.stallPolls
         /\ current'.scan \in BOOLEAN /\ current'.result = current.result /\ DOMAIN current' = {"scan", "result"}
         /\ inFlight' => current'.scan
         /\ current.scan => current'.scan
         /\ scan # "busy" => current'.scan
<1>1. CASE scan = "busy"
  BY <1>1, Parts DEF ArmScan
<1>2. CASE scan # "busy"
  <2>1. /\ inFlight' = TRUE /\ stall' = 0 /\ scan' = "asked"
        /\ current' = [scan |-> TRUE, result |-> current.result]
    BY <1>2 DEF ArmScan
  <2>2. current'.scan = TRUE /\ current'.result = current.result /\ DOMAIN current' = {"scan", "result"}
    BY <2>1
  <2> QED
    BY <1>2, <2>1, <2>2, Parts
<1> QED
  BY <1>1, <1>2

LEMMA ListKeeps ==
  ASSUME TouchInv, ListStarts \/ ListIgnores \/ ListFinishes
  PROVE  TouchInv'
<1>1. CASE ListStarts \/ ListIgnores
  <2>1. /\ UNCHANGED <<touchUp, inFlight, stall, done, current, pair, key, allQuiet, event, seen>>
        /\ scan' \in {"idle", "asked", "busy"}
    BY <1>1 DEF ListStarts, ListIgnores
  <2> QED
    BY <2>1, Parts, KeyKept
<1>2. CASE ListFinishes
  <2>1. /\ UNCHANGED <<touchUp, inFlight, stall, pair, key, allQuiet, event, seen>>
        /\ scan' = "idle" /\ done' = TRUE /\ current' = [current EXCEPT !.result = current.scan]
    BY <1>2 DEF ListFinishes
  <2>2. current'.scan = current.scan /\ current'.result = current.scan /\ DOMAIN current' = {"scan", "result"}
    BY <2>1, Parts
  <2> QED
    BY <2>1, <2>2, Parts, KeyKept
<1> QED
  BY <1>1, <1>2

\* A sample of the key: what it is judged by is current, and what it does is told.
LEMMA SampleKeeps ==
  ASSUME TouchInv, touchUp, UNCHANGED <<touchUp, pair>>, Complete, done' = FALSE, ArmScan,
         NEW raw \in Raws, NEW others \in Others,
         key' = UpdateKey(key, raw), event' = EventOf(key, key'),
         allQuiet' = (others /\ (key'.valid => key'.quiet >= T.quietRun)),
         seen' = [seen EXCEPT !.touched = @ \/ raw \notin {Idle, Garbage},
                              !.stale = @ \/ (key.settle = 0 /\ ~current.result),
                              !.forced = (@ /\ event' = event) \/ (key.pressed /\ ~key'.pressed /\ ~key'.valid)]
  PROVE  TouchInv'
<1>1. KeyOK(key') /\ (Still(key) /\ raw \in {Idle, Garbage} => Still(key')) /\ key'.pressed \in BOOLEAN
  <2>1. raw \in Int
    BY TouchAssumption
  <2>2. KeyOK(key') /\ (Still(key) /\ raw \in {Idle, Garbage} => Still(key'))
    BY <2>1, Parts, UpdateKeyOK
  <2> QED
    BY <2>2, KeyTyped
<1>2. /\ DOMAIN seen' = {"touched", "stale", "heard", "forced"} /\ seen'.heard = seen.heard
      /\ seen'.touched = (seen.touched \/ raw \notin {Idle, Garbage})
      /\ seen'.stale = (seen.stale \/ (key.settle = 0 /\ ~current.result))
      /\ seen'.forced = ((seen.forced /\ event' = event) \/ (key.pressed /\ ~key'.pressed /\ ~key'.valid))
  BY Parts
<1>3. T.settleScans \in Nat \ {0}
  BY SettingsTyped
<1>4. scan # "busy" /\ done
  BY DEF Complete
<1>5. ~seen'.stale
  <2>1. key.settle = 0 => current.result
    BY <1>3, <1>4, Parts
  <2> QED
    BY <1>2, <2>1 DEF TouchInv, ScansAreCurrent
<1>6. event' \in {"none", "PRESSED", "RELEASED"}
  BY Parts DEF EventOf
<1>7. KeysTyped'
  <2>1. seen'.touched \in BOOLEAN
    BY <1>2
  <2>2. seen'.forced \in BOOLEAN
    BY <1>2
  <2>3. seen'.heard \in BOOLEAN
    BY <1>2, Parts
  <2>4. seen'.stale \in BOOLEAN
    BY <1>2
  <2>5. allQuiet' \in BOOLEAN
    OBVIOUS
  <2>6. PairOK(pair')
    BY Parts
  <2>7. current'.result \in BOOLEAN
    BY Armed, Parts
  <2>8. touchUp' \in BOOLEAN /\ done' \in BOOLEAN
    BY Parts
  <2> QED
    BY <1>1, <1>2, <1>6, <2>1, <2>2, <2>3, <2>4, <2>5, <2>6, <2>7, <2>8, Armed DEF KeysTyped
<1>8. ScansAreCurrent'
  BY <1>4, <1>5, Armed DEF ScansAreCurrent
<1>9. StillUntouched'
  <2> SUFFICES ASSUME ~seen'.touched PROVE Still(key')
    BY DEF StillUntouched, Still
  <2>1. ~seen.touched /\ raw \in {Idle, Garbage}
    BY <1>2
  <2> QED
    BY <1>1, <2>1 DEF TouchInv, StillUntouched
<1>10. KeyIsTold'
  <2>1. ~seen'.forced => ~(key.pressed /\ ~key'.pressed /\ ~key'.valid) /\ (event' # event \/ ~seen.forced)
    BY <1>2
  <2>2. CASE key'.pressed /\ ~key.pressed
    BY <2>2, <2>1 DEF KeyIsTold, EventOf
  <2>3. CASE key.pressed /\ ~key'.pressed
    BY <2>3, <2>1 DEF KeyIsTold, EventOf
  <2>4. CASE key.pressed <=> key'.pressed
    <3>1. event' = event
      BY <2>4 DEF EventOf
    <3>2. ~seen'.forced => ~seen.forced
      BY <2>1, <3>1
    <3>3. seen'.heard <=> seen.heard
      BY <1>2
    <3>4. /\ ~seen.forced /\ event = "none" => (seen.heard <=> key.pressed)
          /\ ~seen.forced /\ event = "PRESSED" => key.pressed
          /\ ~seen.forced /\ event = "RELEASED" => ~key.pressed
      BY DEF KeyIsTold, TouchInv
    <3> QED
      BY <2>4, <3>1, <3>2, <3>3, <3>4, Parts DEF KeyIsTold
  <2> QED
    BY <1>1, Parts, <2>2, <2>3, <2>4
<1> QED
  BY <1>7, <1>8, <1>9, <1>10 DEF TouchInv

LEMMA ProcessKeeps ==
  ASSUME TouchInv, Process
  PROVE  TouchInv'
<1>1. touchUp /\ UNCHANGED <<touchUp, pair>>
  BY DEF Process
<1>2. CASE ~inFlight
  <2>1. ArmScan /\ UNCHANGED <<done, key, allQuiet, event, seen>>
    BY <1>2 DEF Process
  <2> QED
    BY <1>1, <2>1, Armed, Parts, KeyKept
<1>3. CASE inFlight /\ ~Complete
  <2>1. UNCHANGED <<scan, done, current, key, allQuiet, event, seen>>
    BY <1>3 DEF Process
  <2>2. IF GivesUp THEN stall' = 0 /\ inFlight' = FALSE
                   ELSE stall' = Least(stall + 1, T.stallPolls) /\ inFlight' = inFlight
    BY <1>3 DEF Process
  <2>3. stall' \in 0 .. T.stallPolls
    BY <2>2, Parts DEF Least
  <2>4. inFlight' => inFlight
    BY <2>2
  <2>5. inFlight' \in BOOLEAN
    BY <2>2, Parts
  <2>6. inFlight' => current'.scan
    BY <2>1, <2>4, Parts
  <2> QED
    BY <1>1, <2>1, <2>3, <2>5, <2>6, Parts, KeyKept
<1>4. CASE inFlight /\ Complete
  <2>1. done' = FALSE /\ ArmScan
    BY <1>4 DEF Process
  <2>2. PICK raw \in Raws, others \in Others :
          LET new == UpdateKey(key, raw)
              forced == key.pressed /\ ~new.pressed /\ ~new.valid
          IN  /\ key' = new /\ event' = EventOf(key, new)
              /\ allQuiet' = (others /\ (new.valid => new.quiet >= T.quietRun))
              /\ seen' = [seen EXCEPT !.touched = @ \/ raw \notin {Idle, Garbage},
                            !.stale = @ \/ (key.settle = 0 /\ ~current.result),
                            !.forced = (@ /\ event' = event) \/ forced]
    BY <1>4 DEF Process
  <2> QED
    BY <1>1, <1>4, <2>1, <2>2, SampleKeeps
<1> QED
  BY <1>2, <1>3, <1>4, Parts

LEMMA TouchInitKeeps ==
  ASSUME TouchInv, TouchInit
  PROVE  TouchInv'
<1>1. /\ ~touchUp /\ touchUp' = TRUE /\ done' = FALSE /\ ArmScan /\ key' = NewKey(pair) /\ allQuiet' = FALSE
      /\ event' = "none" /\ UNCHANGED <<pair, seen>>
  BY DEF TouchInit
<1>2. KeyOK(key') /\ Still(key') /\ key'.settle = T.settleScans /\ ~key'.pressed
  BY <1>1, Parts, NewKeyOK
<1>3. ~(key'.settle < T.settleScans)
  BY <1>2, SettingsTyped
<1>4. KeysTyped'
  <2>1. PairOK(pair')
    BY <1>1, Parts
  <2>2. current'.result \in BOOLEAN
    BY <1>1, Armed, Parts
  <2>3. touchUp' \in BOOLEAN /\ done' \in BOOLEAN /\ allQuiet' \in BOOLEAN
    BY <1>1
  <2> QED
    BY <1>1, <1>2, <2>1, <2>2, <2>3, Armed, Parts DEF KeysTyped
<1>5. ScansAreCurrent'
  BY <1>1, <1>3, Armed DEF ScansAreCurrent, TouchInv
<1>6. StillUntouched'
  BY <1>2 DEF StillUntouched, Still
<1>7. KeyIsTold'
  BY <1>1, <1>2 DEF KeyIsTold, TouchInv
<1> QED
  BY <1>4, <1>5, <1>6, <1>7 DEF TouchInv

\* What is cleared without an event is known to be.
LEMMA Forced ==
  ASSUME TouchInv, ForceQuiet, event' = "none", ~key'.pressed, touchUp, touchUp' = touchUp
  PROVE  /\ KeyIsTold' /\ DOMAIN seen' = {"touched", "stale", "heard", "forced"}
         /\ seen'.touched = seen.touched /\ seen'.stale = seen.stale /\ seen'.heard = seen.heard
         /\ seen'.forced \in BOOLEAN
<1>1. /\ DOMAIN seen' = {"touched", "stale", "heard", "forced"}
      /\ seen'.touched = seen.touched /\ seen'.stale = seen.stale /\ seen'.heard = seen.heard
      /\ seen'.forced = (seen.forced \/ key.pressed \/ event # "none")
  BY Parts DEF ForceQuiet
<1>2. seen'.forced \in BOOLEAN
  BY <1>1
<1>3. ~seen'.forced => ~seen.forced /\ ~key.pressed /\ event = "none"
  BY <1>1
<1>4. ~seen'.forced => ~seen'.heard
  BY <1>1, <1>3 DEF KeyIsTold, TouchInv
<1>5. KeyIsTold'
  BY <1>4 DEF KeyIsTold
<1> QED
  BY <1>1, <1>2, <1>5

LEMMA SetAcquisitionKeeps ==
  ASSUME TouchInv, NEW ok \in BOOLEAN, SetAcquisition(ok)
  PROVE  TouchInv'
<1>1. /\ touchUp /\ UNCHANGED <<touchUp, stall, pair>> /\ inFlight' = FALSE /\ done' = FALSE
      /\ scan' \in {scan, "idle"}
      /\ current' = IF ok THEN [scan |-> FALSE, result |-> FALSE] ELSE current
  BY DEF SetAcquisition, ApplyList
<1>2. CASE ~ok
  <2>1. UNCHANGED <<key, allQuiet, event, seen>> /\ current' = current
    BY <1>1, <1>2 DEF SetAcquisition
  <2> QED
    BY <1>1, <2>1, Parts, KeyKept
<1>3. CASE ok
  <2>1. /\ key' = Reconfigured(key) /\ allQuiet' = FALSE /\ event' = "none" /\ ForceQuiet
        /\ current' = [scan |-> FALSE, result |-> FALSE]
    BY <1>1, <1>3 DEF SetAcquisition
  <2>2. KeyOK(key') /\ ~key'.pressed /\ key'.settle = T.settleScans /\ (Still(key) => Still(key'))
    BY <2>1, Parts, ReconfiguredOK
  <2>3. ~(key'.settle < T.settleScans)
    BY <2>2, SettingsTyped
  <2>4. /\ KeyIsTold' /\ DOMAIN seen' = {"touched", "stale", "heard", "forced"}
        /\ seen'.touched = seen.touched /\ seen'.stale = seen.stale /\ seen'.heard = seen.heard
        /\ seen'.forced \in BOOLEAN
    BY <1>1, <2>1, <2>2, Forced
  <2>5. current'.scan = FALSE /\ current'.result = FALSE /\ DOMAIN current' = {"scan", "result"}
    BY <2>1
  <2>6. KeysTyped'
    <3>1. PairOK(pair')
      BY <1>1, Parts
    <3>2. current'.scan \in BOOLEAN
      BY <2>5
    <3>3. current'.result \in BOOLEAN
      BY <2>5
    <3>4. touchUp' \in BOOLEAN /\ done' \in BOOLEAN /\ allQuiet' \in BOOLEAN /\ inFlight' \in BOOLEAN
      BY <1>1, <2>1
    <3> QED
      BY <1>1, <2>1, <2>2, <2>4, <2>5, <3>1, <3>2, <3>3, <3>4, Parts DEF KeysTyped
  <2>7. ScansAreCurrent'
    BY <1>1, <2>3, <2>4 DEF ScansAreCurrent, TouchInv
  <2>8. StillUntouched'
    BY <2>2, <2>4 DEF StillUntouched, TouchInv, Still
  <2> QED
    BY <2>4, <2>6, <2>7, <2>8 DEF TouchInv
<1> QED
  BY <1>2, <1>3

LEMMA CalibrateKeeps ==
  ASSUME TouchInv, Calibrate
  PROVE  TouchInv'
<1>1. /\ touchUp /\ UNCHANGED <<touchUp, inFlight, stall, scan, done, current, pair, allQuiet>>
      /\ key' = Unlearnt(Cleared(key), pair) /\ event' = "none" /\ ForceQuiet
  BY DEF Calibrate, engine
<1>2. KeyOK(key') /\ ~key'.pressed /\ key'.settle = key.settle /\ (Still(key) => Still(key'))
  <2>1. /\ KeyOK(Cleared(key)) /\ ~Cleared(key).pressed /\ Same(key, Cleared(key), {"pressed", "debounce"})
        /\ Still(key) => Still(Cleared(key))
    BY Parts, ClearedOK
  <2>2. Cleared(key).settle = key.settle
    BY <2>1 DEF Same, KeyFields
  <2> QED
    BY <1>1, <2>1, <2>2, Parts, UnlearntOK
<1>3. /\ KeyIsTold' /\ DOMAIN seen' = {"touched", "stale", "heard", "forced"}
      /\ seen'.touched = seen.touched /\ seen'.stale = seen.stale /\ seen'.heard = seen.heard
      /\ seen'.forced \in BOOLEAN
  BY <1>1, <1>2, Forced
<1>4. KeysTyped'
  <2>1. PairOK(pair')
    BY <1>1, Parts
  <2> QED
    BY <1>1, <1>2, <1>3, <2>1, Parts DEF KeysTyped
<1>5. ScansAreCurrent'
  BY <1>1, <1>2, <1>3 DEF ScansAreCurrent, TouchInv
<1>6. StillUntouched'
  BY <1>2, <1>3 DEF StillUntouched, TouchInv, Still
<1> QED
  BY <1>3, <1>4, <1>5, <1>6 DEF TouchInv

LEMMA SetThresholdsKeeps ==
  ASSUME TouchInv, NEW p \in Pairs, NEW all \in BOOLEAN, SetThresholds(p, all)
  PROVE  TouchInv'
<1>1. /\ UNCHANGED <<touchUp, inFlight, stall, scan, done, current, allQuiet, event, seen>>
      /\ pair' = IF all THEN p ELSE pair
      /\ key' = [key EXCEPT !.press = p.press, !.release = p.release, !.pinned = TRUE]
  BY DEF SetThresholds, engine
<1>2. PairOK(p)
  <2>1. p.press \in Nat \ {0} /\ p.release \in Nat
    BY TouchAssumption
  <2>2. p.release < p.press
    BY DEF SetThresholds
  <2> QED
    BY <2>1, <2>2 DEF PairOK
<1>3. PairOK(pair')
  BY <1>1, <1>2, Parts
<1>4. /\ Same(key, key', {"press", "release", "pinned"})
      /\ key'.press = p.press /\ key'.release = p.release /\ key'.pinned = TRUE
  BY <1>1, Parts DEF Same, KeyOK, KeyFields
<1>5. key'.pinned \in BOOLEAN
  BY <1>4
<1>6. KeyOK(key') /\ key'.pressed = key.pressed /\ key'.settle = key.settle /\ (Still(key) => Still(key'))
  <2>1. key'.press \in Nat \ {0} /\ key'.release \in Nat /\ key'.release < key'.press
    BY <1>2, <1>4 DEF PairOK
  <2> QED
    BY <1>4, <1>5, <2>1, Parts, ThresholdsOK
<1>7. KeysTyped'
  BY <1>1, <1>3, <1>6, Parts DEF KeysTyped
<1>8. ScansAreCurrent'
  BY <1>1, <1>6 DEF ScansAreCurrent, TouchInv
<1>9. StillUntouched'
  BY <1>1, <1>6 DEF StillUntouched, TouchInv, Still
<1>10. KeyIsTold'
  BY <1>1, <1>6 DEF KeyIsTold, TouchInv
<1> QED
  BY <1>7, <1>8, <1>9, <1>10 DEF TouchInv

LEMMA GetEventKeeps ==
  ASSUME TouchInv, GetEvent
  PROVE  TouchInv'
<1>1. /\ touchUp /\ event # "none" /\ event' = "none"
      /\ UNCHANGED <<touchUp, inFlight, stall, scan, done, current, pair, key, allQuiet>>
      /\ seen' = [seen EXCEPT !.heard = (event = "PRESSED")]
  BY DEF GetEvent, engine
<1>2. /\ DOMAIN seen' = {"touched", "stale", "heard", "forced"}
      /\ seen'.touched = seen.touched /\ seen'.stale = seen.stale /\ seen'.forced = seen.forced
      /\ seen'.heard = (event = "PRESSED")
  BY <1>1, Parts
<1>3. seen'.heard \in BOOLEAN
  BY <1>2
<1>4. KeysTyped'
  <2>1. PairOK(pair') /\ KeyOK(key')
    BY <1>1, Parts
  <2> QED
    BY <1>1, <1>2, <1>3, <2>1, Parts DEF KeysTyped
<1>5. ScansAreCurrent'
  BY <1>1, <1>2 DEF ScansAreCurrent, TouchInv
<1>6. StillUntouched'
  BY <1>1, <1>2 DEF StillUntouched, TouchInv, Still
<1>7. KeyIsTold'
  <2>1. ~seen.forced => (event = "PRESSED" <=> key.pressed)
    BY <1>1, Parts DEF KeyIsTold, TouchInv
  <2>2. seen'.heard <=> event = "PRESSED"
    BY <1>2
  <2> QED
    BY <1>1, <1>2, <2>1, <2>2 DEF KeyIsTold
<1> QED
  BY <1>4, <1>5, <1>6, <1>7 DEF TouchInv

LEMMA TouchInitInv == TouchInitState => TouchInv
<1> SUFFICES ASSUME TouchInitState PROVE TouchInv
  OBVIOUS
<1>1. /\ touchUp = FALSE /\ inFlight = FALSE /\ stall = 0 /\ scan = "idle" /\ done = FALSE
      /\ current = [scan |-> FALSE, result |-> FALSE]
      /\ pair = [press |-> T.press, release |-> T.release] /\ key = NewKey(pair)
      /\ allQuiet = FALSE /\ event = "none"
      /\ seen = [touched |-> FALSE, stale |-> FALSE, heard |-> FALSE, forced |-> FALSE]
  BY DEF TouchInitState
<1>2. PairOK(pair)
  <2>1. T.press \in Nat \ {0} /\ T.release \in Nat /\ T.release < T.press
    BY SettingsTyped
  <2> QED
    BY <1>1, <2>1 DEF PairOK
<1>3. KeyOK(key) /\ Still(key) /\ key.settle = T.settleScans /\ ~key.pressed
  BY <1>1, <1>2, NewKeyOK
<1>4. ~(key.settle < T.settleScans) /\ T.stallPolls \in Nat
  BY <1>3, SettingsTyped
<1>5. KeysTyped
  <2>1. {touchUp, inFlight, done, allQuiet} \subseteq BOOLEAN
    BY <1>1
  <2>2. DOMAIN current = {"scan", "result"} /\ current.scan = FALSE /\ current.result = FALSE
    BY <1>1
  <2>3. {current.scan, current.result} \subseteq BOOLEAN
    BY <2>2
  <2>4. /\ DOMAIN seen = {"touched", "stale", "heard", "forced"}
        /\ seen.touched = FALSE /\ seen.stale = FALSE /\ seen.heard = FALSE /\ seen.forced = FALSE
    BY <1>1
  <2>5. {seen.touched, seen.stale, seen.heard, seen.forced} \subseteq BOOLEAN
    BY <2>4
  <2>6. scan \in {"idle", "asked", "busy"} /\ stall \in 0 .. T.stallPolls /\ event \in {"none", "PRESSED", "RELEASED"}
    BY <1>1, <1>4
  <2> QED
    BY <1>2, <1>3, <2>1, <2>2, <2>3, <2>4, <2>5, <2>6 DEF KeysTyped
<1>6. ScansAreCurrent
  BY <1>1, <1>4 DEF ScansAreCurrent
<1>7. StillUntouched
  BY <1>3 DEF StillUntouched
<1>8. KeyIsTold
  BY <1>1, <1>3 DEF KeyIsTold
<1> QED
  BY <1>5, <1>6, <1>7, <1>8 DEF TouchInv

LEMMA TouchStepInv == TouchInv /\ [TouchNext]_touchVars => TouchInv'
<1> SUFFICES ASSUME TouchInv, [TouchNext]_touchVars PROVE TouchInv'
  OBVIOUS
<1>1. CASE UNCHANGED touchVars
  BY <1>1, Parts, KeyKept DEF touchVars
<1>2. CASE Process
  BY <1>2, ProcessKeeps
<1>3. CASE ListStarts \/ ListIgnores \/ ListFinishes
  BY <1>3, ListKeeps
<1>4. CASE TouchInit
  BY <1>4, TouchInitKeeps
<1>5. CASE \E ok \in BOOLEAN : SetAcquisition(ok)
  BY <1>5, SetAcquisitionKeeps
<1>6. CASE Calibrate
  BY <1>6, CalibrateKeeps
<1>7. CASE GetEvent
  BY <1>7, GetEventKeeps
<1>8. CASE \E p \in Pairs, all \in BOOLEAN : SetThresholds(p, all)
  BY <1>8, SetThresholdsKeeps
<1> QED
  BY <1>1, <1>2, <1>3, <1>4, <1>5, <1>6, <1>7, <1>8 DEF TouchNext

LEMMA TouchPromise == TouchInv => TouchTypeOK /\ SamplesAreCurrent /\ PressIsTouch /\ EventsTellTheKey
<1> SUFFICES ASSUME TouchInv PROVE TouchTypeOK /\ SamplesAreCurrent /\ PressIsTouch /\ EventsTellTheKey
  OBVIOUS
<1>1. TouchTypeOK
  <2>1. /\ key.press \in Nat \ {0} /\ key.release < key.press /\ key.settle \in 0 .. T.settleScans
        /\ Len(key.samples) <= T.learnSamplesMax
    BY Parts, KeyTyped
  <2>2. T.coldPress \in Nat
    BY SettingsTyped
  <2>3. key.press <= PressAt(key)
    BY <2>1, <2>2 DEF PressAt, Most
  <2> QED
    BY <2>1, <2>3, Parts DEF TouchTypeOK
<1>2. SamplesAreCurrent
  BY DEF TouchInv, ScansAreCurrent, SamplesAreCurrent
<1>3. PressIsTouch
  BY DEF TouchInv, StillUntouched, Still, PressIsTouch
<1>4. EventsTellTheKey
  BY Parts DEF TouchInv, KeyIsTold, EventsTellTheKey
<1> QED
  BY <1>1, <1>2, <1>3, <1>4

-----------------------------------------------------------------------------
(* The board: the part that a behaviour is about keeps its invariant, and   *)
(* the others stand still.                                                  *)

(* The switches.  How long every update has read a switch at its candidate, *)
(* as far as it is short of the settle time, is what the tick says it is.   *)

LedTyped ==
  /\ ms \in 0 .. TickWrap - 1 /\ latch \in BOOLEAN /\ contact \in [Switches -> BOOLEAN]
  /\ deb \in [Switches -> [cand : BOOLEAN, at : 0 .. TickWrap - 1, conf : BOOLEAN]]
  /\ lit \in [Switches -> BOOLEAN] /\ steady \in [Switches -> 0 .. Debounce]

SteadyIsElapsed == \A s \in Switches : steady[s] < Debounce => (ms - deb[s].at) % TickWrap = steady[s]
LitIsConfirmed  == \A s \in Switches : lit[s] = deb[s].conf

LedInv == LedTyped /\ SteadyIsElapsed /\ LitIsConfirmed

LEMMA TickIs ==
  ASSUME NEW a \in 0 .. TickWrap - 1, NEW t \in 0 .. TickWrap - 1
  PROVE  /\ (t - a) % TickWrap = IF t >= a THEN t - a ELSE t - a + TickWrap
         /\ (t + 1) % TickWrap = IF t + 1 = TickWrap THEN 0 ELSE t + 1
BY LedSwAssumption

LEMMA TickCounts ==
  ASSUME NEW a \in 0 .. TickWrap - 1, NEW t \in 0 .. TickWrap - 1, NEW n \in Nat,
         n < Debounce, (t - a) % TickWrap = n
  PROVE  (t + 1) % TickWrap \in 0 .. TickWrap - 1 /\ (((t + 1) % TickWrap) - a) % TickWrap = n + 1
<1> DEFINE u == (t + 1) % TickWrap
<1>1. TickWrap \in Nat /\ Debounce \in Nat /\ Debounce < TickWrap
  BY LedSwAssumption
<1>2. u = IF t + 1 = TickWrap THEN 0 ELSE t + 1
  BY TickIs
<1>3. n = IF t >= a THEN t - a ELSE t - a + TickWrap
  BY TickIs
<1> HIDE DEF u
<1>4. u \in 0 .. TickWrap - 1
  BY <1>1, <1>2
<1>5. (u - a) % TickWrap = IF u >= a THEN u - a ELSE u - a + TickWrap
  BY <1>4, TickIs
<1>6. (u - a) % TickWrap = n + 1
  BY <1>1, <1>2, <1>3, <1>5
<1> QED
  BY <1>4, <1>6 DEF u

\* What an update makes of a switch that reads raw.
LEMMA DebouncedIs ==
  ASSUME LedInv, NEW s \in Switches, NEW raw \in BOOLEAN
  PROVE  LET d == Debounced(deb[s], raw)
         IN  /\ d \in [cand : BOOLEAN, at : 0 .. TickWrap - 1, conf : BOOLEAN] /\ d.cand = raw
             /\ raw # deb[s].cand => d.at = ms /\ d.conf = deb[s].conf
             /\ raw = deb[s].cand => /\ d.at = deb[s].at
                                     /\ d.conf # deb[s].conf => d.conf = raw /\ steady[s] = Debounce
<1>1. /\ deb[s] \in [cand : BOOLEAN, at : 0 .. TickWrap - 1, conf : BOOLEAN]
      /\ steady[s] \in 0 .. Debounce /\ ms \in 0 .. TickWrap - 1
      /\ steady[s] < Debounce => (ms - deb[s].at) % TickWrap = steady[s]
  BY DEF LedInv, LedTyped, SteadyIsElapsed
<1>2. (ms - deb[s].at) % TickWrap >= Debounce => steady[s] = Debounce
  BY <1>1, LedSwAssumption
<1> DEFINE long == (ms - deb[s].at) % TickWrap >= Debounce
<1>3. Debounced(deb[s], raw) = IF raw # deb[s].cand THEN [deb[s] EXCEPT !.cand = raw, !.at = ms]
                               ELSE [deb[s] EXCEPT !.conf = IF long THEN raw ELSE @]
  BY DEF Debounced
<1>4. long => steady[s] = Debounce
  BY <1>2
<1> HIDE DEF long
<1> QED
  BY <1>1, <1>3, <1>4

LEMMA LedInitInv == LedInitState => LedInv
<1> SUFFICES ASSUME LedInitState PROVE LedInv
  OBVIOUS
<1>1. 0 \in 0 .. TickWrap - 1 /\ 0 \in 0 .. Debounce
  BY LedSwAssumption
<1>2. (0 - 0) % TickWrap = 0
  BY <1>1, TickIs
<1> QED
  BY <1>1, <1>2 DEF LedInitState, LedInv, LedTyped, SteadyIsElapsed, LitIsConfirmed

LEMMA UpdateKeeps ==
  ASSUME LedInv, Update
  PROVE  LedInv' /\ \A s \in Switches : lit'[s] # lit[s] => steady'[s] = Debounce /\ lit'[s] = deb[s].cand
<1> DEFINE raw == [s \in Switches |-> IF s = "polled" THEN contact[s] ELSE latch]
<1>1. /\ deb' = [s \in Switches |-> Debounced(deb[s], raw[s])]
      /\ lit' = [s \in Switches |-> deb'[s].conf]
      /\ steady' = [s \in Switches |-> IF raw[s] = deb[s].cand THEN steady[s] ELSE 0]
      /\ UNCHANGED <<ms, contact, latch>>
  BY DEF Update
<1>2. raw \in [Switches -> BOOLEAN]
  BY DEF LedInv, LedTyped, Switches
<1> HIDE DEF raw
<1>3. ASSUME NEW s \in Switches
      PROVE  /\ deb'[s] \in [cand : BOOLEAN, at : 0 .. TickWrap - 1, conf : BOOLEAN]
             /\ steady'[s] \in 0 .. Debounce
             /\ steady'[s] < Debounce => (ms' - deb'[s].at) % TickWrap = steady'[s]
             /\ deb'[s].conf # deb[s].conf => steady'[s] = Debounce /\ deb'[s].conf = deb[s].cand
  <2> DEFINE d == Debounced(deb[s], raw[s])
  <2>1. raw[s] \in BOOLEAN
    BY <1>2
  <2>2. /\ d \in [cand : BOOLEAN, at : 0 .. TickWrap - 1, conf : BOOLEAN] /\ d.cand = raw[s]
        /\ raw[s] # deb[s].cand => d.at = ms /\ d.conf = deb[s].conf
        /\ raw[s] = deb[s].cand => d.at = deb[s].at /\ (d.conf # deb[s].conf => d.conf = raw[s] /\ steady[s] = Debounce)
    BY <2>1, DebouncedIs
  <2>3. deb'[s] = d /\ steady'[s] = IF raw[s] = deb[s].cand THEN steady[s] ELSE 0
    BY <1>1
  <2>4. /\ ms' = ms /\ ms \in 0 .. TickWrap - 1 /\ steady[s] \in 0 .. Debounce
        /\ steady[s] < Debounce => (ms - deb[s].at) % TickWrap = steady[s]
    BY <1>1 DEF LedInv, LedTyped, SteadyIsElapsed
  <2>5. (ms - ms) % TickWrap = 0
    BY <2>4, TickIs
  <2>6. CASE raw[s] # deb[s].cand
    BY <2>2, <2>3, <2>4, <2>5, <2>6, LedSwAssumption
  <2>7. CASE raw[s] = deb[s].cand
    BY <2>2, <2>3, <2>4, <2>7
  <2> QED
    BY <2>6, <2>7
<1>4. \A s \in Switches : lit[s] = deb[s].conf /\ lit'[s] = deb'[s].conf
  BY <1>1 DEF LedInv, LitIsConfirmed
<1>5. LedTyped'
  BY <1>1, <1>3 DEF LedInv, LedTyped
<1> QED
  BY <1>3, <1>4, <1>5 DEF LedInv, SteadyIsElapsed, LitIsConfirmed

LEMMA TickKeeps == ASSUME LedInv, TickAdvances PROVE LedInv'
<1>1. /\ ms' = (ms + 1) % TickWrap /\ UNCHANGED <<contact, latch, deb, lit>>
      /\ steady' = [s \in Switches |-> IF steady[s] < Debounce THEN steady[s] + 1 ELSE Debounce]
  BY DEF TickAdvances
<1>2. ms \in 0 .. TickWrap - 1 /\ Debounce \in Nat /\ ms' \in 0 .. TickWrap - 1
  BY <1>1, TickIs, LedSwAssumption DEF LedInv, LedTyped
<1>3. ASSUME NEW s \in Switches
      PROVE  steady'[s] \in 0 .. Debounce /\ (steady'[s] < Debounce => (ms' - deb'[s].at) % TickWrap = steady'[s])
  <2>1. /\ steady[s] \in 0 .. Debounce /\ deb[s].at \in 0 .. TickWrap - 1
        /\ steady[s] < Debounce => (ms - deb[s].at) % TickWrap = steady[s]
    BY DEF LedInv, LedTyped, SteadyIsElapsed
  <2>2. steady'[s] = IF steady[s] < Debounce THEN steady[s] + 1 ELSE Debounce
    BY <1>1
  <2>3. steady[s] < Debounce => (ms' - deb[s].at) % TickWrap = steady[s] + 1
    BY <1>1, <1>2, <2>1, TickCounts
  <2> QED
    BY <1>1, <1>2, <2>1, <2>2, <2>3
<1>4. LedTyped'
  BY <1>1, <1>2, <1>3 DEF LedInv, LedTyped
<1> QED
  BY <1>1, <1>3, <1>4 DEF LedInv, SteadyIsElapsed, LitIsConfirmed

LEMMA LedStepInv ==
  ASSUME LedInv, [LedNext]_ledVars
  PROVE  LedInv' /\ \A s \in Switches : lit'[s] # lit[s] => steady'[s] = Debounce /\ lit'[s] = deb[s].cand
<1>1. CASE UNCHANGED ledVars
  BY <1>1 DEF ledVars, LedInv, LedTyped, SteadyIsElapsed, LitIsConfirmed
<1>2. CASE ContactMoves \/ InitReads \/ InitAttaches \/ SwitchCallback
  <2>1. UNCHANGED <<ms, deb, lit, steady>>
    BY <1>2 DEF ContactMoves, InitReads, InitAttaches, SwitchCallback
  <2>2. contact' \in [Switches -> BOOLEAN] /\ latch' \in BOOLEAN
    BY <1>2 DEF ContactMoves, InitReads, InitAttaches, SwitchCallback, LedInv, LedTyped, Switches
  <2> QED
    BY <2>1, <2>2 DEF LedInv, LedTyped, SteadyIsElapsed, LitIsConfirmed
<1>3. CASE TickAdvances
  BY <1>3, TickKeeps DEF TickAdvances
<1> QED
  BY <1>1, <1>2, <1>3, UpdateKeeps DEF LedNext

-----------------------------------------------------------------------------
(* The board.                                                               *)

BoardInv == ClockInv /\ RateInv /\ LoadInv /\ LedInv /\ ItcInv /\ PinInv /\ IInv /\ TouchInv

LEMMA BoardInitInv == BoardInit => BoardInv
BY ClockInitInv, RateInitInv, LoadInitInv, LedInitInv, ItcInitInv, PinInitInv, InitHolds, TouchInitInv DEF BoardInit, BoardInv

LEMMA BoardStepInv == BoardInv /\ [BoardNext]_boardVars => BoardInv'
<1> SUFFICES ASSUME BoardInv, [BoardNext]_boardVars PROVE BoardInv'
  OBVIOUS
<1>1. /\ [ClockNext]_clockVars /\ [TickNext \/ AskNext]_rateVars /\ [LoadNext]_loadVars
      /\ [LedNext]_ledVars /\ [ItcNext]_itcVars /\ [PinNext]_pinVars /\ [Next]_vars /\ [TouchNext]_touchVars
  BY DEF BoardNext, boardVars
<1> QED
  BY <1>1, ClockStepInv, RateStepInv, LoadStepInv, LedStepInv, ItcStepInv, PinStepInv, NextHolds, TouchStepInv DEF BoardInv

LEMMA BoardInvariant == BoardSpec => []BoardInv
BY BoardInitInv, BoardStepInv, PTL DEF BoardSpec

\* Every list that is up has the core, the converter and its trigger, whichever other
\* lists came, went or failed to start; and the core runs only for one that is up.
THEOREM ListsStayServed == BoardSpec => []ListsAreServed
<1>1. BoardInv => ListsAreServed
  BY DEF BoardInv, ItcInv
<1> QED
  BY <1>1, BoardInvariant, PTL

\* Whatever pins are configured and routed, and wherever the handler comes in: between
\* calls every register is as asked, no pin glitches or is pulled both ways, a pinmux call
\* routes its pin or nothing; and every pin that can interrupt has a user.
THEOREM PinsStayOrderly == BoardSpec => []PinsAreOrderly
<1>1. BoardInv => PinsAreOrderly
  <2> SUFFICES ASSUME BoardInv PROVE PinsAreOrderly
    OBVIOUS
  <2>1. FlagHasOwner
    BY DEF BoardInv, IInv, FlagOK, FlagHasOwner
  <2> QED
    BY <2>1, PinPromise DEF BoardInv, IInv, PinsAreOrderly
<1> QED
  BY <1>1, BoardInvariant, PTL

\* A key is judged by nothing measured under other settings, is pressed only after a
\* touch was measured, whatever conversions fail and whatever is reconfigured, calibrated
\* or learnt meanwhile, and its events tell its state; and its list has what it needs.
THEOREM KeysTellTruth == BoardSpec => []KeysAreTrue
<1>1. BoardInv => KeysAreTrue
  BY TouchPromise DEF BoardInv, ItcInv, KeysAreTrue
<1> QED
  BY <1>1, BoardInvariant, PTL

\* Whatever the CPU clock is switched through, whatever times out and whatever was running
\* at reset, for every clock and every rate that is asked for, and however handlers nest:
\* once a call has settled the clock is real, within its limit and as reported, and a PLL
\* that is ready gives exactly what was asked of it; the tick counts the milliseconds of
\* its clock, what is refused cannot be had, and every divisor and bit time is the best
\* there is; the profiler credits every owner with the ticks it had and no window is lost;
\* and a scan list's times are not cut short.
THEOREM TimeStaysTrue == BoardSpec => []TimeIsTrue
<1>1. BoardInv => TimeIsTrue
  BY ClockPromise, RatePromise, LoadPromise, ItcPromise DEF BoardInv, TimeIsTrue
<1> QED
  BY <1>1, BoardInvariant, PTL

\* On the board as on a port alone: no change of a pin is missed but one that falls into a
\* run of the handler or a call that clears the port's flag, no callback comes from a slot
\* that is being rewritten, and a pin's callbacks report rising and falling edges in turn.
THEOREM PortStaysTold == BoardSpec => []ChangesAreTold /\ []CallsAreWhole /\ EdgesAlternate
<1>1. BoardInv => ChangesAreTold /\ CallsAreWhole
  BY DEF BoardInv, IInv, SeenOK, ChangesAreTold
<1>2. BoardInv /\ [BoardNext]_boardVars =>
          [called' # called =>
               \A c \in called' : (c.pin \in told') # (c.pin \in told)]_vars
  <2>1. BoardInv /\ [BoardNext]_boardVars => IInv /\ [Next]_vars
    BY DEF BoardInv, BoardNext, boardVars
  <2> QED
    BY <2>1, RunAlternates
<1> QED
  BY <1>1, <1>2, BoardInvariant, PTL DEF BoardSpec, EdgesAlternate

\* What a LED shows of a switch changes only to a level that every update has read for
\* the whole settle time, for any settle time, any bouncing and any wrap of the tick.
THEOREM ShownStaysSettled == BoardSpec => ShownIsSettled
<1>1. BoardInv /\ [BoardNext]_boardVars
      => [\A s \in Switches : lit'[s] # lit[s] => steady'[s] = Debounce /\ lit'[s] = deb[s].cand]_ledVars
  <2> SUFFICES ASSUME BoardInv, [BoardNext]_boardVars
               PROVE  \A s \in Switches : lit'[s] # lit[s] => steady'[s] = Debounce /\ lit'[s] = deb[s].cand
    OBVIOUS
  <2>1. LedInv /\ [LedNext]_ledVars
    BY DEF BoardInv, BoardNext, boardVars
  <2> QED
    BY <2>1, LedStepInv
<1> QED
  BY <1>1, BoardInvariant, PTL DEF BoardSpec, ShownIsSettled

=============================================================================
