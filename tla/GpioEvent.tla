------------------------------ MODULE GpioEvent ------------------------------
(***************************************************************************)
(* The change-notification events of nora_gpio_event_dspic33ak.c for one    *)
(* port: pins that change at any time, the hardware's change bits and port  *)
(* interrupt flag, the handler that compares levels and calls back, and a   *)
(* thread that attaches and detaches pins and masks the interrupt.          *)
(*                                                                          *)
(* A register that the hardware also writes is changed by a read and a      *)
(* write (CNF); the interrupt bits are set and cleared in one instruction.  *)
(* The handler interrupts the thread at every instruction, the pins change  *)
(* between any two steps of either.                                         *)
(***************************************************************************)
EXTENDS Naturals, FiniteSets

CONSTANTS
    Pins,      \* the pins of the port
    Users,     \* who attaches: a callback with its user_data
    MaxEdges,  \* bound on the level changes
    MaxCalls   \* bound on the thread's calls

NoUser == "none"

ASSUME GpioEventAssumption ==
    /\ IsFiniteSet(Pins) /\ NoUser \notin Users
    /\ MaxEdges \in Nat /\ MaxCalls \in Nat

VARIABLES
    level,     \* PORTx: the pins that are high
    cnen,      \* CNEN0x and CNEN1x: the pins whose changes are noticed
    cnf,       \* CNFx: noticed changes
    flag,      \* CNxIF
    ie,        \* CNxIE
    callback,  \* per slot
    data,      \* user_data, per slot
    previous,  \* previous_high, per slot
    owned,     \* s_event_owned_masks
    isr,       \* where the handler is
    pending,   \* its pending_mask
    read,      \* CNFx as last read by the handler
    thread,    \* where the thread is
    pin, user, \* of the call it is in
    was,       \* CNFx as last read by the thread
    calls, edges,
    called,    \* the callbacks the handler has made in this run
    told,      \* the pins a user was last told are high
    masked     \* the pins whose last change may have gone unnoticed

regs  == <<cnen, cnf, flag, ie>>
slots == <<callback, data, previous, owned>>
run   == <<isr, pending, read>>
call  == <<thread, pin, user, was, calls>>
vars  == <<level, regs, slots, run, call, edges, called, told, masked>>

Init ==
    /\ level \in SUBSET Pins
    /\ cnen = {} /\ cnf = {} /\ flag = FALSE /\ ie = FALSE
    /\ callback = [p \in Pins |-> NoUser] /\ data = [p \in Pins |-> NoUser]
    /\ previous = {} /\ owned = {}
    /\ isr = "idle" /\ pending = {} /\ read = {}
    /\ thread = "idle" /\ pin \in Pins /\ user = NoUser /\ was = {} /\ calls = 0
    /\ edges = 0 /\ called = {} /\ told = {} /\ masked = {}

With(s, p, b) == IF b THEN s \cup {p} ELSE s \ {p}

-----------------------------------------------------------------------------
(* A pin changes.  What a handler or a call is in the middle of may miss it *)
(* or undo its mark.                                                        *)
InTheMiddle == isr # "idle" \/ thread \notin {"idle", "unmask"}

Edge(p) ==
    /\ edges < MaxEdges
    /\ edges' = edges + 1
    /\ level' = With(level, p, p \notin level)
    /\ cnf' = IF p \in cnen THEN cnf \cup {p} ELSE cnf
    /\ flag' = (flag \/ p \in cnen)
    /\ masked' = With(masked, p, p \notin cnen \/ InTheMiddle)
    /\ UNCHANGED <<cnen, ie, slots, run, call, called, told>>

-----------------------------------------------------------------------------
(* nora_gpio_event_process_isr, for this port. *)
Interrupt ==
    /\ isr = "idle" /\ flag /\ ie
    /\ pending' = cnf \cap owned
    /\ called' = {}
    /\ isr' = IF pending' # {} THEN "dispatch"
              ELSE IF owned # {} THEN "clearFlag" ELSE "idle"
    /\ UNCHANGED <<level, regs, slots, read, call, edges, told, masked>>

(* Mutant of Changed: the levels are not compared. *)
ChangedAlways == pending

(* Mutant of Changed: the scan ends at a pin that is back at its old level. *)
ChangedFirst ==
    IF \E p \in pending : (p \in level) = (p \in previous)
    THEN {} ELSE pending

(* The pins whose level, read once for the whole port, is a new one. *)
Changed == {p \in pending : (p \in level) # (p \in previous)}

Dispatch ==
    /\ isr = "dispatch"
    /\ previous' = (previous \ Changed) \cup (Changed \cap level)
    /\ LET heard == {p \in Changed : callback[p] # NoUser} IN
       /\ called' = {[pin |-> p, callback |-> callback[p], data |-> data[p]] : p \in heard}
       /\ told' = (told \ heard) \cup (heard \cap level)
    /\ isr' = "readCnf"
    /\ UNCHANGED <<level, regs, callback, data, owned, pending, read, call, edges, masked>>

ReadCnf ==
    /\ isr = "readCnf"
    /\ read' = cnf
    /\ isr' = "writeCnf"
    /\ UNCHANGED <<level, regs, slots, pending, call, edges, called, told, masked>>

WriteCnf ==
    /\ isr = "writeCnf"
    /\ cnf' = read \ pending
    /\ isr' = "clearFlag"
    /\ UNCHANGED <<level, cnen, flag, ie, slots, pending, read, call, edges, called,
                   told, masked>>

ClearFlag ==
    /\ isr = "clearFlag"
    /\ flag' = FALSE
    /\ isr' = "idle"
    /\ UNCHANGED <<level, cnen, cnf, ie, slots, pending, read, call, edges, called,
                   told, masked>>

Handler == Interrupt \/ Dispatch \/ ReadCnf \/ WriteCnf \/ ClearFlag

-----------------------------------------------------------------------------
(* The thread runs when no interrupt does. *)
Runs(at) == thread = at /\ isr = "idle" /\ ~(flag /\ ie)

Calls(at) ==
    /\ Runs("idle") /\ calls < MaxCalls
    /\ calls' = calls + 1
    /\ thread' = at
    /\ UNCHANGED was

(* nora_gpio_event_attach: its start, with the pin's notices switched off.  *)
(* A detach is the same with no user.                                       *)
Attach(p, u) ==
    /\ Calls("disable")
    /\ pin' = p /\ user' = u
    /\ UNCHANGED <<level, regs, slots, run, edges, called, told, masked>>

Detach(p) == Attach(p, NoUser)

(* Mutant of Disable: the notices stay on while the slot changes. *)
DisableNot ==
    /\ Runs("disable")
    /\ thread' = "readWas"
    /\ UNCHANGED <<level, regs, slots, run, pin, user, was, calls, edges, called, told, masked>>

Disable ==
    /\ Runs("disable")
    /\ cnen' = cnen \ {pin}
    /\ thread' = "readWas"
    /\ UNCHANGED <<level, cnf, flag, ie, slots, run, pin, user, was, calls, edges,
                   called, told, masked>>

ReadWas ==
    /\ Runs("readWas")
    /\ was' = cnf
    /\ thread' = "forget"
    /\ UNCHANGED <<level, regs, slots, run, pin, user, calls, edges, called, told, masked>>

Forget ==
    /\ Runs("forget")
    /\ cnf' = was \ {pin}
    /\ thread' = "clear"
    /\ UNCHANGED <<level, cnen, flag, ie, slots, run, pin, user, was, calls, edges,
                   called, told, masked>>

(* The flag of the whole port is dropped, with what other pins had noticed. *)
DropFlag(at, then) ==
    /\ Runs(at)
    /\ flag' = FALSE
    /\ masked' = masked \cup cnf
    /\ thread' = then
    /\ UNCHANGED <<level, cnen, cnf, ie, slots, run, pin, user, was, calls, edges,
                   called, told>>

DropForSlot == DropFlag("clear", "setCallback")

SetCallback ==
    /\ Runs("setCallback")
    /\ callback' = [callback EXCEPT ![pin] = user]
    /\ thread' = "setData"
    /\ UNCHANGED <<level, regs, data, previous, owned, run, pin, user, was, calls,
                   edges, called, told, masked>>

SetData ==
    /\ Runs("setData")
    /\ data' = [data EXCEPT ![pin] = user]
    /\ thread' = "setPrevious"
    /\ UNCHANGED <<level, regs, callback, previous, owned, run, pin, user, was, calls,
                   edges, called, told, masked>>

(* A detach stores a low level; an attach the level it reads. *)
SetPrevious ==
    /\ Runs("setPrevious")
    /\ previous' = With(previous, pin, user # NoUser /\ pin \in level)
    /\ told' = With(told, pin, pin \in previous')
    /\ masked' = masked \ {pin}
    /\ thread' = "own"
    /\ UNCHANGED <<level, regs, callback, data, owned, run, pin, user, was, calls,
                   edges, called>>

Own ==
    /\ Runs("own")
    /\ owned' = With(owned, pin, user # NoUser)
    /\ thread' = IF user # NoUser THEN "enable" ELSE "idle"
    /\ UNCHANGED <<level, regs, callback, data, previous, run, pin, user, was, calls,
                   edges, called, told, masked>>

(* Both edges at once. *)
Enable ==
    /\ Runs("enable")
    /\ cnen' = cnen \cup {pin}
    /\ thread' = "idle"
    /\ UNCHANGED <<level, cnf, flag, ie, slots, run, pin, user, was, calls, edges,
                   called, told, masked>>

SetIe(at, to, then) ==
    /\ Runs(at)
    /\ ie' = to
    /\ thread' = then
    /\ UNCHANGED <<level, cnen, cnf, flag, slots, run, pin, user, was, calls, edges,
                   called, told, masked>>

(* nora_gpio_event_irq_enable, irq_disable and irq_set_enabled. *)
IrqCall(at) ==
    /\ Calls(at)
    /\ UNCHANGED <<level, regs, slots, run, pin, user, edges, called, told, masked>>

IrqEnable      == IrqCall("dropThenOn")
EnableDrop     == DropFlag("dropThenOn", "on")
EnableOn       == SetIe("on", TRUE, "idle")
IrqDisable     == IrqCall("off")
DisableOff     == SetIe("off", FALSE, "drop")
DisableDrop    == DropFlag("drop", "idle")
IrqSetEnabled  == IrqCall("unmask")
SetEnabled     == \E b \in BOOLEAN : SetIe("unmask", b, "idle")

Thread ==
    \/ \E p \in Pins : Detach(p) \/ \E u \in Users : Attach(p, u)
    \/ Disable \/ ReadWas \/ Forget \/ DropForSlot
    \/ SetCallback \/ SetData \/ SetPrevious \/ Own \/ Enable
    \/ IrqEnable \/ EnableDrop \/ EnableOn
    \/ IrqDisable \/ DisableOff \/ DisableDrop
    \/ IrqSetEnabled \/ SetEnabled

Next == Thread \/ Handler \/ \E p \in Pins : Edge(p)

Spec == Init /\ [][Next]_vars
-----------------------------------------------------------------------------
(* Properties. *)

Steps == {"idle", "disable", "readWas", "forget", "clear", "setCallback", "setData",
          "setPrevious", "own", "enable", "dropThenOn", "on", "off", "drop", "unmask"}

(* Every variable has its type, and the hardware notices owned pins only.   *)
TypeOK ==
    /\ level \subseteq Pins /\ cnf \subseteq Pins
    /\ flag \in BOOLEAN /\ ie \in BOOLEAN
    /\ callback \in [Pins -> Users \cup {NoUser}]
    /\ data \in [Pins -> Users \cup {NoUser}]
    /\ previous \subseteq Pins /\ told \subseteq Pins /\ masked \subseteq Pins
    /\ owned \subseteq Pins /\ cnen \subseteq owned
    /\ isr \in {"idle", "dispatch", "readCnf", "writeCnf", "clearFlag"}
    /\ pending \subseteq Pins /\ read \subseteq Pins
    /\ thread \in Steps /\ pin \in Pins /\ user \in Users \cup {NoUser}
    /\ was \subseteq Pins
    /\ calls \in 0 .. MaxCalls /\ edges \in 0 .. MaxEdges
    /\ called \subseteq [pin : Pins, callback : Users, data : Users \cup {NoUser}]

(* At rest a user knows the level of its pin, unless the pin's last change  *)
(* fell into a handler run or a call that clears the port's flag, or such a *)
(* call dropped it: no other change is ever missed, whatever the others do. *)
ChangesAreTold ==
    isr = "idle" /\ thread = "idle" /\ ~flag
        => \A p \in cnen \ masked : (p \in told) = (p \in level)

(* A user is never told the same level twice: edges alternate, though the   *)
(* change bits may be stale and several changes may share one.              *)
EdgesAlternate ==
    [][called' # called =>
          \A c \in called' : (c.pin \in told') # (c.pin \in told)]_vars

(* A callback is called with its own user_data, never from a slot that a    *)
(* call is in the middle of changing.                                       *)
CallsAreWhole == \A c \in called : c.callback = c.data

(* The handler is not entered for ever: a port flag it would leave set,     *)
(* having no pin of its own, never interrupts.                              *)
FlagHasOwner == flag /\ ie => owned # {}
=============================================================================
