---------------------------- MODULE TdmDomains ----------------------------
(***************************************************************************)
(* The legs of the TDM audio driver and their sync domains: configuring,   *)
(* opening, starting and stopping them.  All calls come from one thread;   *)
(* starting is modelled leg by leg, because each leg may fail to arm.  The *)
(* legs share one CLC, which shapes the frame sync of one clock master.    *)
(***************************************************************************)
EXTENDS Integers, FiniteSets

CONSTANTS NumLegs,   \* the legs are 1 .. NumLegs; leg 1 is the primary one
          Domains    \* the sync domains used, a set of naturals

ASSUME TdmAssumption == NumLegs \in Nat \ {0} /\ IsFiniteSet(Domains) /\ Domains \subseteq 0 .. 31 /\ 0 \in Domains

Legs  == 1 .. NumLegs
Roles == {"MASTER", "SLAVE"}
\* What framing and frame-sync shape come down to: a master with a 50% frame sync needs the CLC.
Shapes == {"PULSE", "50PCT"}

VARIABLES mode,       \* which of the two configuration interfaces is in use
          setup,      \* each leg's role, framing and domain
          configured, \* the legs that have a configuration
          opened,
          running,    \* the legs that run
          fs,         \* where each leg's frame-sync pin is routed: "none", "SS" or "CLC"
          pins,       \* the routing the board chose
          clc,        \* the leg that owns the CLC; 0: nobody
          start       \* the start call under way

tdmVars == <<mode, setup, configured, opened, running, fs, pins, clc, start>>

NoStart == [call |-> "none", todo |-> {}, arm |-> {}, go |-> {}, fresh |-> {}, before |-> {}, failed |-> FALSE]
Idle == start.call = "none"

Members(d) == {l \in Legs : setup[l].domain = d}
Masters(d) == {l \in Members(d) : setup[l].role = "MASTER"}
MinOf(S)   == CHOOSE x \in S : \A y \in S : x <= y

TdmInitState ==
    /\ mode = "NONE" /\ configured = {} /\ opened = FALSE /\ running = {}
    /\ setup = [l \in Legs |-> [role |-> "SLAVE", shape |-> "PULSE", domain |-> 0]]
    /\ pins \in [Legs -> {"none", "SS"}] /\ fs = pins /\ clc = 0
    /\ start = NoStart

\* A domain the start calls accept: configured, one framing, at most one master.
Valid(d) == /\ Members(d) # {} /\ Members(d) \subseteq configured
            /\ \A l, m \in Members(d) : setup[l].shape = setup[m].shape
            /\ Cardinality(Masters(d)) <= 1
Stopped(d) == Members(d) \cap running = {}
Partial(d) == ~Stopped(d) /\ ~(Members(d) \subseteq running)

---------------------------------------------------------------------------
InstConfigure(role, shape) ==
    /\ Idle /\ ~opened /\ mode # "SYSTEM" /\ 1 \notin running
    /\ setup' = [setup EXCEPT ![1].role = role, ![1].shape = shape]
    /\ configured' = configured \cup {1} /\ mode' = "SINGLE"
    /\ UNCHANGED <<opened, running, fs, pins, clc, start>>

ConfigureSystem(new) ==
    /\ Idle /\ ~opened /\ running = {}
    /\ \A l, m \in Legs : l # m /\ new[l].domain = new[m].domain =>
           new[l].shape = new[m].shape /\ "SLAVE" \in {new[l].role, new[m].role}
    /\ setup' = new /\ configured' = Legs /\ mode' = "SYSTEM"
    /\ UNCHANGED <<opened, running, fs, pins, clc, start>>

\* The board may refuse: clock source, its readiness, pins, CLC pass-through.
Open  == Idle /\ 1 \in configured /\ opened' = TRUE
         /\ UNCHANGED <<mode, setup, configured, running, fs, pins, clc, start>>
Close == Idle /\ running = {} /\ opened' = FALSE
         /\ UNCHANGED <<mode, setup, configured, running, fs, pins, clc, start>>

\* Releasing the CLC gives the frame-sync pin back to the leg; for other legs it is a no-op.
Release(legs) ==
    IF clc \in legs THEN clc' = 0 /\ fs' = [fs EXCEPT ![clc] = "SS"] ELSE UNCHANGED <<clc, fs>>

NeedsClc(l) == setup[l].role = "MASTER" /\ setup[l].shape = "50PCT"

\* Claiming it: busy with another leg, or no frame-sync pin to be found.
Engages(l) == clc \in {0, l} /\ "SS" = fs[l]

\* Mutant of StopLegs: the CLC is kept.
StopLegsKeeping(legs) == running' = running \ legs /\ UNCHANGED <<clc, fs>>

StopLegs(legs) == running' = running \ legs /\ Release(legs)

StopDomain(d) ==
    /\ Idle /\ mode = "SYSTEM" /\ Members(d) # {}
    /\ StopLegs(Members(d))
    /\ UNCHANGED <<mode, setup, configured, opened, pins, start>>
StopAllDomains ==
    /\ Idle /\ mode = "SYSTEM" /\ StopLegs(Legs)
    /\ UNCHANGED <<mode, setup, configured, opened, pins, start>>
InstStop ==
    /\ Idle /\ mode = "SINGLE" /\ StopLegs({1})
    /\ UNCHANGED <<mode, setup, configured, opened, pins, start>>

---------------------------------------------------------------------------
\* The start calls.  The clock source may be unready, which refuses the domain.
InstStart ==
    /\ Idle /\ mode = "SINGLE" /\ opened /\ 1 \notin running
    /\ start' = [NoStart EXCEPT !.call = "inst", !.arm = {1}, !.go = {1}, !.before = running]
    /\ UNCHANGED <<mode, setup, configured, opened, running, fs, pins, clc>>

StartDomain(d) ==
    /\ Idle /\ mode = "SYSTEM" /\ opened /\ Valid(d) /\ Stopped(d)
    /\ start' = [NoStart EXCEPT !.call = "domain", !.arm = Members(d), !.go = Members(d), !.before = running]
    /\ UNCHANGED <<mode, setup, configured, opened, running, fs, pins, clc>>

\* Every domain is judged before the first is touched; running ones are left alone.
ToStart == {d \in {setup[l].domain : l \in configured} : Stopped(d)}
StartAllDomains ==
    /\ Idle /\ mode = "SYSTEM" /\ opened
    /\ \A d \in {setup[l].domain : l \in configured} : Valid(d) /\ ~Partial(d)
    /\ ToStart # {}
    /\ start' = [NoStart EXCEPT !.call = "all", !.todo = ToStart, !.before = running]
    /\ UNCHANGED <<mode, setup, configured, opened, running, fs, pins, clc>>

NextDomain ==
    /\ start.call = "all" /\ start.arm = {} /\ start.go = {} /\ start.todo # {} /\ ~start.failed
    /\ LET d == MinOf(start.todo)
       IN  start' = [start EXCEPT !.arm = Members(d), !.go = Members(d)]
    /\ UNCHANGED <<mode, setup, configured, opened, running, fs, pins, clc>>

ArmLeg ==
    /\ start.arm # {} /\ ~start.failed
    /\ LET l == MinOf(start.arm)
       IN  /\ NeedsClc(l) => Engages(l)
           /\ IF NeedsClc(l) THEN clc' = l /\ fs' = [fs EXCEPT ![l] = "CLC"] ELSE Release({l})
           /\ start' = [start EXCEPT !.arm = @ \ {l}]
    /\ UNCHANGED <<mode, setup, configured, opened, running, pins>>

\* The clock is not ready when the domain begins, the DMA refuses a leg, or the
\* CLC is not to be had.  A domain that failed to arm is stopped as a whole.
ArmFails ==
    /\ start.arm # {} /\ ~start.failed
    /\ start' = [start EXCEPT !.failed = TRUE]
    /\ IF start.call = "inst" THEN UNCHANGED <<running, clc, fs>>
       ELSE LET d == setup[MinOf(start.arm)].domain
            IN  StopLegs(Members(d))
    /\ UNCHANGED <<mode, setup, configured, opened, pins>>

\* Mutant of GoSet: in the order of the legs.
GoSetInOrder == start.go

\* The slaves are switched on first, the master last.
GoSet == LET slaves == {l \in start.go : setup[l].role = "SLAVE"}
         IN  IF slaves # {} THEN slaves ELSE start.go
GoLeg ==
    /\ start.arm = {} /\ start.go # {} /\ ~start.failed
    /\ LET l == MinOf(GoSet)
       IN  /\ running' = running \cup {l}
           /\ start' = [start EXCEPT !.go = @ \ {l},
                !.todo = IF start.go = {l} THEN @ \ {setup[l].domain} ELSE @,
                !.fresh = IF start.go = {l} THEN @ \cup {setup[l].domain} ELSE @]
    /\ UNCHANGED <<mode, setup, configured, opened, fs, pins, clc>>

\* Mutant of RolledBack: every domain the call looked at.
RolledBackAll == IF start.call = "all" THEN Legs ELSE {}

\* Only the domains this very call started are rolled back.
RolledBack == IF start.call = "all" THEN {l \in Legs : setup[l].domain \in start.fresh} ELSE {}
StartEnds ==
    /\ ~Idle
    /\ IF start.failed THEN StopLegs(RolledBack)
       ELSE /\ start.arm = {} /\ start.go = {} /\ start.todo = {}
            /\ UNCHANGED <<running, clc, fs>>
    /\ start' = [NoStart EXCEPT !.before = start.before, !.failed = start.failed]
    /\ UNCHANGED <<mode, setup, configured, opened, pins>>

TdmNext ==
    \/ \E r \in Roles, s \in Shapes : InstConfigure(r, s)
    \/ \E new \in [Legs -> [role : Roles, shape : Shapes, domain : Domains]] : ConfigureSystem(new)
    \/ Open \/ Close
    \/ \E d \in Domains : StartDomain(d) \/ StopDomain(d)
    \/ StartAllDomains \/ StopAllDomains \/ InstStart \/ InstStop
    \/ NextDomain \/ ArmLeg \/ ArmFails \/ GoLeg \/ StartEnds

TdmSpec == TdmInitState /\ [][TdmNext]_tdmVars

---------------------------------------------------------------------------
TdmTypeOK ==
    /\ mode \in {"NONE", "SINGLE", "SYSTEM"} /\ opened \in BOOLEAN
    /\ configured \subseteq Legs /\ running \subseteq configured
    /\ clc \in {0} \cup Legs /\ fs \in [Legs -> {"none", "SS", "CLC"}]

\* Between calls a domain runs as a whole or not at all, and only while the
\* driver is open; inside one, a clock master never runs before its slaves.
DomainsAreWhole ==
    /\ running # {} => opened
    /\ Idle /\ mode = "SYSTEM" => \A d \in Domains : ~Partial(d)
    /\ \A l \in running : setup[l].role = "MASTER" /\ mode = "SYSTEM" => Members(setup[l].domain) \subseteq running

\* A start that fails half way leaves exactly the legs running that ran before.
FailureIsUndone == [][ (~Idle /\ start'.call = "none" /\ start.failed) => running' = start.before ]_tdmVars

\* Whichever way a call ends, the CLC is held only by a running leg that needs it,
\* and every other frame-sync pin is routed as the board chose.
ClcIsReturned ==
    Idle => /\ clc # 0 => clc \in running /\ NeedsClc(clc)
            /\ \A l \in Legs : fs[l] = IF l = clc THEN "CLC" ELSE pins[l]

=============================================================================
