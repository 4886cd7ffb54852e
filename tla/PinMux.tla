------------------------------- MODULE PinMux -------------------------------
(* Pin configuration (hal_gpio): the registers of one port, the remappable  *)
(* pin routes, the thread that configures pins, and a handler that drives   *)
(* pins of its own on the same port.  A register access is a load, a change *)
(* and a store, between which interrupts are masked.                        *)
EXTENDS Naturals, Sequences

CONSTANTS Pads,      \* the physical pins the thread configures
          Lights,    \* the ones the handler drives
          Virtual,   \* routable end points without a pin
          Functions, \* the peripheral outputs the API names
          Inputs,    \* the peripheral inputs the API names
          Present,   \* the outputs and inputs the device has
          PinConfigs  \* the configurations asked for

ASSUME PinMuxAssumption ==
  /\ Pads \cap Lights = {} /\ Virtual \cap (Pads \cup Lights) = {}
  /\ Functions \cap Inputs = {} /\ Present \subseteq Functions \cup Inputs
  /\ PinConfigs \subseteq [out : BOOLEAN, pull : {"UP", "DOWN", "NONE"}, drain : BOOLEAN, high : BOOLEAN, analog : BOOLEAN]
  /\ "none" \notin Pads \cup Lights \cup Virtual \cup Functions \cup Inputs

Registers == {"LAT", "TRIS", "ANSEL", "ODC", "CNPU", "CNPD"}

VARIABLES
  port,    \* each register: the pins whose bit is set
  route,   \* the function routed to an end point
  source,  \* the end point an input is routed from
  iolock,  \* RPCON.IOLOCK
  job,     \* the thread's call: register operations left, what it routes, the registers it aims at
  held,    \* the register value the thread has loaded and not stored
  asked,   \* the registers as all calls so far asked for them
  verdict  \* the last pinmux call and what it returned

pinVars == <<port, route, source, iolock, job, held, asked, verdict>>

NoJob     == [ops |-> <<>>, pad |-> "none", fn |-> "none", mux |-> FALSE, aim |-> [r \in Registers |-> {}]]
NoRoutes  == [e \in Pads \cup Lights \cup Virtual |-> "none"]
NoSources == [i \in Inputs |-> "none"]
NoVerdict == [pad |-> "none", fn |-> "none", ok |-> FALSE, route |-> NoRoutes, source |-> NoSources]
Nowhere   == "undefined"  \* a number that is no end point of the device
NotHeld   == [is |-> FALSE, bits |-> {}]

-----------------------------------------------------------------------------
(* Register operations.                                                     *)

Op(how, reg, p) == [how |-> how, reg |-> reg, pad |-> p]
Applied(op, bits) ==
  CASE op.how = "set" -> bits \cup {op.pad}
    [] op.how = "clear" -> bits \ {op.pad}
    [] op.how = "toggle" -> IF op.pad \in bits THEN bits \ {op.pad} ELSE bits \cup {op.pad}
\* What a row of operations makes of the registers; a row has at most one on each.
OnReg(ops, r) == {ops[i] : i \in {j \in DOMAIN ops : ops[j].reg = r}}
AllApplied(ops, regs) ==
  [r \in Registers |-> IF OnReg(ops, r) = {} THEN regs[r] ELSE Applied(CHOOSE op \in OnReg(ops, r) : TRUE, regs[r])]

Write(p, high) == <<Op(IF high THEN "set" ELSE "clear", "LAT", p)>>
Toggle(p)      == <<Op("toggle", "LAT", p)>>
SetDirection(p, out) == <<Op(IF out THEN "clear" ELSE "set", "TRIS", p)>>
SetAnalog(p, on)     == <<Op(IF on THEN "set" ELSE "clear", "ANSEL", p)>>
SetOpenDrain(p, on)  == <<Op(IF on THEN "set" ELSE "clear", "ODC", p)>>
SetPull(p, pull) ==
  CASE pull = "UP"   -> <<Op("clear", "CNPD", p), Op("set", "CNPU", p)>>
    [] pull = "DOWN" -> <<Op("clear", "CNPU", p), Op("set", "CNPD", p)>>
    [] pull = "NONE" -> <<Op("clear", "CNPU", p), Op("clear", "CNPD", p)>>

\* nora_gpio_config: stop driving first, start driving last.
Config(p, c) ==
  (IF c.out THEN <<>> ELSE SetDirection(p, FALSE))
    \o SetAnalog(p, c.analog) \o SetPull(p, c.pull) \o SetOpenDrain(p, c.drain)
    \o (IF c.out THEN Write(p, c.high) \o SetDirection(p, TRUE) ELSE <<>>)

DigitalOutput(high) == [out |-> TRUE, analog |-> FALSE, pull |-> "NONE", drain |-> FALSE, high |-> high]
DigitalInput == [out |-> FALSE, analog |-> FALSE, pull |-> "NONE", drain |-> FALSE, high |-> FALSE]

-----------------------------------------------------------------------------
(* Routes.                                                                  *)

IsPad(end)     == end \in Pads \cup Lights
IsVirtual(end) == end \in Virtual
Defined(end)   == IsPad(end) \/ IsVirtual(end)
HasCode(fn)    == fn \in Present

\* The switches over the end points and over the inputs: one that is not listed is left out.
WriteOutput(fn, end) == IF Defined(end) THEN [route EXCEPT ![end] = fn] ELSE route
SelectInput(fn, end) == IF HasCode(fn) THEN [source EXCEPT ![fn] = end] ELSE source

\* nora_pps_route_output: a function the device lacks is refused before the lock is opened.
RouteOutput(fn, end) ==
  /\ UNCHANGED source
  /\ IF HasCode(fn) THEN iolock' = TRUE /\ route' = WriteOutput(fn, end)
     ELSE UNCHANGED <<route, iolock>>

\* nora_pps_route_input: here it is the end point that is looked at first.
RouteInput(fn, end) ==
  /\ UNCHANGED route
  /\ IF Defined(end) THEN iolock' = TRUE /\ source' = SelectInput(fn, end)
     ELSE UNCHANGED <<source, iolock>>

\* nora_pps_find_output_rp: pins only, whatever end points carry the function too.
FoundAt(fn) == {p \in DOMAIN route : IsPad(p) /\ HasCode(fn) /\ route[p] = fn}

-----------------------------------------------------------------------------
(* The thread: a call is begun, its operations are done one by one, it ends. *)

NoCall == job.ops = <<>> /\ job.pad = "none"

BeginOps(p, ops, fn, mux) ==
  /\ NoCall
  /\ job' = [ops |-> ops, pad |-> p, fn |-> fn, mux |-> mux, aim |-> AllApplied(ops, port)]
  /\ verdict' = NoVerdict
  /\ UNCHANGED <<port, route, source, iolock, held, asked>>

GpioCall ==
  \E p \in Pads :
    \/ \E c \in PinConfigs : BeginOps(p, Config(p, c), "none", FALSE)
    \/ \E b \in BOOLEAN, call \in {"w", "d", "a", "o"} :
         BeginOps(p, CASE call = "w" -> Write(p, b) [] call = "d" -> SetDirection(p, b)
                       [] call = "a" -> SetAnalog(p, b) [] call = "o" -> SetOpenDrain(p, b), "none", FALSE)
    \/ \E pull \in {"UP", "DOWN", "NONE"} : BeginOps(p, SetPull(p, pull), "none", FALSE)
    \/ BeginOps(p, Toggle(p), "none", FALSE)

EndPoints == Pads \cup Virtual \cup {Nowhere}
RouteCall == \E end \in EndPoints, fn \in Functions \cup Inputs : BeginOps(end, <<>>, fn, FALSE)

\* nora_pinmux_route_output and _input: the pin first; an end point that is no pin is refused.
PinFirst(end, c) == IF end \in Pads THEN Config(end, c) ELSE <<>>
MuxCall ==
  \E end \in EndPoints :
    \/ \E fn \in Functions, high \in BOOLEAN : BeginOps(end, PinFirst(end, DigitalOutput(high)), fn, TRUE)
    \/ \E fn \in Inputs : BeginOps(end, PinFirst(end, DigitalInput), fn, TRUE)

\* The load of nora_gpio_reg_set, _clear and _toggle, interrupts masked.
LoadReg ==
  /\ job.ops # <<>> /\ ~held.is
  /\ held' = [is |-> TRUE, bits |-> port[Head(job.ops).reg]]
  /\ UNCHANGED <<port, route, source, iolock, job, asked, verdict>>
StoreReg ==
  /\ held.is /\ held' = NotHeld
  /\ port' = [port EXCEPT ![Head(job.ops).reg] = Applied(Head(job.ops), held.bits)]
  /\ job' = [job EXCEPT !.ops = Tail(@)]
  /\ UNCHANGED <<route, source, iolock, asked, verdict>>

Refused == job.mux /\ job.pad \notin Pads
JobEnds ==
  /\ job.pad # "none" /\ job.ops = <<>>
  /\ CASE job.fn = "none" \/ Refused -> UNCHANGED <<route, source, iolock>>
       [] ~Refused /\ job.fn \in Functions -> RouteOutput(job.fn, job.pad)
       [] ~Refused /\ job.fn \in Inputs -> RouteInput(job.fn, job.pad)
  /\ verdict' = IF job.mux THEN [pad |-> job.pad, fn |-> job.fn, ok |-> HasCode(job.fn) /\ ~Refused,
                                  route |-> route, source |-> source]
                ELSE NoVerdict
  /\ asked' = job.aim
  /\ job' = NoJob
  /\ UNCHANGED <<port, held>>

\* Mutant of MasksOut: the handler is let in between the load and the store.
MasksOutNever == FALSE

\* The handler drives a light; it is kept out while a register is held.
MasksOut == held.is
HandlerDrives ==
  /\ ~MasksOut
  /\ \E p \in Lights, high \in BOOLEAN :
       /\ port' = AllApplied(Write(p, high), port)
       /\ asked' = AllApplied(Write(p, high), asked)
       /\ job' = [job EXCEPT !.aim = IF NoCall THEN @ ELSE AllApplied(Write(p, high), @)]
  /\ UNCHANGED <<route, source, iolock, held, verdict>>

PinInitState ==
  /\ port = [r \in Registers |-> CASE r = "TRIS" -> Pads [] r = "ANSEL" -> Pads [] OTHER -> {}]
  /\ route = NoRoutes /\ source = NoSources /\ iolock = FALSE
  /\ job = NoJob /\ held = NotHeld /\ asked = port /\ verdict = NoVerdict

PinNext == GpioCall \/ RouteCall \/ MuxCall \/ LoadReg \/ StoreReg \/ JobEnds \/ HandlerDrives
-----------------------------------------------------------------------------
\* Between calls every register is as the calls of the thread and of the handler
\* asked: no access to one pin takes back what was done to another.
PinsAreAsAsked == NoCall => port = asked

\* While a pin is configured it drives no level, and no output stage, but those
\* it had as an output and those it is to have as one; and it is never pulled both ways.
NoGlitch ==
  /\ \A p \in {job.pad} \cap Pads, r \in {"LAT", "ODC"} : p \notin port["TRIS"] =>
       \/ p \notin asked["TRIS"] /\ (p \in port[r] <=> p \in asked[r])
       \/ p \notin job.aim["TRIS"] /\ (p \in port[r] <=> p \in job.aim[r])
  /\ port["CNPU"] \cap port["CNPD"] = {}

\* A pinmux call that returns true has made the pin digital, of the direction, and
\* routed the function, nothing else; one that returns false has routed nothing.
MuxIsWhole ==
  NoCall /\ verdict.pad # "none" =>
    LET routed == verdict.ok /\ verdict.fn \in Functions
        fed    == verdict.ok /\ verdict.fn \in Inputs
    IN  /\ route = IF routed THEN [verdict.route EXCEPT ![verdict.pad] = verdict.fn] ELSE verdict.route
        /\ source = IF fed THEN [verdict.source EXCEPT ![verdict.fn] = verdict.pad] ELSE verdict.source
        /\ verdict.ok => iolock /\ verdict.pad \notin port["ANSEL"]
        /\ routed => verdict.pad \in FoundAt(verdict.fn) /\ verdict.pad \notin port["TRIS"]
        /\ fed => verdict.pad \in port["TRIS"]
=============================================================================
