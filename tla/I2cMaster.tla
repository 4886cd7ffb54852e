----------------------------- MODULE I2cMaster -----------------------------
(* The blocking I2C master of hal_i2c: transactions as sequences of         *)
(* register steps and waits, the pending (no-STOP) transaction and its      *)
(* recovery, and a host controller that completes, stalls or fails each     *)
(* request.                                                                 *)
(* One instance, one thread.  The millisecond tick is kept as two ages:     *)
(* (uint32_t)(now - start) is the age of a start, modulo the tick's width.  *)
EXTENDS I2cCommon, SequencesExt

CONSTANTS
  Timeouts,        \* the values of timeout_ms; 0 disables it
  PendingTimeouts, \* the values of pending_timeout_ms; 0 disables it
  TickMod,         \* 2^32: the width of the tick
  MaxWrite,        \* bound on the bytes a call writes
  MaxRead,         \* bound on the bytes a call reads
  MaxFaults        \* bound on collisions and bus errors

ASSUME I2cTicks == /\ TickMod \in Nat \ {0}
                   /\ Timeouts \subseteq 0..(TickMod - 1) /\ PendingTimeouts \subseteq 0..(TickMod - 1)
ASSUME I2cBounds == MaxWrite \in Nat /\ MaxRead \in Nat /\ MaxFaults \in Nat

VARIABLES
  initialized, \* g_initialized
  limits,      \* g_timeout_ms and g_pending_timeout_ms
  pending,     \* g_pending_state # NORA_I2C_PENDING_NONE
  pendingAge,  \* the tick less g_pending_start_ms
  call,        \* the public call in progress
  waited,      \* the tick less start_ms of the wait in progress
  req,         \* request bits of CON1, and TRSTAT
  stat,        \* the status bits the driver looks at
  host,        \* STAT2.HSTACT: this host owns the bus
  due,         \* what the call has yet to put on the bus, or Wrong
  ret,         \* how the last call returned
  unclean,     \* a best-effort STOP failed and none has succeeded since
  faults

engine == <<initialized, limits, pending, pendingAge, call, waited, ret, unclean>>
controller == <<req, stat, host, due, faults>>
masterVars == <<role, on, engine, controller>>

-----------------------------------------------------------------------------
(* Transactions as the steps of the blocking helpers.                       *)

Repeat(n, s) == [i \in 1..(n * Len(s)) |-> s[((i - 1) % Len(s)) + 1]]

Start == <<"SEN", "started">>
Restart == <<"RSEN", "restarted">>
WriteByte == <<"ready", "host", "TRN", "sent", "accepted">>
ReadByte(last) == <<"RCEN", "filled", IF last THEN "NACK" ELSE "ACK", "answered">>
Stop == <<"PEN", "stopped">>

WriteNoStop(n) == Start \o Repeat(n + 1, WriteByte) \o <<"pend">>
ReadBytes(n) == WriteByte \o Repeat(n - 1, ReadByte(FALSE)) \o ReadByte(TRUE) \o Stop

Steps(op, n, k) ==
  CASE op = "write"         -> WriteNoStop(n) \o Stop
    [] op = "read"          -> Start \o ReadBytes(k)
    [] op = "write_read"    -> WriteNoStop(n) \o Restart \o ReadBytes(k)
    [] op = "write_no_stop" -> WriteNoStop(n)
    [] op = "after_restart" -> Restart \o ReadBytes(k)
    [] op = "stop"          -> Stop

Independent == {"write", "read", "write_read", "write_no_stop"}
Continuing == {"after_restart", "stop"}

\* What each call puts on the bus when nothing goes wrong.
OnWire(op, n, k) ==
  LET out == <<"S">> \o Repeat(n + 1, <<"byte">>)
      in == <<"byte">> \o Repeat(k - 1, <<"in", "ack">>) \o <<"in", "nack", "P">>
  IN CASE op = "write"         -> out \o <<"P">>
       [] op = "read"          -> <<"S">> \o in
       [] op = "write_read"    -> out \o <<"Sr">> \o in
       [] op = "write_no_stop" -> out
       [] op = "after_restart" -> <<"Sr">> \o in
       [] op = "stop"          -> <<"P">>

Idle == [todo |-> <<>>, ending |-> "none", status |-> "none"]
Busy == call # Idle
Wrong == <<"wrong">>
Report(status) == [status |-> status, stale |-> FALSE, clean |-> FALSE]
Step == call.todo[1]
Stopping == Step = "stopped"

Collided == stat \intersect {"BCL", "IWCOL"} # {}
\* Mutant of TimedOut: one tick later.
TimedOutLate == limits.timeout # 0 /\ waited > limits.timeout
TimedOut == limits.timeout # 0 /\ waited >= limits.timeout
Stale == pending /\ limits.pending # 0 /\ pendingAge >= limits.pending

\* Where each wait ends well.  STAT1.S may be that of an earlier START.
StartDone == stat \intersect {"STARTE", "S"} # {}
\* Mutant of RestartDone: taken for a START.
RestartDoneOnS == stat \intersect {"STARTE", "S"} # {}
RestartDone == "RSEN" \notin req /\ "STARTE" \in stat
StopFullyDone == "STOPE" \in stat /\ "PEN" \notin req

Done ==
  CASE Step = "started"   -> StartDone
    [] Step = "restarted" -> RestartDone
    [] Step = "stopped"   -> StopFullyDone
    [] Step \in {"ready", "sent"} -> "TRSTAT" \notin req
    [] Step = "host"      -> host
    [] Step = "accepted"  -> "D_A" \in stat
    [] Step = "filled"    -> "RBF" \in stat
    [] Step = "answered"  -> "ACKEN" \notin req

\* wait_until: a fault wins over completion, completion over the timeout.
Waits == {"started", "restarted", "ready", "host", "sent", "accepted",
          "filled", "answered", "stopped"}

WaitResult ==
  CASE Collided -> "COLLISION"
    [] ~Collided /\ "ERR" \in stat -> "BUS"
    [] ~Collided /\ "ERR" \notin stat /\ Done -> "OK"
    [] ~Collided /\ "ERR" \notin stat /\ ~Done /\ TimedOut -> "TIMEOUT"
    [] OTHER -> "waiting"

\* write_byte_blocking looks at NACKE once the byte was accepted.
Result == IF WaitResult = "OK" /\ Step = "accepted" /\ "NACKE" \in stat
          THEN "NACK" ELSE WaitResult

-----------------------------------------------------------------------------
(* Public calls.                                                            *)

Return(status) == /\ ret' = IF status = "OK" THEN [ret EXCEPT !.status = "OK"] ELSE Report(status)
                  /\ call' = Idle

Refuse(status) ==
  /\ ret' = Report(status)
  /\ UNCHANGED <<role, on, initialized, limits, pending, pendingAge, call, waited, unclean>>
  /\ UNCHANGED controller

Clean == req = {} /\ (host = pending) /\ ~unclean

\* Undertake the steps of a call; "ending" says what its STOP decides.
Undertake(todo, ending, onWire) ==
  /\ call' = [todo |-> todo, ending |-> ending, status |-> "OK"]
  /\ ret' = [status |-> "none", stale |-> Stale, clean |-> Clean]
  /\ waited' = 0 /\ due' = onWire
  /\ UNCHANGED <<role, on, initialized, limits, pending, pendingAge, unclean>>
  /\ UNCHANGED <<req, stat, host, faults>>

\* recover_stale_pending_if_needed, then the sequence the call asks for.
Transact(op, n, k) ==
  /\ ~Busy
  /\ \/ ~initialized /\ Refuse("NOT_INITIALIZED")
     \/ initialized /\ Stale /\ Undertake(Stop, "recover", <<"P">>)
     \/ /\ initialized /\ ~Stale
        /\ \/ op \in Independent /\ pending /\ Refuse("BUSY")
           \/ op \in Continuing /\ ~pending /\ Refuse("SEQUENCE")
           \/ (pending <=> op \in Continuing) /\ Undertake(Steps(op, n, k), "steps", OnWire(op, n, k))

\* nora_i2c_init: the other role is refused; the registers start from zero.
MasterInit(timeout, pendingTimeout) ==
  /\ ~Busy
  /\ \/ role = "slave" /\ Refuse("BUSY")
     \/ /\ role # "slave"
        /\ role' = "master" /\ on' = TRUE
        /\ initialized' = TRUE /\ limits' = [timeout |-> timeout, pending |-> pendingTimeout]
        /\ pending' = FALSE /\ pendingAge' = 0 /\ unclean' = FALSE
        /\ req' = {} /\ host' = FALSE /\ due' = <<>>
        /\ stat' = {}
        /\ ret' = Report("OK")
        /\ UNCHANGED <<call, waited, faults>>

\* The part of nora_i2c_deinit after the recovery, which returned status.
TurnOff(status) ==
  /\ role' = "none" /\ on' = FALSE /\ initialized' = FALSE
  /\ limits' = [timeout |-> 0, pending |-> 0]
  /\ pending' = FALSE /\ pendingAge' = 0 /\ unclean' = FALSE
  /\ req' = {} /\ host' = FALSE /\ due' = <<>> /\ stat' = {}
  /\ call' = Idle
  /\ ret' = Report(status)
  /\ UNCHANGED <<waited, faults>>

HostBusy == host \/ req # {}

MasterDeinit ==
  /\ ~Busy
  /\ \/ ~initialized /\ Refuse("NOT_INITIALIZED")
     \/ initialized /\ Stale /\ Undertake(Stop, "deinit", <<"P">>)
     \/ initialized /\ ~Stale /\ ~pending /\ HostBusy /\ Refuse("BUSY")
     \/ initialized /\ ~Stale /\ (pending \/ ~HostBusy) /\ TurnOff("OK")

\* nora_i2c_set_bus_speed: off, new divider, on again; refused on a bus in use.
SetBusSpeed ==
  /\ ~Busy
  /\ Refuse(IF ~initialized THEN "NOT_INITIALIZED"
                             ELSE IF pending \/ HostBusy THEN "BUSY" ELSE "OK")

-----------------------------------------------------------------------------
(* The steps of a call.                                                     *)

Advance == call' = [call EXCEPT !.todo = Tail(@)] /\ waited' = 0
Ends == Len(call.todo) = 1

\* A register step; each clears the status its wait will look at.
Write(step, asked, status) ==
  /\ Busy /\ Step = step /\ Advance /\ req' = asked /\ stat' = status
  /\ UNCHANGED <<role, on, initialized, limits, pending, pendingAge, ret, unclean, host, due, faults>>

\* clear_transfer_status
TransferBits == {"IWCOL", "BCL", "ERR", "STARTE", "STOPE", "NACKE"}

IssueStart == Write("SEN", req \union {"SEN"}, stat \ TransferBits)
IssueRestart == Write("RSEN", req \union {"RSEN"}, stat \ {"STARTE"})
IssueStop == Write("PEN", req \union {"PEN"}, stat \ {"STOPE"})
IssueByte == Write("TRN", req \union {"TRSTAT"},
                   (stat \ {"IWCOL", "NACKE"}) \union (IF host THEN {} ELSE {"IWCOL"}))
IssueRead == Write("RCEN", req \union {"RCEN"}, stat)

\* Reading RCV clears RBF; then the answer.
IssueAck == \/ Write("ACK", (req \ {"ACKDT"}) \union {"ACKEN"}, stat \ {"RBF"})
            \/ Write("NACK", req \union {"ACKDT", "ACKEN"}, stat \ {"RBF"})

Issue == IssueStart \/ IssueRestart \/ IssueStop \/ IssueByte \/ IssueRead \/ IssueAck

\* pending_set
Pend ==
  /\ Busy /\ Step = "pend"
  /\ pending' = TRUE /\ pendingAge' = 0
  /\ IF Ends THEN Return("OK") /\ UNCHANGED waited ELSE Advance /\ UNCHANGED ret
  /\ UNCHANGED <<role, on, initialized, limits, unclean>> /\ UNCHANGED controller

\* A wait that is not a STOP: go on, or try to STOP with the error kept.
Wait ==
  /\ Busy /\ Step \in Waits /\ ~Stopping /\ Result # "waiting"
  /\ IF Result = "OK"
     THEN Advance
     ELSE /\ call' = [call EXCEPT !.todo = Stop, !.status = Result,
                                  !.ending = IF pending THEN "abort" ELSE "quiet"]
          /\ waited' = 0
  /\ UNCHANGED <<role, on, initialized, limits, pending, pendingAge, ret, unclean>>
  /\ UNCHANGED controller

\* What a call returns once its STOP ended with result.
Outcome(result) ==
  CASE call.ending = "quiet"   -> call.status
    [] call.ending = "abort"   -> IF result = "OK" THEN call.status ELSE result
    [] call.ending \in {"recover", "deinit"} -> IF result = "OK" THEN "TIMEOUT" ELSE result
    [] call.ending = "steps"   -> result

\* The pending state is cleared only by a STOP that completed.
StillPending(result) == pending /\ result # "OK"

WaitStop ==
  /\ Busy /\ Stopping /\ Result # "waiting"
  /\ IF call.ending = "deinit"
     THEN TurnOff(Outcome(Result))
     ELSE /\ Return(Outcome(Result))
          /\ pending' = StillPending(Result)
          /\ pendingAge' = IF StillPending(Result) THEN pendingAge ELSE 0
          /\ unclean' = (Result # "OK")
          /\ UNCHANGED <<role, on, initialized, limits, waited>> /\ UNCHANGED controller

\* Mutant of MasterTick: without the wrap of the 32-bit difference.
MasterTickNoWrap ==
  /\ Busy /\ limits.timeout # 0 => waited < limits.timeout
  /\ limits # [timeout |-> 0, pending |-> 0]
  /\ pendingAge' = IF pending /\ limits.pending # 0 THEN pendingAge + 1 ELSE 0
  /\ waited' = IF Busy /\ limits.timeout # 0 THEN waited + 1 ELSE 0
  /\ UNCHANGED <<role, on, initialized, limits, pending, call, ret, unclean>>
  /\ UNCHANGED controller

\* The tick.  A wait polls far faster than the tick, so it sees its timeout.
MasterTick ==
  /\ Busy /\ limits.timeout # 0 => waited < limits.timeout
  /\ limits # [timeout |-> 0, pending |-> 0]
  /\ pendingAge' = IF pending /\ limits.pending # 0 THEN (pendingAge + 1) % TickMod ELSE 0
  /\ waited' = IF Busy /\ limits.timeout # 0 THEN waited + 1 ELSE 0
  /\ UNCHANGED <<role, on, initialized, limits, pending, call, ret, unclean>>
  /\ UNCHANGED controller

-----------------------------------------------------------------------------
(* The host controller and the bus.                                         *)

\* What goes on the bus is checked off against what the call has due.
Hardware(r, s, h, sent) ==
  /\ req' = r /\ stat' = s /\ host' = h
  /\ due' = IF sent = <<>> THEN due
            ELSE IF IsPrefix(sent, due) THEN Tail(due) ELSE Wrong
  /\ UNCHANGED <<role, on, faults>> /\ UNCHANGED engine

\* A START waits for a pending STOP and is ignored by a host that owns the bus.
HwStart == /\ on /\ "SEN" \in req /\ "PEN" \notin req /\ ~host
           /\ Hardware(req \ {"SEN"}, (stat \ {"D_A", "RBF"}) \union {"STARTE", "S"}, TRUE, <<"S">>)

HwRestart == /\ on /\ host /\ "RSEN" \in req
             /\ Hardware(req \ {"RSEN"}, (stat \ {"D_A"}) \union {"STARTE", "S"}, TRUE,
                         <<"Sr">>)

HwByte == /\ on /\ host /\ "TRSTAT" \in req
          /\ \/ Hardware(req \ {"TRSTAT"}, stat \union {"D_A"}, TRUE, <<"byte">>)
             \/ Hardware(req \ {"TRSTAT"}, stat \union {"D_A", "NACKE"}, TRUE, <<"refused">>)

HwRead == /\ on /\ host /\ "RCEN" \in req
          /\ Hardware(req \ {"RCEN"}, stat \union {"RBF"}, TRUE, <<"in">>)

HwAck == /\ on /\ host /\ "ACKEN" \in req
         /\ Hardware(req \ {"ACKEN", "ACKDT"}, stat, TRUE,
                     <<IF "ACKDT" \in req THEN "nack" ELSE "ack">>)

\* STOPE is set before PEN clears and the bus is released; a STOP that retires
\* takes with it what was still asked for.
HwStopEvent == /\ on /\ "PEN" \in req /\ "STOPE" \notin stat
               /\ Hardware(req, stat \union {"STOPE"}, host, <<>>)

HwStopDone == /\ on /\ "PEN" \in req /\ "STOPE" \in stat
              /\ Hardware({}, stat \ {"S", "D_A"}, FALSE,
                          IF host THEN <<"P">> ELSE <<>>)

\* Another host wins the bus, or the bus time-out trips: every request ends.
HwFault == /\ on /\ faults < MaxFaults /\ (host \/ "SEN" \in req)
           /\ \E f \in {"BCL", "ERR"}, kept \in {{}, {"S"}} :
                stat' = (stat \ ({"S"} \ kept)) \union {f}
           /\ req' = {} /\ host' = FALSE /\ faults' = faults + 1
           /\ UNCHANGED <<role, on, due>> /\ UNCHANGED engine

MasterHardware == \/ HwStart \/ HwRestart \/ HwByte \/ HwRead \/ HwAck
                  \/ HwStopEvent \/ HwStopDone \/ HwFault

MasterInitState ==
  /\ role = "none" /\ on = FALSE /\ initialized = FALSE
  /\ limits = [timeout |-> 0, pending |-> 0]
  /\ pending = FALSE /\ pendingAge = 0 /\ call = Idle /\ waited = 0
  /\ req = {} /\ stat = {} /\ host = FALSE /\ due = <<>> /\ faults = 0 /\ unclean = FALSE
  /\ ret = Report("none")

MasterCall ==
  \/ \E op \in Independent \union Continuing, n \in 0..MaxWrite, k \in 1..MaxRead : Transact(op, n, k)
  \/ \E t \in Timeouts, p \in PendingTimeouts : MasterInit(t, p)
  \/ MasterDeinit \/ SetBusSpeed

Thread == Issue \/ Pend \/ Wait \/ WaitStop

MasterNext == MasterCall \/ Thread \/ MasterTick \/ MasterHardware

-----------------------------------------------------------------------------
(* Properties.                                                              *)

Statuses == {"none", "OK", "NOT_INITIALIZED", "BUSY", "SEQUENCE", "TIMEOUT", "NACK", "BUS", "COLLISION"}

MasterTypeOK ==
  /\ role \in Roles /\ {on, initialized, pending, host, unclean} \subseteq BOOLEAN
  /\ pendingAge \in 0..(TickMod - 1) /\ waited \in 0..(TickMod - 1) /\ faults \in 0..MaxFaults
  /\ req \subseteq {"SEN", "RSEN", "PEN", "RCEN", "ACKEN", "ACKDT", "TRSTAT"}
  /\ stat \subseteq {"BCL", "IWCOL", "ERR", "STARTE", "STOPE", "NACKE", "S", "D_A", "RBF"}
  /\ ret \in [status : Statuses, stale : BOOLEAN, clean : BOOLEAN]

\* A call that returns NORA_I2C_OK after it found the bus in order put exactly
\* its own transaction on the bus: no START taken for granted, no byte that was
\* refused or skipped, no STOP that was not sent; and a call that found a
\* stale transaction never returns OK in its place.
OkMeansOnWire ==
  ~Busy /\ ret.status = "OK" => ~ret.stale /\ (ret.clean => due = <<>>)

\* A START is asked for on a bus that this host still owns, or whose STOP has
\* not retired, only after a best-effort STOP failed in a call that left
\* nothing pending: the loss of START that stop_fully_done describes.
StartsOnFreeBus == Busy /\ Step = "SEN" => unclean \/ (~host /\ "PEN" \notin req /\ ~pending)

\* With a timeout configured every blocking call returns, whatever the bus does.
CallsReturn == (Busy /\ limits.timeout # 0) ~> ~Busy

=============================================================================
