-------------------------------- MODULE Console --------------------------------
(***************************************************************************)
(* The command console of fw_command.c with the audio demo it stops and     *)
(* restarts around an update (tdm_smoke.c): line editing, the two update    *)
(* commands, the quiet flag, and the discarding of a plain file that was    *)
(* sent to the console by mistake.                                          *)
(*                                                                          *)
(* The update itself is abstract here: a receive that takes what the UART   *)
(* brings and opens the commit gate or not, and a commit that fails or      *)
(* resets the board (DualPartition has the steps).  The text of a command   *)
(* is one printable token.  Time is the millisecond tick, modulo Wrap.      *)
(***************************************************************************)
EXTENDS Naturals, Sequences

CONSTANTS
    Capacity,    \* COMMAND_LINE_CAPACITY - 1, the longest line
    MaxPerPoll,  \* COMMAND_MAX_BYTES_PER_POLL
    Idle,        \* RAW_FILE_IDLE_MS
    Wrap,        \* the tick counter is modulo Wrap (2^32)
    RingSize,    \* bytes the UART's ring holds
    Kinds,       \* what may arrive on the UART
    MaxBytes     \* bound on the bytes that arrive

Printable == {"*fua5", "*fca5", "*tq0000", "*tq0001", "x"}
Ends      == {"cr", "lf"}

ASSUME ConsoleAssumption ==
    /\ Capacity \in Nat \ {0}
    /\ MaxPerPoll \in Nat \ {0}
    /\ Idle \in Nat \ {0} /\ Wrap \in Nat /\ Wrap > Idle
    /\ Kinds \subseteq Printable \cup Ends \cup {"backspace", "binary"}
    /\ RingSize \in Nat /\ MaxBytes \in Nat

VARIABLES
    ring,      \* received bytes not read yet
    now,       \* the tick
    silent,    \* ticks since the last byte arrived, up to Idle
    burst,     \* bytes no more than Idle apart are of one burst
    arrived,   \* bytes that have arrived
    pc,        \* where the main loop is
    count,     \* bytes read in this poll
    received,  \* one at least
    line,      \* s_line
    lastCr,    \* s_last_was_cr
    quiet,     \* s_quiet
    raw,       \* s_raw_discard
    rawLast,   \* s_raw_last_ms
    verified,  \* the commit gate
    started,   \* tdm_smoke's s_started
    paused,    \* tdm_smoke's s_paused_for_update
    streaming, \* the audio stream runs
    warned,    \* the last restart failed, and the console said so
    spoiled    \* bursts with a byte discarded as part of a plain file

uart == <<ring, now, silent, burst, arrived>>
poll == <<count, received>>
edit == <<line, lastCr>>
file == <<raw, rawLast, spoiled>>
demo == <<started, paused, streaming, warned>>
vars == <<uart, pc, poll, edit, file, quiet, verified, demo>>

(* fw_command_init, after tdm_smoke_init started the demo or did not. *)
Init ==
    /\ ring = <<>> /\ now = 0 /\ silent = Idle /\ burst = 0 /\ arrived = 0
    /\ pc = "main" /\ count = 0 /\ received = FALSE
    /\ line = <<>> /\ lastCr = FALSE
    /\ quiet = FALSE /\ raw = FALSE /\ rawLast = 0 /\ spoiled = {}
    /\ verified = FALSE
    /\ started \in BOOLEAN /\ streaming = started
    /\ paused = FALSE /\ warned = FALSE

-----------------------------------------------------------------------------
(* The UART, which drops a byte that finds its ring full, and the tick. *)
Arrive ==
    /\ arrived < MaxBytes
    /\ arrived' = arrived + 1
    /\ burst' = IF silent = Idle THEN burst + 1 ELSE burst
    /\ silent' = 0
    /\ IF Len(ring) < RingSize
       THEN \E k \in Kinds : ring' = Append(ring, [is |-> k, burst |-> burst'])
       ELSE UNCHANGED ring
    /\ UNCHANGED <<now, pc, poll, edit, file, quiet, verified, demo>>

Tick ==
    /\ now' = (now + 1) % Wrap
    /\ silent' = IF silent = Idle THEN Idle ELSE silent + 1
    /\ UNCHANGED <<ring, burst, arrived, pc, poll, edit, file, quiet, verified, demo>>

-----------------------------------------------------------------------------
(* The audio demo around an update. *)

(* Mutant of Pause: a stop that fails is taken for done. *)
PauseAnyway(stops) ==
    IF paused \/ ~started \/ ~stops
    THEN UNCHANGED demo
    ELSE /\ started' = FALSE /\ paused' = TRUE /\ streaming' = FALSE
         /\ UNCHANGED warned

(* tdm_smoke_pause_for_update: it succeeds with nothing to stop, and        *)
(* otherwise as the stop does.                                              *)
PauseFails(stops) == ~paused /\ started /\ ~stops

Pause(stops) ==
    IF paused \/ ~started
    THEN UNCHANGED demo
    ELSE /\ stops
         /\ started' = FALSE /\ paused' = TRUE /\ streaming' = FALSE
         /\ UNCHANGED warned

(* Mutant of Restart: the demo stays as it is. *)
RestartNever == UNCHANGED demo

(* restart_tdm_after_failed_attempt. *)
Restart ==
    IF ~paused
    THEN UNCHANGED demo
    ELSE \/ /\ started' = TRUE /\ paused' = FALSE /\ streaming' = TRUE
            /\ warned' = FALSE
         \/ warned' = TRUE /\ UNCHANGED <<started, paused, streaming>>

-----------------------------------------------------------------------------
(* fw_command_poll. *)
Poll ==
    /\ pc = "main"
    /\ pc' = "poll"
    /\ count' = 0 /\ received' = FALSE
    /\ UNCHANGED <<uart, edit, file, quiet, verified, demo>>

Reads ==
    /\ pc = "poll" /\ count < MaxPerPoll /\ ring # <<>>
    /\ ring' = Tail(ring)
    /\ count' = count + 1
    /\ received' = TRUE
    /\ UNCHANGED <<now, silent, burst, arrived>>

(* Mutant of Discard: the time of the last byte is not kept up to date. *)
DiscardUntimed ==
    /\ Reads /\ raw
    /\ spoiled' = spoiled \cup {Head(ring).burst}
    /\ UNCHANGED <<pc, edit, raw, rawLast, quiet, verified, demo>>

Discard ==
    /\ Reads /\ raw
    /\ rawLast' = now
    /\ spoiled' = spoiled \cup {Head(ring).burst}
    /\ UNCHANGED <<pc, edit, raw, quiet, verified, demo>>

(* begin_raw_file_discard. *)
BeginDiscard(b) ==
    /\ line' = <<>>
    /\ raw' = TRUE /\ rawLast' = now
    /\ spoiled' = spoiled \cup {b.burst}

LineIsFull == Len(line) >= Capacity

(* feed_normal_byte of anything but an end of line. *)
Feed ==
    /\ Reads /\ ~raw
    /\ LET b == Head(ring) IN
       /\ b.is \notin Ends
       /\ lastCr' = FALSE
       /\ IF b.is = "backspace"
          THEN /\ line' = IF line = <<>> THEN line ELSE SubSeq(line, 1, Len(line) - 1)
               /\ UNCHANGED file
          ELSE IF b.is = "binary" \/ LineIsFull
          THEN BeginDiscard(b)
          ELSE line' = Append(line, b) /\ UNCHANGED file
    /\ UNCHANGED <<pc, quiet, verified, demo>>

(* The LF of a CR LF. *)
SkipLf ==
    /\ Reads /\ ~raw
    /\ Head(ring).is = "lf" /\ lastCr
    /\ lastCr' = FALSE
    /\ UNCHANGED <<pc, line, file, quiet, verified, demo>>

(* An end of line: process_line, then line_reset once that returns. *)
EndOfLine(command) ==
    /\ Reads /\ ~raw
    /\ Head(ring).is \in Ends /\ ~(Head(ring).is = "lf" /\ lastCr)
    /\ lastCr' = (Head(ring).is = "cr")
    /\ IF Len(line) = 1 THEN line[1].is = command ELSE command = "x"

Ignore ==
    /\ EndOfLine("x")
    /\ line' = <<>>
    /\ UNCHANGED <<pc, file, quiet, verified, demo>>

SetQuiet(command, to) ==
    /\ EndOfLine(command)
    /\ quiet' = to
    /\ line' = <<>>
    /\ UNCHANGED <<pc, file, verified, demo>>

QuietOn  == SetQuiet("*tq0000", TRUE)
QuietOff == SetQuiet("*tq0001", FALSE)

(* receive_firmware: refused when the demo cannot be stopped. *)
ReceiveRefused ==
    /\ EndOfLine("*fua5")
    /\ PauseFails(FALSE)
    /\ quiet' = FALSE
    /\ line' = <<>>
    /\ UNCHANGED <<pc, file, verified, demo>>

ReceiveBegins ==
    /\ EndOfLine("*fua5")
    /\ \E stops \in BOOLEAN : Pause(stops)
    /\ quiet' = TRUE
    /\ verified' = FALSE
    /\ pc' = "receive"
    /\ UNCHANGED <<line, file>>

ReceiveTakes ==
    /\ pc = "receive" /\ ring # <<>>
    /\ ring' = Tail(ring)
    /\ UNCHANGED <<now, silent, burst, arrived, pc, poll, edit, file, quiet, verified, demo>>

ReceiveEnds ==
    /\ pc = "receive"
    /\ verified' \in BOOLEAN
    /\ IF verified' THEN UNCHANGED demo ELSE Restart
    /\ pc' = "poll" /\ line' = <<>>
    /\ UNCHANGED <<uart, poll, lastCr, file, quiet>>

(* commit_firmware: refused without a validated image. *)
CommitRefused ==
    /\ EndOfLine("*fca5") /\ ~verified
    /\ line' = <<>>
    /\ UNCHANGED <<pc, file, quiet, verified, demo>>

CommitBegins ==
    /\ EndOfLine("*fca5") /\ verified
    /\ verified' = FALSE
    /\ pc' = "commit"
    /\ UNCHANGED <<line, file, quiet, demo>>

CommitFails ==
    /\ pc = "commit"
    /\ Restart
    /\ pc' = "poll" /\ line' = <<>>
    /\ UNCHANGED <<uart, poll, lastCr, file, quiet, verified>>

(* The board resets into the new image. *)
CommitResets ==
    /\ pc = "commit"
    /\ ring' = <<>> /\ now' = 0
    /\ pc' = "main" /\ count' = 0 /\ received' = FALSE
    /\ line' = <<>> /\ lastCr' = FALSE
    /\ quiet' = FALSE /\ raw' = FALSE /\ rawLast' = 0
    /\ started' \in BOOLEAN /\ streaming' = started'
    /\ paused' = FALSE /\ warned' = FALSE
    /\ UNCHANGED <<silent, burst, arrived, spoiled, verified>>

(* Mutant of Elapsed: the tick is taken not to wrap. *)
ElapsedNoWrap == IF now >= rawLast THEN now - rawLast ELSE 0

Elapsed == (now + Wrap - rawLast) % Wrap

(* The poll has read what it may; a discarded file has ended when nothing   *)
(* was read for Idle.                                                       *)
FileEnded == raw /\ ~received /\ Elapsed >= Idle

PollEnds ==
    /\ pc = "poll" /\ (count = MaxPerPoll \/ ring = <<>>)
    /\ pc' = IF FileEnded THEN "clear" ELSE "main"
    /\ UNCHANGED <<uart, poll, edit, file, quiet, verified, demo>>

DiscardEnds ==
    /\ pc = "clear"
    /\ ring' = <<>>
    /\ raw' = FALSE /\ lastCr' = FALSE
    /\ pc' = "main"
    /\ UNCHANGED <<now, silent, burst, arrived, poll, line, rawLast, spoiled,
                   quiet, verified, demo>>

Commands ==
    \/ Ignore \/ QuietOn \/ QuietOff
    \/ ReceiveRefused \/ ReceiveBegins \/ CommitRefused \/ CommitBegins

Loop ==
    \/ Poll \/ Discard \/ Feed \/ SkipLf \/ Commands
    \/ ReceiveTakes \/ ReceiveEnds \/ CommitFails \/ CommitResets
    \/ PollEnds \/ DiscardEnds

Next == Arrive \/ Tick \/ Loop

(* The loop goes on, an update ends (Xmodem!Terminates), the tick runs.     *)
(* The loop is fast against the wrap of the tick, so it does not miss every *)
(* moment at which a file can be seen to have ended.                        *)
Spec ==
    /\ Init /\ [][Next]_vars
    /\ WF_vars(Tick) /\ WF_vars(Loop) /\ WF_vars(ReceiveEnds)
    /\ SF_vars(Poll /\ Elapsed >= Idle) /\ SF_vars(PollEnds /\ FileEnded)
-----------------------------------------------------------------------------
(* Properties. *)

Bursts == 0 .. MaxBytes
Byte   == [is : Kinds, burst : Bursts]

(* Every variable has its type; a line fits its buffer. *)
TypeOK ==
    /\ ring \in Seq(Byte)
    /\ now \in 0 .. Wrap - 1 /\ silent \in 0 .. Idle
    /\ burst \in Bursts /\ arrived \in 0 .. MaxBytes
    /\ pc \in {"main", "poll", "clear", "receive", "commit"}
    /\ count \in 0 .. MaxPerPoll /\ received \in BOOLEAN
    /\ line \in Seq(Byte) /\ Len(line) <= Capacity
    /\ lastCr \in BOOLEAN /\ quiet \in BOOLEAN
    /\ raw \in BOOLEAN /\ rawLast \in 0 .. Wrap - 1
    /\ verified \in BOOLEAN
    /\ started \in BOOLEAN /\ paused \in BOOLEAN /\ streaming \in BOOLEAN
    /\ warned \in BOOLEAN
    /\ spoiled \subseteq Bursts

(* The audio stream stands still while flash is written: the commit relies  *)
(* on the pause of the receive before it, which nothing in between undoes.  *)
FlashIsUndisturbed == pc \in {"receive", "commit"} => ~streaming

(* The demo is not left dead in silence: while it is paused and no image    *)
(* waits for its commit, the console has warned of a restart that failed.   *)
DemoComesBack == pc \in {"main", "poll"} /\ paused /\ ~verified => warned

(* Once a byte of a plain file was discarded, no later byte of the same     *)
(* file becomes part of a command, however the polls fall; and the line     *)
(* stays within its buffer.                                                 *)
LineIsTyped ==
    /\ TypeOK
    /\ \A i \in 1 .. Len(line) : line[i].burst \notin spoiled

(* The discarding ends, across a wrap of the tick too.                      *)
ConsoleComesBack == raw ~> ~raw

(* fw_command.c:188-190: only *tq0001 or a reset brings periodic output     *)
(* back.                                                                    *)
QuietIsOneWay == [][quiet /\ ~quiet' => QuietOff \/ CommitResets]_vars
=============================================================================
