---------------------------- MODULE DualPartition ----------------------------
(***************************************************************************)
(* The serial A/B firmware update of fw_update.c and fw_btseq.c over the    *)
(* two flash partitions: receive a package into the inactive partition row  *)
(* by row, arm the commit gate after the read-back, stamp a lower BTSEQ and *)
(* reset into the new image.                                                *)
(*                                                                          *)
(* Power may be lost between any two steps and in the middle of any flash   *)
(* operation; a bounded number of flash operations misbehave.  The transfer *)
(* itself is the in-order block stream that module Xmodem establishes.      *)
(*                                                                          *)
(* Data abstractions.  A cell is the unit the sink consumes: a row is       *)
(* RowCells cells and the 16-byte manifest is one.  A CRC is the sequence   *)
(* it was computed over, so two CRCs agree exactly when the data does.      *)
(***************************************************************************)
EXTENDS Btseq, Sequences, FiniteSets

CONSTANTS
    RowCells,     \* cells in one flash row (NORA_NVM_ROW_BYTES)
    PageRows,     \* rows in one erase page
    Pages,        \* pages in one partition
    Files,        \* the packages a host may send
    Images,       \* the released images, as sequences of cells
    BlockSizes,   \* cells in an XMODEM block
    MaxPad,       \* FW_PACKAGE_MAX_TRAILING_PAD
    UcaWords,     \* configuration areas a partition may have been given
    MaxFaults     \* bound on misbehaving flash operations

Erased == "erased"   \* a virgin cell
Pad    == "pad"      \* a cell programmed with 0xFF
Fill   == "fill"     \* the sender's block padding (0x1A)
Junk   == "junk"     \* a cell no program operation completed on

Parts      == {1, 2}
Other(p)   == 3 - p
PageCells  == RowCells * PageRows
PartCells  == PageCells * Pages
Cells      == 0 .. PartCells - 1
LastRow    == PartCells - RowCells      \* the row that holds the BTSEQ word
FinalPage  == PartCells - PageCells     \* the page that holds it

(* Mutant of MaxImage: the cap forgets the row that holds the BTSEQ word. *)
MaxImageWholePartition == PartCells

MaxImage   == PartCells - RowCells      \* FW_MAX_IMAGE_BYTES
Span(first, n) == first .. first + n - 1

Data == UNION {{k[i] : i \in 1 .. Len(k)} : k \in Images}
CellValues == Data \cup {Erased, Pad, Fill, Junk}

ASSUME GeometryAssumption ==
    /\ RowCells \in Nat \ {0}
    /\ PageRows \in Nat \ {0}
    /\ Pages \in Nat \ {0}
    /\ BlockSizes \subseteq Nat \ {0}
    /\ MaxPad \in Nat
    /\ MaxFaults \in Nat

ASSUME ImagesAssumption ==
    \A k \in Images :
        /\ k \in Seq(Data)
        /\ Len(k) > 0
        /\ Len(k) <= MaxImage
        /\ \A i \in 1 .. Len(k) : k[i] \notin {Erased, Pad, Fill, Junk}

(* A package is its manifest fields and the payload cells that follow.  The *)
(* packaging tool writes a CRC with its complement only for an image it was *)
(* given.                                                                   *)
ASSUME FilesAssumption ==
    \A f \in Files :
        /\ f \in [format : BOOLEAN, len : Nat, crc : Seq(CellValues),
                  complement : BOOLEAN, data : Seq(Data \cup {Fill})]
        /\ f.complement => f.crc \in Images

ASSUME UcaAssumption ==
    UcaWords \subseteq [alti2c2 : BOOLEAN, bootswp : BOOLEAN,
                        erased : BOOLEAN, backup : BOOLEAN]

VARIABLES
    cells,      \* per partition, the flash cells
    btseq,      \* per partition, the BTSEQ word of its last row
    uca,        \* per partition, the user configuration area
    active,     \* the partition that booted (P2ACTIV)
    pc,         \* where the foreground is
    file,       \* the package the host is sending
    left,       \* cells of the current XMODEM block still to consume
    hdr,        \* the manifest is complete (hdr_fill = 16)
    pay,        \* payload cells accepted (payload_seen, payload_crc)
    row,        \* row.b[0 .. row_fill)
    base,       \* row_base_off
    img,        \* the cells img_crc ran over
    pad,        \* trailing_pad
    caller,     \* which function called fw_flush_row
    status,     \* fw_ctx_t.status
    verified,   \* s_last_receive_good
    next,       \* the BTSEQ number being stamped
    commit,     \* what the last fw_commit returned
    faults,     \* flash operations that misbehaved so far
    exposed     \* the roll-back of a stamp was cut short or failed

nonvolatile == <<cells, btseq, uca>>
context     == <<file, left, hdr, pay, row, base, img, pad, caller>>
vars == <<cells, btseq, uca, active, pc, file, left, hdr, pay, row, base, img,
          pad, caller, status, verified, next, commit, faults, exposed>>

Inactive == Other(active)

(* Both partitions' words decide the boot: the lower number, partition 1 on *)
(* a tie, an invalid word counting as the highest (fw_btseq.h).             *)
Selected(words) == IF SeqOf(words[2]) < SeqOf(words[1]) THEN 2 ELSE 1

(* fw_uca_validate. *)
UcaStatus(u) ==
    IF ~(u.alti2c2 /\ u.bootswp /\ u.erased) THEN "MISMATCH"
    ELSE IF ~u.backup THEN "BACKUP" ELSE "OK"

(* A read returns all ones for a virgin cell and for one programmed so. *)
Reads(c) == IF c = Erased THEN Pad ELSE c

Holds(p, k) == \A i \in 1 .. Len(k) : cells[p][i - 1] = k[i]
Intact(p)   == \E k \in Images : Holds(p, k)

-----------------------------------------------------------------------------
(* Flash operations.  A sound one completes with status OK.  A faulty one   *)
(* leaves every cell as it was, spoiled, or done.  It reports WRERR, or, if *)
(* it is a program operation, nothing: the code reads back what it          *)
(* programs, and takes an erase that reports no error as done.              *)

Modes           == {"kept", "spoiled", "done"}
Sound           == [mode |-> "done", ok |-> TRUE]
ProgramOutcomes == [mode : Modes, ok : BOOLEAN]
EraseOutcomes   == [mode : Modes, ok : {FALSE}] \cup {Sound}

MayHappen(o) ==
    /\ o = Sound \/ faults < MaxFaults
    /\ faults' = IF o = Sound THEN faults ELSE faults + 1

(* nora_nvm_page_erase of the page of partition p that starts at first. *)
ErasePage(p, first, mode) ==
    /\ cells' = [cells EXCEPT ![p] = [i \in Cells |->
           IF i \notin Span(first, PageCells) \/ mode = "kept"
           THEN cells[p][i]
           ELSE IF mode = "done" THEN Erased ELSE Junk]]
    /\ \E w \in IF mode = "done" THEN {BlankWord} ELSE PartlyErased(btseq[p]) :
           btseq' = IF first = FinalPage THEN [btseq EXCEPT ![p] = w] ELSE btseq

(* nora_nvm_row_program: a cell that is not virgin is spoiled (ECC), and    *)
(* the last row takes the BTSEQ word with it.                               *)
ProgramRow(p, first, data, mode) ==
    /\ cells' = [cells EXCEPT ![p] = [i \in Cells |->
           IF i \notin Span(first, RowCells) \/ mode = "kept"
           THEN cells[p][i]
           ELSE IF mode = "done" /\ cells[p][i] = Erased
                THEN data[i - first + 1] ELSE Junk]]
    /\ \E w \in Words :
           btseq' = IF first = LastRow THEN [btseq EXCEPT ![p] = w] ELSE btseq

(* A faulty row program may instead disturb a cell of an earlier row. *)
DisturbCell(p, first, data) ==
    /\ \E i \in 0 .. first - 1 :
           cells' = [cells EXCEPT ![p] = [j \in Cells |->
               IF j = i THEN Junk
               ELSE IF j \in Span(first, RowCells) THEN data[j - first + 1]
               ELSE cells[p][j]]]
    /\ UNCHANGED btseq

(* nora_nvm_word_program of the BTSEQ word. *)
ProgramWord(p, word, mode) ==
    /\ \E w \in IF mode = "done" THEN Programmed(btseq[p], word)
                ELSE PartlyProgrammed(btseq[p], word) :
           btseq' = [btseq EXCEPT ![p] = w]
    /\ UNCHANGED cells

-----------------------------------------------------------------------------
NoFile == [format |-> FALSE, len |-> 0, crc |-> <<>>, complement |-> FALSE,
           data |-> <<>>]

RamCleared ==
    /\ file = NoFile /\ left = 0 /\ hdr = FALSE /\ pay = <<>> /\ row = <<>>
    /\ base = 0 /\ img = <<>> /\ pad = 0 /\ caller = "sink" /\ status = "OK"
    /\ verified = FALSE /\ next = 0 /\ commit = "NONE"

(* A board as it leaves provisioning or an earlier update: it runs an       *)
(* intact image from the partition its words select; the other partition    *)
(* holds an image or nothing.                                               *)
Load(k) == [i \in Cells |-> IF i < Len(k) THEN k[i + 1] ELSE Erased]

Init ==
    /\ \E k \in Images, old \in Images \cup {<<>>} :
         /\ btseq \in [Parts -> {BlankWord} \cup {Encode(s) : s \in Seqs}]
         /\ active = Selected(btseq)
         /\ cells = [p \in Parts |->
                        IF p = active THEN Load(k) ELSE Load(old)]
    /\ uca \in [Parts -> UcaWords]
    /\ UcaStatus(uca[active]) = "OK"
    /\ pc = "idle"
    /\ RamCleared
    /\ faults = 0
    /\ exposed = FALSE

-----------------------------------------------------------------------------
(* fw_ctx_reset, with no package or another one on the way. *)
ContextReset(f) ==
    /\ file' = f /\ left' = 0 /\ hdr' = FALSE /\ pay' = <<>> /\ row' = <<>>
    /\ base' = 0 /\ img' = <<>> /\ pad' = 0 /\ caller' = "sink"

(* fw_update_receive: reset the context and the gate, start the transfer. *)
Receive(f) ==
    /\ pc = "idle"
    /\ ContextReset(f)
    /\ status' = "OK"
    /\ verified' = FALSE
    /\ pc' = "rx"
    /\ commit' = "NONE"
    /\ UNCHANGED <<nonvolatile, active, next, faults, exposed>>

(* fw_update_receive's tail: the gate is the final status.  Nothing reads   *)
(* the context again before the next fw_ctx_reset, so it ends here.         *)
Return(s) ==
    /\ status' = s
    /\ verified' = (s = "OK")
    /\ pc' = "idle"
    /\ ContextReset(NoFile)

(* xmodem_receive hands the sink one block. *)
Block(n) ==
    /\ pc = "rx"
    /\ left' = n
    /\ pc' = "sink"
    /\ UNCHANGED <<nonvolatile, active, file, hdr, pay, row, base, img, pad,
                   caller, status, verified, next, commit, faults, exposed>>

(* The transfer ends: by EOT, early or not, or with a transport error.  An  *)
(* EOT before any block is not a transfer.                                  *)
TransferFails ==
    /\ pc = "rx"
    /\ Return("XMODEM")
    /\ UNCHANGED <<nonvolatile, active, next, commit, faults, exposed>>

EndOfTransfer ==
    /\ pc = "rx" /\ hdr
    /\ pc' = "finalize"
    /\ UNCHANGED <<nonvolatile, active, context, status, verified, next, commit,
                   faults, exposed>>

(* fw_sink consumes the manifest and validates it. *)
HeaderStatus(f) ==
    IF ~f.format \/ f.len = 0 THEN "IMAGE_FORMAT"
    ELSE IF f.len > MaxImage THEN "OVERFLOW"
    ELSE IF ~f.complement THEN "IMAGE_CRC" ELSE "OK"

SinkHeader ==
    /\ pc = "sink" /\ left > 0 /\ ~hdr
    /\ IF HeaderStatus(file) = "OK"
       THEN /\ hdr' = TRUE
            /\ left' = left - 1
            /\ UNCHANGED <<file, pay, row, base, img, pad, caller, status,
                           verified, pc>>
       ELSE Return(HeaderStatus(file))
    /\ UNCHANGED <<nonvolatile, active, next, commit, faults, exposed>>

(* ... a payload cell, flushing the row when it is full ... *)
NextCell == IF Len(pay) < Len(file.data) THEN file.data[Len(pay) + 1] ELSE Fill

FlushStart == IF base % PageCells = 0 THEN "erase" ELSE "program"

SinkPayload ==
    /\ pc = "sink" /\ left > 0 /\ hdr
    /\ Len(pay) < file.len
    /\ pay' = Append(pay, NextCell)
    /\ row' = Append(row, NextCell)
    /\ left' = left - 1
    /\ pc' = IF Len(row') = RowCells THEN FlushStart ELSE "sink"
    /\ UNCHANGED <<nonvolatile, active, file, hdr, base, img, pad, caller, status,
                   verified, next, commit, faults, exposed>>

(* ... or a cell of block padding, discarded up to a bound. *)
SinkPadding ==
    /\ pc = "sink" /\ left > 0 /\ hdr
    /\ Len(pay) >= file.len
    /\ IF pad < MaxPad
       THEN /\ pad' = pad + 1
            /\ left' = left - 1
            /\ UNCHANGED <<file, hdr, pay, row, base, img, caller, status,
                           verified, pc>>
       ELSE Return("IMAGE_FORMAT")
    /\ UNCHANGED <<nonvolatile, active, next, commit, faults, exposed>>

SinkReturns ==
    /\ pc = "sink" /\ left = 0
    /\ pc' = "rx"
    /\ UNCHANGED <<nonvolatile, active, context, status, verified, next, commit,
                   faults, exposed>>

-----------------------------------------------------------------------------
(* fw_flush_row: erase the page its first row opens, program the row, read  *)
(* it back.                                                                 *)
FlushFails == Return("NVM")

FlushErase ==
    /\ pc = "erase"
    /\ \E o \in EraseOutcomes :
         /\ MayHappen(o)
         /\ ErasePage(Inactive, base, o.mode)
         /\ IF o.ok THEN pc' = "program" /\ UNCHANGED <<context, status, verified>>
                    ELSE FlushFails
    /\ UNCHANGED <<uca, active, next, commit, exposed>>

FlushProgram ==
    /\ pc = "program"
    /\ \E o \in ProgramOutcomes :
         /\ MayHappen(o)
         /\ \/ ProgramRow(Inactive, base, row, o.mode)
            \/ o # Sound /\ DisturbCell(Inactive, base, row)
         /\ IF o.ok THEN pc' = "verify" /\ UNCHANGED <<context, status, verified>>
                    ELSE FlushFails
    /\ UNCHANGED <<uca, active, next, commit, exposed>>

RowReadsBack ==
    \A i \in 1 .. RowCells : Reads(cells[Inactive][base + i - 1]) = Reads(row[i])

(* Mutant of FlushVerify: row_fill is not reset. *)
FlushVerifyKeepsRow ==
    /\ pc = "verify"
    /\ IF RowReadsBack
       THEN /\ img' = img \o row
            /\ base' = base + RowCells
            /\ pc' = IF caller = "sink" THEN "sink" ELSE "readback"
            /\ UNCHANGED <<file, left, hdr, pay, row, pad, caller, status, verified>>
       ELSE FlushFails
    /\ UNCHANGED <<nonvolatile, active, next, commit, faults, exposed>>

FlushVerify ==
    /\ pc = "verify"
    /\ IF RowReadsBack
       THEN /\ img' = img \o row
            /\ base' = base + RowCells
            /\ row' = <<>>
            /\ pc' = IF caller = "sink" THEN "sink" ELSE "readback"
            /\ UNCHANGED <<file, left, hdr, pay, pad, caller, status, verified>>
       ELSE FlushFails
    /\ UNCHANGED <<nonvolatile, active, next, commit, faults, exposed>>

-----------------------------------------------------------------------------
(* fw_finalize: fw_validate_package, then the last partial row (filled up   *)
(* with 0xFF), then the read-back of everything programmed.                 *)
(* Mutant of PackageStatus: a truncated payload passes. *)
PackageStatusAny == "OK"

PackageStatus ==
    IF Len(pay) # file.len THEN "IMAGE_FORMAT"
    ELSE IF pay # file.crc THEN "IMAGE_CRC" ELSE "OK"

Padded(r) == [i \in 1 .. RowCells |-> IF i <= Len(r) THEN r[i] ELSE Pad]

Finalize ==
    /\ pc = "finalize"
    /\ IF PackageStatus # "OK"
       THEN Return(PackageStatus)
       ELSE /\ IF row = <<>>
               THEN pc' = "readback" /\ UNCHANGED <<row, caller>>
               ELSE /\ row' = Padded(row)
                    /\ caller' = "finalize"
                    /\ pc' = FlushStart
            /\ UNCHANGED <<file, left, hdr, pay, base, img, pad, status, verified>>
    /\ UNCHANGED <<nonvolatile, active, next, commit, faults, exposed>>

(* fw_readback_crc: the CRC of the programmed span against the running one. *)
(* Mutant of ImageReadsBack: the final read-back is skipped. *)
ImageReadsBackSkipped == TRUE

ImageReadsBack ==
    \A i \in 1 .. base : Reads(cells[Inactive][i - 1]) = Reads(img[i])

Readback ==
    /\ pc = "readback"
    /\ Return(IF ImageReadsBack THEN "OK" ELSE "READBACK")
    /\ UNCHANGED <<nonvolatile, active, next, commit, faults, exposed>>

-----------------------------------------------------------------------------
(* fw_commit up to its first flash operation: claim the gate, check the     *)
(* target's configuration area, choose the number, find the word virgin or  *)
(* not.                                                                     *)
(* Mutants of CommitStatus: without the claim of the gate, or without the   *)
(* check of the target's configuration area.                                *)
CommitStatusUngated ==
    IF UcaStatus(uca[Inactive]) # "OK" THEN "UCA"
    ELSE IF SeqOf(btseq[active]) = 0 THEN "WRAP" ELSE "OK"

CommitStatusAnyUca ==
    IF ~verified THEN "NOT_VERIFIED"
    ELSE IF SeqOf(btseq[active]) = 0 THEN "WRAP" ELSE "OK"

CommitStatus ==
    IF ~verified THEN "NOT_VERIFIED"
    ELSE IF UcaStatus(uca[Inactive]) # "OK" THEN "UCA"
    ELSE IF SeqOf(btseq[active]) = 0 THEN "WRAP" ELSE "OK"

CommitReturns(s) == commit' = s /\ next' = 0 /\ pc' = "idle"

(* Mutant of CommitBegin: the final page is not erased. *)
CommitBeginProgramsOver ==
    /\ pc = "idle"
    /\ verified' = FALSE
    /\ IF CommitStatus # "OK"
       THEN CommitReturns(CommitStatus)
       ELSE /\ next' = NextSeq(SeqOf(btseq[active]))
            /\ pc' = "commitProgram"
            /\ UNCHANGED commit
    /\ UNCHANGED <<nonvolatile, active, context, status, faults, exposed>>

CommitBegin ==
    /\ pc = "idle"
    /\ verified' = FALSE
    /\ IF CommitStatus # "OK"
       THEN CommitReturns(CommitStatus)
       ELSE /\ next' = NextSeq(SeqOf(btseq[active]))
            /\ pc' = IF btseq[Inactive] = BlankWord
                     THEN "commitProgram" ELSE "commitErase"
            /\ UNCHANGED commit
    /\ UNCHANGED <<nonvolatile, active, context, status, faults, exposed>>

CommitErase ==
    /\ pc = "commitErase"
    /\ \E o \in EraseOutcomes :
         /\ MayHappen(o)
         /\ ErasePage(Inactive, FinalPage, o.mode)
         /\ IF o.ok THEN pc' = "commitProgram" /\ UNCHANGED <<next, commit>>
                    ELSE CommitReturns("NVM")
    /\ UNCHANGED <<uca, active, context, status, verified, exposed>>

(* Mutant of CommitProgram: a program error returns without the roll-back. *)
CommitProgramNoRollback ==
    /\ pc = "commitProgram"
    /\ \E o \in ProgramOutcomes :
         /\ MayHappen(o)
         /\ ProgramWord(Inactive, Encode(next), o.mode)
         /\ IF o.ok THEN pc' = "commitVerify" /\ UNCHANGED <<next, commit>>
                    ELSE CommitReturns("NVM")
    /\ UNCHANGED <<uca, active, context, status, verified, exposed>>

(* A failure from here on goes through the roll-back; commit holds what to  *)
(* return if that succeeds.                                                 *)
CommitProgram ==
    /\ pc = "commitProgram"
    /\ \E o \in ProgramOutcomes :
         /\ MayHappen(o)
         /\ ProgramWord(Inactive, Encode(next), o.mode)
         /\ IF o.ok THEN pc' = "commitVerify" /\ UNCHANGED commit
                    ELSE pc' = "rollback" /\ commit' = "NVM"
    /\ UNCHANGED <<uca, active, context, status, verified, next, exposed>>

CommitVerify ==
    /\ pc = "commitVerify"
    /\ IF btseq[Inactive] = Encode(next)
       THEN pc' = "reset" /\ UNCHANGED commit
       ELSE pc' = "rollback" /\ commit' = "VERIFY"
    /\ UNCHANGED <<nonvolatile, active, context, status, verified, next, faults, exposed>>

(* fw_invalidate_inactive_btseq. *)
Rollback ==
    /\ pc = "rollback"
    /\ \E o \in EraseOutcomes :
         /\ MayHappen(o)
         /\ ErasePage(Inactive, FinalPage, o.mode)
         /\ IF o.ok /\ btseq'[Inactive] = BlankWord
            THEN CommitReturns(commit) /\ UNCHANGED exposed
            ELSE CommitReturns("ROLLBACK") /\ exposed' = TRUE
    /\ UNCHANGED <<uca, active, context, status, verified>>

(* fw_sys_reset, and any other reset or loss of power outside a flash       *)
(* operation.                                                               *)
PowerOff ==
    /\ pc' = "off"
    /\ ContextReset(NoFile)
    /\ status' = "OK" /\ verified' = FALSE /\ next' = 0 /\ commit' = "NONE"
    /\ UNCHANGED <<uca, active, faults>>

CommitReset ==
    /\ pc = "reset"
    /\ PowerOff
    /\ UNCHANGED <<cells, btseq, exposed>>

LosePower ==
    /\ pc \notin {"off", "dead"}
    /\ PowerOff
    /\ UNCHANGED <<cells, btseq, exposed>>

(* Power lost inside a flash operation leaves it partly done. *)
LosePowerInOperation ==
    /\ PowerOff
    /\ \E mode \in Modes :
         \/ pc = "erase" /\ ErasePage(Inactive, base, mode)
         \/ pc = "program" /\ ProgramRow(Inactive, base, row, mode)
         \/ pc \in {"commitErase", "rollback"}
               /\ ErasePage(Inactive, FinalPage, mode)
         \/ pc = "commitProgram"
               /\ ProgramWord(Inactive, Encode(next), mode)
    /\ exposed' = (exposed \/ pc = "rollback")

(* The boot logic selects a partition; a board whose selected partition has *)
(* no intact image is dead.                                                 *)
Boot ==
    /\ pc = "off"
    /\ active' = Selected(btseq)
    /\ pc' = IF Intact(Selected(btseq)) THEN "idle" ELSE "dead"
    /\ UNCHANGED <<nonvolatile, context, status, verified, next, commit, faults,
                   exposed>>

Next ==
    \/ \E f \in Files : Receive(f)
    \/ \E n \in BlockSizes : Block(n)
    \/ TransferFails \/ EndOfTransfer
    \/ SinkHeader \/ SinkPayload \/ SinkPadding \/ SinkReturns
    \/ FlushErase \/ FlushProgram \/ FlushVerify
    \/ Finalize \/ Readback
    \/ CommitBegin \/ CommitErase \/ CommitProgram \/ CommitVerify
    \/ Rollback \/ CommitReset
    \/ LosePower \/ LosePowerInOperation \/ Boot

Spec == Init /\ [][Next]_vars
-----------------------------------------------------------------------------
(* Properties. *)

Pcs == {"idle", "rx", "sink", "erase", "program", "verify", "finalize",
        "readback", "commitErase", "commitProgram", "commitVerify",
        "rollback", "reset", "off", "dead"}

Statuses == {"OK", "XMODEM", "IMAGE_FORMAT", "OVERFLOW", "IMAGE_CRC", "NVM",
             "READBACK"}

CommitStatuses == {"NONE", "NOT_VERIFIED", "UCA", "WRAP", "NVM", "VERIFY",
                   "ROLLBACK"}

(* Every variable has its type; no row buffer is longer than a row. *)
TypeOK ==
    /\ cells \in [Parts -> [Cells -> CellValues]]
    /\ btseq \in [Parts -> Words]
    /\ uca \in [Parts -> UcaWords]
    /\ active \in Parts
    /\ pc \in Pcs
    /\ file \in Files \cup {NoFile}
    /\ left \in Nat
    /\ hdr \in BOOLEAN
    /\ pay \in Seq(Data \cup {Fill})
    /\ row \in Seq(Data \cup {Fill, Pad})
    /\ Len(row) <= RowCells
    /\ base \in Nat
    /\ img \in Seq(Data \cup {Fill, Pad})
    /\ pad \in 0 .. MaxPad
    /\ caller \in {"sink", "finalize"}
    /\ status \in Statuses
    /\ verified \in BOOLEAN
    /\ next \in Seqs
    /\ commit \in CommitStatuses
    /\ faults \in 0 .. MaxFaults
    /\ exposed \in BOOLEAN

(* Whatever happens, a reset boots a partition that holds a complete        *)
(* released image, unless a roll-back of the BTSEQ stamp itself was cut      *)
(* short or failed, which fw_command.c reports as "do not reset".           *)
BootIsIntact == ~exposed => Intact(Selected(btseq))

(* Until the stamp is programmed, and after every fw_commit that returned,  *)
(* the partition a reset would select is the running one: the "current      *)
(* partition remains selected" that fw_command.c prints.                    *)
ActiveSelected ==
    ~exposed /\ pc \notin {"commitVerify", "rollback", "reset", "off", "dead"}
        => Selected(btseq) = active

(* A commit that returns leaves the running partition selected, as the      *)
(* header says of every failure (fw_btseq.h:77-80) ...                      *)
FailedCommitKeepsActive ==
    pc = "idle" /\ commit # "NONE" => Selected(btseq) = active

(* The gate, and the commit it admits, stand on a released image that is in *)
(* the inactive flash in full, up to the moment the board resets into it:   *)
(* step 3's erase of the final page never reaches it.                       *)
VerifiedImageIntact ==
    verified \/ pc \in {"commitErase", "commitProgram", "commitVerify", "reset"}
        => Intact(Inactive)

(* A flash word is programmed once per erase (nora_nvm.h): whenever a row or *)
(* the stamp is about to be programmed, all of it is virgin.                *)
ProgramsVirgin ==
    /\ pc = "program" => \A i \in Span(base, RowCells) : cells[Inactive][i] = Erased
    /\ pc = "commitProgram" => btseq[Inactive] = BlankWord

(* The board changes to a partition only if its configuration area is       *)
(* provisioned: a swap never changes the board's pin configuration.         *)
SwapOnlyProvisioned ==
    [][active' # active => UcaStatus(uca[active']) = "OK"]_vars

(* Only a commit makes a word valid: neither a receive, whatever happens to *)
(* its flash operations, nor an erase cut short brings a number into being. *)
OnlyCommitStamps ==
    [][\A p \in Parts :
          Valid(btseq[p]') /\ SeqOf(btseq[p]') # SeqOf(btseq[p])
              => pc = "commitProgram" /\ p = Inactive]_vars
=============================================================================
