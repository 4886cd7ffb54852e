------------------------- MODULE DualPartitionProofs -------------------------
(* What modules Btseq, DualPartition and DualPartitionRefinement promise,   *)
(* proved for every geometry, every width of the boot number, every set of  *)
(* images and packages and any number of misbehaving flash operations.      *)
EXTENDS DualPartitionRefinement, WellFoundedInduction, TLAPS

-----------------------------------------------------------------------------
(* The BTSEQ word.                                                          *)

(* A word is solid when its two fields hold at least the set bits of some   *)
(* stamp.  Erased, stamped and partly stamped words are; a word programmed  *)
(* twice need not be.                                                       *)
Solid(w) == w.v + w.ic >= SeqMax

(* The stamp fw_commit writes decodes to the number it encodes              *)
(* (fw_btseq_encode, fw_btseq_read_seq).                                    *)
THEOREM EncodeDecodes ==
    ASSUME NEW s \in Seqs
    PROVE  /\ Encode(s) \in Words
           /\ Valid(Encode(s))
           /\ SeqOf(Encode(s)) = s
BY SeqMaxAssumption DEF Encode, Words, Valid, SeqOf, Seqs

(* The erased word is invalid and evaluates to the highest number.          *)
THEOREM BlankIsInvalid ==
    /\ BlankWord \in Words
    /\ ~Valid(BlankWord)
    /\ SeqOf(BlankWord) = SeqMax
    /\ Solid(BlankWord)
BY SeqMaxAssumption DEF BlankWord, Words, Valid, SeqOf, Seqs, Solid

(* The number a word evaluates to is in range.                              *)
LEMMA SeqOfRange ==
    ASSUME NEW w \in Words
    PROVE  SeqOf(w) \in Seqs
BY SeqMaxAssumption DEF SeqOf, Words, Seqs

(* The number fw_commit chooses is in range and, unless the active one is   *)
(* exhausted, one less.                                                     *)
LEMMA NextSeqRange ==
    ASSUME NEW s \in Seqs
    PROVE  NextSeq(s) \in Seqs
BY SeqMaxAssumption DEF NextSeq, Seqs

(* An erase cut short at any point leaves a solid word that evaluates to    *)
(* its old number or to none: no interrupted page erase of fw_flush_row,    *)
(* fw_commit or the roll-back makes a new boot number.                      *)
THEOREM TornEraseKeepsSeq ==
    ASSUME NEW old \in Words, Solid(old),
           NEW w \in PartlyErased(old)
    PROVE  /\ w \in Words
           /\ Solid(w)
           /\ SeqOf(w) \in {SeqOf(old), SeqMax}
BY SeqMaxAssumption
   DEF PartlyErased, AtLeast, Words, Seqs, Solid, SeqOf, Valid

(* A stamp cut short at any point on a virgin word is the whole stamp or    *)
(* evaluates to none: the switch is atomic.                                 *)
THEOREM TornStampIsAtomic ==
    ASSUME NEW s \in Seqs,
           NEW w \in PartlyProgrammed(BlankWord, Encode(s))
    PROVE  /\ w \in Words
           /\ Solid(w)
           /\ SeqOf(w) \in {s, SeqMax}
BY SeqMaxAssumption
   DEF PartlyProgrammed, BlankWord, Encode, AtLeast, Words, Seqs, Solid,
       SeqOf, Valid

-----------------------------------------------------------------------------
(* Constants and helpers. *)

LEMMA GeometryFacts ==
    /\ RowCells \in Nat \ {0}
    /\ PageCells \in Nat \ {0}
    /\ PartCells \in Nat
    /\ MaxImage \in Int
    /\ LastRow = MaxImage
    /\ Parts = {1, 2}
BY GeometryAssumption, Z3
   DEF PageCells, PartCells, LastRow, MaxImage, Parts

LEMMA InactiveFacts ==
    ASSUME active \in Parts
    PROVE  /\ Inactive \in Parts
           /\ Inactive # active
           /\ \A p \in Parts : p = active \/ p = Inactive
BY DEF Inactive, Other, Parts

LEMMA FileFacts ==
    ASSUME NEW f \in Files \cup {NoFile}
    PROVE  /\ f.len \in Nat
           /\ f.data \in Seq(Data \cup {Fill})
           /\ f.format \in BOOLEAN
           /\ HeaderStatus(f) \in Statuses
           /\ HeaderStatus(f) = "OK" =>
                  f.crc \in Images /\ f.len <= MaxImage /\ f.len > 0
<1>1. CASE f = NoFile
  BY <1>1 DEF NoFile, HeaderStatus, Statuses
<1>2. CASE f \in Files
  <2>1. /\ f.len \in Nat
        /\ f.data \in Seq(Data \cup {Fill})
        /\ f.format \in BOOLEAN
        /\ f.complement \in BOOLEAN
    BY <1>2, FilesAssumption
  <2>2. f.complement => f.crc \in Images
    BY <1>2, FilesAssumption
  <2>3. HeaderStatus(f) \in Statuses
    BY DEF HeaderStatus, Statuses
  <2>4. HeaderStatus(f) = "OK" => f.len # 0 /\ ~(f.len > MaxImage) /\ f.complement
    BY DEF HeaderStatus
  <2>5. MaxImage \in Int
    BY GeometryFacts
  <2> QED BY <2>1, <2>2, <2>3, <2>4, <2>5
<1> QED BY <1>1, <1>2

(* The next payload cell is one of the package's or the sender's filler. *)
LEMMA NextCellType ==
    ASSUME file \in Files \cup {NoFile}, pay \in Seq(Data \cup {Fill})
    PROVE  NextCell \in Data \cup {Fill}
<1>1. file.data \in Seq(Data \cup {Fill})
  BY FileFacts
<1>2. Len(pay) \in Nat
  OBVIOUS
<1>3. CASE Len(pay) < Len(file.data)
  BY <1>1, <1>2, <1>3 DEF NextCell
<1>4. CASE ~(Len(pay) < Len(file.data))
  BY <1>4 DEF NextCell
<1> QED BY <1>3, <1>4

-----------------------------------------------------------------------------
(* Flash operations touch one partition and keep the types. *)

CellsOK == cells \in [Parts -> [Cells -> CellValues]]
WordsOK == btseq \in [Parts -> Words]

(* fw_flush_row, fw_commit and the roll-back erase one page. *)
LEMMA ErasePageFacts ==
    ASSUME CellsOK, WordsOK, NEW p \in Parts, NEW first, NEW mode,
           ErasePage(p, first, mode)
    PROVE  /\ CellsOK' /\ WordsOK'
           /\ \A q \in Parts : q # p => cells'[q] = cells[q] /\ btseq'[q] = btseq[q]
           /\ \A i \in Cells : i \notin Span(first, PageCells)
                  => cells'[p][i] = cells[p][i]
           /\ first # FinalPage => btseq' = btseq
           /\ first = FinalPage /\ mode = "done" => btseq'[p] = BlankWord
           /\ first = FinalPage => btseq'[p] \in PartlyErased(btseq[p]) \cup {BlankWord}
<1>1. PICK w \in IF mode = "done" THEN {BlankWord} ELSE PartlyErased(btseq[p]) :
         btseq' = IF first = FinalPage THEN [btseq EXCEPT ![p] = w] ELSE btseq
  BY DEF ErasePage
<1>2. w \in Words
  BY <1>1, BlankIsInvalid DEF PartlyErased
<1>3. cells' = [cells EXCEPT ![p] = [i \in Cells |->
           IF i \notin Span(first, PageCells) \/ mode = "kept"
           THEN cells[p][i]
           ELSE IF mode = "done" THEN Erased ELSE Junk]]
  BY DEF ErasePage
<1>4. Erased \in CellValues /\ Junk \in CellValues
  BY DEF CellValues
<1>5. CellsOK'
  BY <1>3, <1>4 DEF CellsOK
<1>6. WordsOK'
  BY <1>1, <1>2 DEF WordsOK
<1>7. \A q \in Parts : q # p => cells'[q] = cells[q] /\ btseq'[q] = btseq[q]
  BY <1>1, <1>3 DEF CellsOK, WordsOK
<1>8. \A i \in Cells : i \notin Span(first, PageCells)
                  => cells'[p][i] = cells[p][i]
  BY <1>3 DEF CellsOK
<1>9. /\ first # FinalPage => btseq' = btseq
      /\ first = FinalPage /\ mode = "done" => btseq'[p] = BlankWord
      /\ first = FinalPage => btseq'[p] \in PartlyErased(btseq[p]) \cup {BlankWord}
  BY <1>1 DEF WordsOK
<1> QED BY <1>5, <1>6, <1>7, <1>8, <1>9

(* fw_flush_row programs one row; only the last row holds the stamp. *)
LEMMA ProgramRowFacts ==
    ASSUME CellsOK, WordsOK, NEW p \in Parts, NEW first \in Nat, NEW mode,
           row \in Seq(Data \cup {Fill, Pad}), Len(row) = RowCells,
           ProgramRow(p, first, row, mode) \/ DisturbCell(p, first, row)
    PROVE  /\ CellsOK' /\ WordsOK'
           /\ \A q \in Parts : q # p => cells'[q] = cells[q] /\ btseq'[q] = btseq[q]
           /\ first # LastRow => btseq' = btseq
<1>0. RowCells \in Nat
  BY GeometryFacts
<1>1. \A i \in Span(first, RowCells) : row[i - first + 1] \in CellValues
  <2> SUFFICES ASSUME NEW i \in Span(first, RowCells)
               PROVE  row[i - first + 1] \in CellValues
    OBVIOUS
  <2>1. i - first + 1 \in 1 .. Len(row)
    BY <1>0 DEF Span
  <2>2. row[i - first + 1] \in Data \cup {Fill, Pad}
    BY <2>1
  <2> QED BY <2>2 DEF CellValues
<1>2. Erased \in CellValues /\ Junk \in CellValues
  BY DEF CellValues
<1>3. CASE ProgramRow(p, first, row, mode)
  <2>1. cells' = [cells EXCEPT ![p] = [i \in Cells |->
           IF i \notin Span(first, RowCells) \/ mode = "kept"
           THEN cells[p][i]
           ELSE IF mode = "done" /\ cells[p][i] = Erased
                THEN row[i - first + 1] ELSE Junk]]
    BY <1>3 DEF ProgramRow
  <2>2. PICK w \in Words :
           btseq' = IF first = LastRow THEN [btseq EXCEPT ![p] = w] ELSE btseq
    BY <1>3 DEF ProgramRow
  <2>3. CellsOK'
    BY <2>1, <1>1, <1>2 DEF CellsOK
  <2>4. WordsOK' /\ \A q \in Parts : q # p => btseq'[q] = btseq[q]
    BY <2>2 DEF WordsOK
  <2>5. \A q \in Parts : q # p => cells'[q] = cells[q]
    BY <2>1 DEF CellsOK
  <2> QED BY <2>2, <2>3, <2>4, <2>5
<1>4. CASE DisturbCell(p, first, row)
  <2>1. PICK i \in 0 .. first - 1 :
          cells' = [cells EXCEPT ![p] = [j \in Cells |->
               IF j = i THEN Junk
               ELSE IF j \in Span(first, RowCells) THEN row[j - first + 1]
               ELSE cells[p][j]]]
    BY <1>4 DEF DisturbCell
  <2>2. CellsOK'
    BY <2>1, <1>1, <1>2 DEF CellsOK
  <2>3. \A q \in Parts : q # p => cells'[q] = cells[q]
    BY <2>1 DEF CellsOK
  <2> QED BY <1>4, <2>2, <2>3 DEF DisturbCell, WordsOK
<1> QED BY <1>3, <1>4

(* fw_commit programs the stamp. *)
LEMMA ProgramWordFacts ==
    ASSUME CellsOK, WordsOK, NEW p \in Parts, NEW s \in Seqs, NEW mode,
           ProgramWord(p, Encode(s), mode)
    PROVE  /\ CellsOK' /\ WordsOK'
           /\ cells' = cells
           /\ \A q \in Parts : q # p => btseq'[q] = btseq[q]
           /\ btseq[p] = BlankWord =>
                btseq'[p] \in PartlyProgrammed(BlankWord, Encode(s)) \cup {Encode(s)}
<1>1. PICK w \in IF mode = "done" THEN Programmed(btseq[p], Encode(s))
                ELSE PartlyProgrammed(btseq[p], Encode(s)) :
           btseq' = [btseq EXCEPT ![p] = w]
  BY DEF ProgramWord
<1>2. w \in Words
  BY <1>1, EncodeDecodes DEF Programmed, PartlyProgrammed
<1>3. cells' = cells
  BY DEF ProgramWord
<1> QED BY <1>1, <1>2, <1>3 DEF CellsOK, WordsOK, Programmed

-----------------------------------------------------------------------------
(* Type correctness.  The row buffer never overflows because it has room    *)
(* whenever the sink runs and is full whenever a row is being flushed.      *)

Flushing  == {"erase", "program", "verify"}
Receiving == {"rx", "sink", "finalize"}

RowRoom ==
    /\ pc \in Receiving => Len(row) < RowCells
    /\ pc \in Flushing  => Len(row) = RowCells

TypeInv == TypeOK /\ RowRoom

LEMMA TypeInit ==
    Init => TypeInv
<1> SUFFICES ASSUME Init PROVE TypeInv
  OBVIOUS
<1>1. PICK k \in Images, old \in Images \cup {<<>>} :
         /\ btseq \in [Parts -> {BlankWord} \cup {Encode(s) : s \in Seqs}]
         /\ active = Selected(btseq)
         /\ cells = [p \in Parts |-> IF p = active THEN Load(k) ELSE Load(old)]
  BY DEF Init
<1>2. ASSUME NEW q \in Images \cup {<<>>}
      PROVE  Load(q) \in [Cells -> CellValues]
  <2>1. q \in Seq(Data)
    <3>1. <<>> \in Seq(Data)
      OBVIOUS
    <3> QED BY <1>2, <3>1, ImagesAssumption
  <2>2. ASSUME NEW i \in Cells
        PROVE  (IF i < Len(q) THEN q[i + 1] ELSE Erased) \in CellValues
    <3>1. PartCells \in Nat
      BY GeometryFacts
    <3>2. CASE i < Len(q)
      <4>1. i + 1 \in 1 .. Len(q)
        BY <2>1, <3>1, <3>2 DEF Cells
      <4> QED BY <2>1, <3>2, <4>1 DEF CellValues
    <3> QED BY <3>2 DEF CellValues
  <2> QED BY <2>2 DEF Load
<1>3. cells \in [Parts -> [Cells -> CellValues]]
  BY <1>1, <1>2
<1>4. btseq \in [Parts -> Words]
  BY <1>1, EncodeDecodes, BlankIsInvalid
<1>5. active \in Parts
  BY <1>1 DEF Selected, Parts
<1>6. 0 \in Seqs /\ 0 \in 0 .. MaxPad /\ 0 \in 0 .. MaxFaults /\ RowCells > 0
  BY GeometryAssumption, SeqMaxAssumption DEF Seqs
<1>7. /\ uca \in [Parts -> UcaWords]
      /\ pc = "idle"
      /\ RamCleared
      /\ faults = 0
      /\ exposed = FALSE
  BY DEF Init
<1>8. TypeOK
  <2>1. /\ file \in Files \cup {NoFile}
        /\ pay \in Seq(Data \cup {Fill})
        /\ row \in Seq(Data \cup {Fill, Pad})
        /\ Len(row) <= RowCells
        /\ img \in Seq(Data \cup {Fill, Pad})
    BY <1>6, <1>7, GeometryFacts DEF RamCleared
  <2> QED BY <2>1, <1>3, <1>4, <1>5, <1>6, <1>7
     DEF TypeOK, Pcs, Statuses, CommitStatuses, RamCleared
<1>9. RowRoom
  BY <1>7 DEF RowRoom, Receiving, Flushing
<1> QED BY <1>8, <1>9 DEF TypeInv

(* The types of a context that was just reset. *)
ContextTypes ==
    /\ file \in Files \cup {NoFile}
    /\ left \in Nat
    /\ hdr \in BOOLEAN
    /\ pay \in Seq(Data \cup {Fill})
    /\ row \in Seq(Data \cup {Fill, Pad})
    /\ Len(row) = 0
    /\ base \in Nat
    /\ img \in Seq(Data \cup {Fill, Pad})
    /\ pad \in 0 .. MaxPad
    /\ caller \in {"sink", "finalize"}

(* A reset context has its types. *)
LEMMA ContextResetType ==
    ASSUME NEW f \in Files \cup {NoFile}, ContextReset(f)
    PROVE  ContextTypes'
<1>1. <<>> \in Seq(Data \cup {Fill}) /\ <<>> \in Seq(Data \cup {Fill, Pad})
  OBVIOUS
<1>2. 0 \in 0 .. MaxPad
  BY GeometryAssumption
<1>3. Len(<<>>) = 0
  OBVIOUS
<1> QED BY <1>1, <1>2, <1>3 DEF ContextReset, ContextTypes

(* fw_update_receive may return from anywhere in the transfer. *)
LEMMA ReturnType ==
    ASSUME NEW s \in Statuses, Return(s), TypeInv,
           cells' \in [Parts -> [Cells -> CellValues]],
           btseq' \in [Parts -> Words],
           faults' \in 0 .. MaxFaults,
           UNCHANGED <<uca, active, next, commit, exposed>>
    PROVE  TypeInv'
<1>1. /\ status' \in Statuses
      /\ verified' \in BOOLEAN
      /\ pc' = "idle"
      /\ ContextReset(NoFile)
  BY DEF Return
<1>2. ContextTypes'
  BY <1>1, ContextResetType
<1>3. RowCells > 0 /\ RowCells \in Nat
  BY GeometryAssumption
<1> QED BY <1>1, <1>2, <1>3
        DEF TypeInv, TypeOK, ContextTypes, RowRoom, Pcs, Receiving, Flushing

(* What an operation reports and costs. *)
LEMMA MayHappenType ==
    ASSUME faults \in 0 .. MaxFaults, NEW o, MayHappen(o)
    PROVE  faults' \in 0 .. MaxFaults
BY GeometryAssumption DEF MayHappen

LEMMA TypeStep ==
    TypeInv /\ [Next]_vars => TypeInv'
<1> SUFFICES ASSUME TypeInv, [Next]_vars PROVE TypeInv'
  OBVIOUS
<1> USE DEF TypeInv
<1>0. /\ CellsOK /\ WordsOK
      /\ Inactive \in Parts
      /\ RowCells \in Nat /\ RowCells > 0
  BY InactiveFacts, GeometryAssumption DEF CellsOK, WordsOK, TypeOK
<1>r. ASSUME NEW s \in Statuses, Return(s), CellsOK', WordsOK',
             faults' \in 0 .. MaxFaults,
             UNCHANGED <<uca, active, next, commit, exposed>>
      PROVE  TypeInv'
  BY <1>r, ReturnType DEF CellsOK, WordsOK
<1>1. ASSUME NEW f \in Files, Receive(f) PROVE TypeInv'
  <2>1. ContextTypes'
    BY <1>1, ContextResetType DEF Receive
  <2>2. /\ pc' = "rx" /\ status' = "OK" /\ commit' = "NONE"
        /\ UNCHANGED <<cells, btseq, uca, active, next, faults, exposed>>
    BY <1>1 DEF Receive, nonvolatile
  <2>3. verified' \in BOOLEAN
    BY <1>1 DEF Receive
  <2> QED BY <1>0, <2>1, <2>2, <2>3
          DEF ContextTypes, TypeOK, RowRoom, Pcs, Statuses, CommitStatuses,
              Receiving, Flushing
<1>2. ASSUME NEW n \in BlockSizes, Block(n) PROVE TypeInv'
  BY <1>2, GeometryAssumption
     DEF Block, TypeOK, RowRoom, nonvolatile, Pcs, Receiving, Flushing
<1>3. CASE TransferFails
  BY <1>3, <1>0, <1>r
     DEF TransferFails, nonvolatile, Statuses, CellsOK, WordsOK, TypeOK
<1>4. CASE EndOfTransfer
  BY <1>4 DEF EndOfTransfer, TypeOK, RowRoom, nonvolatile, context, Pcs,
              Receiving, Flushing
<1>5. CASE SinkHeader
  <2>1. CASE HeaderStatus(file) = "OK"
    BY <1>5, <2>1 DEF SinkHeader, TypeOK, RowRoom, nonvolatile, Receiving,
                      Flushing
  <2>2. CASE HeaderStatus(file) # "OK"
    <3>1. HeaderStatus(file) \in Statuses
      BY FileFacts DEF TypeOK
    <3> QED BY <1>5, <2>2, <3>1, <1>0, <1>r
            DEF SinkHeader, nonvolatile, CellsOK, WordsOK, TypeOK
  <2> QED BY <2>1, <2>2
<1>6. CASE SinkPayload
  <2>1. NextCell \in Data \cup {Fill}
    BY NextCellType DEF TypeOK
  <2>2. /\ pay' \in Seq(Data \cup {Fill})
        /\ row' \in Seq(Data \cup {Fill, Pad})
        /\ Len(row') = Len(row) + 1
    BY <1>6, <2>1 DEF SinkPayload, TypeOK
  <2>3. Len(row) < RowCells
    BY <1>6 DEF SinkPayload, RowRoom, Receiving
  <2>4. pc' = IF Len(row') = RowCells THEN FlushStart ELSE "sink"
    BY <1>6 DEF SinkPayload
  <2>5. FlushStart \in {"erase", "program"}
    BY DEF FlushStart
  <2>6. pc' \in Pcs /\ RowRoom' /\ Len(row') <= RowCells
    BY <1>0, <2>2, <2>3, <2>4, <2>5
       DEF RowRoom, Pcs, Receiving, Flushing, TypeOK
  <2> QED BY <1>6, <2>2, <2>6 DEF SinkPayload, TypeOK, nonvolatile
<1>7. CASE SinkPadding
  <2>1. CASE pad < MaxPad
    BY <1>7, <2>1, GeometryAssumption
       DEF SinkPadding, TypeOK, RowRoom, nonvolatile, Receiving, Flushing
  <2>2. CASE ~(pad < MaxPad)
    BY <1>7, <2>2, <1>0, <1>r
       DEF SinkPadding, nonvolatile, Statuses, CellsOK, WordsOK, TypeOK
  <2> QED BY <2>1, <2>2
<1>8. CASE SinkReturns
  BY <1>8 DEF SinkReturns, TypeOK, RowRoom, nonvolatile, context, Pcs,
              Receiving, Flushing
<1>9. CASE FlushErase
  <2>1. PICK o \in EraseOutcomes :
           /\ MayHappen(o)
           /\ ErasePage(Inactive, base, o.mode)
           /\ IF o.ok THEN pc' = "program" /\ UNCHANGED <<context, status, verified>>
                      ELSE FlushFails
    BY <1>9 DEF FlushErase
  <2>2. CellsOK' /\ WordsOK'
    BY <1>0, <2>1, ErasePageFacts
  <2>3. faults' \in 0 .. MaxFaults
    BY <2>1, MayHappenType DEF TypeOK
  <2>4. CASE o.ok
    BY <1>9, <2>1, <2>2, <2>3, <2>4
       DEF FlushErase, context, TypeOK, RowRoom, Pcs, Receiving, Flushing,
           CellsOK, WordsOK
  <2>5. CASE ~o.ok
    BY <1>9, <2>1, <2>2, <2>3, <2>5, <1>r
       DEF FlushErase, FlushFails, Statuses
  <2> QED BY <2>4, <2>5
<1>10. CASE FlushProgram
  <2>1. PICK o \in ProgramOutcomes :
           /\ MayHappen(o)
           /\ \/ ProgramRow(Inactive, base, row, o.mode)
              \/ o # Sound /\ DisturbCell(Inactive, base, row)
           /\ IF o.ok THEN pc' = "verify" /\ UNCHANGED <<context, status, verified>>
                      ELSE FlushFails
    BY <1>10 DEF FlushProgram
  <2>2. CellsOK' /\ WordsOK'
    <3>1. base \in Nat /\ row \in Seq(Data \cup {Fill, Pad}) /\ Len(row) = RowCells
      BY <1>10 DEF FlushProgram, TypeOK, RowRoom, Flushing
    <3> QED BY <1>0, <2>1, <3>1, ProgramRowFacts
  <2>3. faults' \in 0 .. MaxFaults
    BY <2>1, MayHappenType DEF TypeOK
  <2>4. CASE o.ok
    BY <1>10, <2>1, <2>2, <2>3, <2>4
       DEF FlushProgram, context, TypeOK, RowRoom, Pcs, Receiving, Flushing,
           CellsOK, WordsOK
  <2>5. CASE ~o.ok
    BY <1>10, <2>1, <2>2, <2>3, <2>5, <1>r
       DEF FlushProgram, FlushFails, Statuses
  <2> QED BY <2>4, <2>5
<1>11. CASE FlushVerify
  <2>1. CASE RowReadsBack
    <3>1. /\ img' \in Seq(Data \cup {Fill, Pad})
          /\ base' \in Nat
          /\ row' = <<>>
      <4>1. img' = img \o row /\ base' = base + RowCells /\ row' = <<>>
        BY <1>11, <2>1 DEF FlushVerify
      <4>2. /\ img \in Seq(Data \cup {Fill, Pad})
            /\ row \in Seq(Data \cup {Fill, Pad})
            /\ base \in Nat
        BY DEF TypeOK
      <4>3. img \o row \in Seq(Data \cup {Fill, Pad})
        BY <4>2
      <4> QED BY <1>0, <4>1, <4>2, <4>3
    <3>2. row' \in Seq(Data \cup {Fill, Pad}) /\ Len(row') = 0
      BY <3>1
    <3> QED BY <1>0, <1>11, <2>1, <3>1, <3>2
            DEF FlushVerify, TypeOK, RowRoom, nonvolatile, Pcs, Receiving, Flushing
  <2>2. CASE ~RowReadsBack
    BY <1>11, <2>2, <1>0, <1>r
       DEF FlushVerify, FlushFails, nonvolatile, Statuses, CellsOK, WordsOK, TypeOK
  <2> QED BY <2>1, <2>2
<1>12. CASE Finalize
  <2>1. CASE PackageStatus # "OK"
    BY <1>12, <2>1, <1>0, <1>r
       DEF Finalize, PackageStatus, nonvolatile, Statuses, CellsOK, WordsOK, TypeOK
  <2>2. CASE PackageStatus = "OK" /\ row = <<>>
    BY <1>12, <2>2, <1>0 DEF Finalize, TypeOK, RowRoom, nonvolatile, Pcs,
                              Receiving, Flushing
  <2>3. CASE PackageStatus = "OK" /\ row # <<>>
    <3>1. Padded(row) \in Seq(Data \cup {Fill, Pad}) /\ Len(Padded(row)) = RowCells
      <4>1. \A i \in 1 .. RowCells :
               (IF i <= Len(row) THEN row[i] ELSE Pad) \in Data \cup {Fill, Pad}
        BY DEF TypeOK
      <4> QED BY <1>0, <4>1 DEF Padded
    <3>2. FlushStart \in {"erase", "program"}
      BY DEF FlushStart
    <3> QED BY <1>12, <2>3, <1>0, <3>1, <3>2
            DEF Finalize, TypeOK, RowRoom, nonvolatile, Pcs, Receiving, Flushing
  <2> QED BY <2>1, <2>2, <2>3
<1>13. CASE Readback
  BY <1>13, <1>0, <1>r
     DEF Readback, nonvolatile, Statuses, CellsOK, WordsOK, TypeOK
<1>14. CASE CommitBegin
  <2>1. NextSeq(SeqOf(btseq[active])) \in Seqs /\ 0 \in Seqs
    BY SeqOfRange, NextSeqRange, SeqMaxAssumption DEF TypeOK, Seqs
  <2>2. CommitStatus \in CommitStatuses \cup {"OK"}
    BY DEF CommitStatus, CommitStatuses
  <2> QED BY <1>14, <2>1, <2>2
          DEF CommitBegin, CommitReturns, TypeOK, RowRoom, nonvolatile, context,
              Pcs, Receiving, Flushing
<1>15. CASE CommitErase
  <2>1. PICK o \in EraseOutcomes :
           /\ MayHappen(o)
           /\ ErasePage(Inactive, FinalPage, o.mode)
           /\ IF o.ok THEN pc' = "commitProgram" /\ UNCHANGED <<next, commit>>
                      ELSE CommitReturns("NVM")
    BY <1>15 DEF CommitErase
  <2>2. CellsOK' /\ WordsOK'
    BY <1>0, <2>1, ErasePageFacts
  <2>3. faults' \in 0 .. MaxFaults /\ 0 \in Seqs
    BY <2>1, MayHappenType, SeqMaxAssumption DEF TypeOK, Seqs
  <2> QED BY <1>15, <2>1, <2>2, <2>3
          DEF CommitErase, CommitReturns, CommitStatuses, context, TypeOK,
              RowRoom, Pcs, Receiving, Flushing, CellsOK, WordsOK
<1>16. CASE CommitProgram
  <2>1. PICK o \in ProgramOutcomes :
           /\ MayHappen(o)
           /\ ProgramWord(Inactive, Encode(next), o.mode)
           /\ IF o.ok THEN pc' = "commitVerify" /\ UNCHANGED commit
                      ELSE pc' = "rollback" /\ commit' = "NVM"
    BY <1>16 DEF CommitProgram
  <2>2. CellsOK' /\ WordsOK'
    BY <1>0, <2>1, ProgramWordFacts DEF TypeOK
  <2>3. faults' \in 0 .. MaxFaults
    BY <2>1, MayHappenType DEF TypeOK
  <2> QED BY <1>16, <2>1, <2>2, <2>3
          DEF CommitProgram, CommitStatuses, context, TypeOK, RowRoom, Pcs,
              Receiving, Flushing, CellsOK, WordsOK
<1>17. CASE CommitVerify
  BY <1>17 DEF CommitVerify, CommitStatuses, TypeOK, RowRoom, nonvolatile,
               context, Pcs, Receiving, Flushing
<1>18. CASE Rollback
  <2>1. PICK o \in EraseOutcomes :
           /\ MayHappen(o)
           /\ ErasePage(Inactive, FinalPage, o.mode)
           /\ IF o.ok /\ btseq'[Inactive] = BlankWord
              THEN CommitReturns(commit) /\ UNCHANGED exposed
              ELSE CommitReturns("ROLLBACK") /\ exposed' = TRUE
    BY <1>18 DEF Rollback
  <2>2. CellsOK' /\ WordsOK'
    BY <1>0, <2>1, ErasePageFacts
  <2>3. faults' \in 0 .. MaxFaults /\ 0 \in Seqs
    BY <2>1, MayHappenType, SeqMaxAssumption DEF TypeOK, Seqs
  <2> QED BY <1>18, <2>1, <2>2, <2>3
          DEF Rollback, CommitReturns, CommitStatuses, context, TypeOK, RowRoom,
              Pcs, Receiving, Flushing, CellsOK, WordsOK
<1>p. ASSUME PowerOff, CellsOK', WordsOK', exposed' \in BOOLEAN PROVE TypeInv'
  <2>1. ContextTypes'
    BY <1>p, ContextResetType DEF PowerOff
  <2>2. 0 \in Seqs
    BY SeqMaxAssumption DEF Seqs
  <2>3. /\ pc' = "off" /\ status' = "OK" /\ commit' = "NONE" /\ next' = 0
        /\ UNCHANGED <<uca, active, faults>>
    BY <1>p DEF PowerOff
  <2>4. verified' \in BOOLEAN
    BY <1>p DEF PowerOff
  <2> QED BY <1>0, <1>p, <2>1, <2>2, <2>3, <2>4
          DEF ContextTypes, TypeOK, RowRoom, Pcs, Statuses, CommitStatuses,
              Receiving, Flushing, CellsOK, WordsOK
<1>19. CASE CommitReset
  BY <1>19, <1>0, <1>p DEF CommitReset, CellsOK, WordsOK, TypeOK
<1>20. CASE LosePower
  BY <1>20, <1>0, <1>p DEF LosePower, CellsOK, WordsOK, TypeOK
<1>21. CASE LosePowerInOperation
  <2>1. PICK mode \in Modes :
         \/ pc = "erase" /\ ErasePage(Inactive, base, mode)
         \/ pc = "program" /\ ProgramRow(Inactive, base, row, mode)
         \/ pc \in {"commitErase", "rollback"}
               /\ ErasePage(Inactive, FinalPage, mode)
         \/ pc = "commitProgram"
               /\ ProgramWord(Inactive, Encode(next), mode)
    BY <1>21 DEF LosePowerInOperation
  <2>2. CASE pc = "erase" /\ ErasePage(Inactive, base, mode)
    BY <1>0, <1>p, <1>21, <2>2, ErasePageFacts DEF LosePowerInOperation, TypeOK
  <2>3. CASE pc = "program" /\ ProgramRow(Inactive, base, row, mode)
    <3>1. base \in Nat /\ row \in Seq(Data \cup {Fill, Pad}) /\ Len(row) = RowCells
      BY <2>3 DEF TypeOK, RowRoom, Flushing
    <3>2. CellsOK' /\ WordsOK'
      BY <1>0, <2>3, <3>1, ProgramRowFacts
    <3> QED BY <1>p, <1>21, <3>2 DEF LosePowerInOperation, TypeOK
  <2>4. CASE pc \in {"commitErase", "rollback"} /\ ErasePage(Inactive, FinalPage, mode)
    BY <1>0, <1>p, <1>21, <2>4, ErasePageFacts DEF LosePowerInOperation, TypeOK
  <2>5. CASE pc = "commitProgram" /\ ProgramWord(Inactive, Encode(next), mode)
    <3>1. CellsOK' /\ WordsOK'
      BY <1>0, <2>5, ProgramWordFacts DEF TypeOK
    <3> QED BY <1>p, <1>21, <3>1 DEF LosePowerInOperation, TypeOK
  <2> QED BY <2>1, <2>2, <2>3, <2>4, <2>5
<1>22. CASE Boot
  BY <1>22 DEF Boot, Selected, Parts, TypeOK, RowRoom, nonvolatile, context, Pcs,
               Receiving, Flushing
<1>23. CASE UNCHANGED vars
  BY <1>23 DEF vars, TypeOK, RowRoom
<1> QED
  BY <1>1, <1>2, <1>3, <1>4, <1>5, <1>6, <1>7, <1>8, <1>9, <1>10, <1>11, <1>12,
     <1>13, <1>14, <1>15, <1>16, <1>17, <1>18, <1>19, <1>20, <1>21, <1>22, <1>23
     DEF Next

(* The row buffer of fw_ctx_t never overflows, the padding counter stays    *)
(* within its bound, and every variable has its type.                       *)
THEOREM TypeCorrect == Spec => []TypeOK
<1>1. Spec => []TypeInv
  BY TypeInit, TypeStep, PTL DEF Spec
<1>2. TypeInv => TypeOK
  BY DEF TypeInv
<1> QED BY <1>1, <1>2, PTL

-----------------------------------------------------------------------------
(* The inductive invariant behind BootIsIntact, ActiveSelected and          *)
(* VerifiedImageIntact.                                                     *)

(* The states in which only the running partition may be selected, and the  *)
(* states of one transfer.                                                  *)
Unstamped == Pcs \ {"commitVerify", "rollback", "reset", "off", "dead"}
Transfer  == Receiving \cup Flushing \cup {"readback"}

(* The flash and the boot choice.  Partition 2 runs only on a number below  *)
(* the blank word's, so blanking partition 1's word never deselects it.     *)
FlashSafe ==
    /\ \A p \in Parts : Solid(btseq[p])
    /\ pc \notin {"off", "dead"} =>
           /\ Intact(active)
           /\ active = 2 => SeqOf(btseq[2]) < SeqMax
    /\ ~exposed /\ pc \in Unstamped => Selected(btseq) = active
    /\ ~exposed /\ pc = "off" => Intact(Selected(btseq))
    /\ ~exposed => pc # "dead"

(* The receive context: what the running image CRC covers and the row under *)
(* assembly are the accepted payload, in order; a receive that wrote into   *)
(* the final page has blanked the BTSEQ word.                               *)
TransferOK ==
    pc \in Transfer =>
        /\ base = Len(img)
        /\ \E q \in 0 .. base : base = RowCells * q
        /\ Len(pay) <= file.len
        /\ Len(pay) <= base + Len(row)
        /\ caller = "sink" => Len(pay) = base + Len(row)
        /\ \A i \in 1 .. base : i <= Len(pay) => img[i] = pay[i]
        /\ \A j \in 1 .. Len(row) : base + j <= Len(pay) => row[j] = pay[base + j]
        /\ hdr => HeaderStatus(file) = "OK"
        /\ base > FinalPage => btseq[Inactive] = BlankWord
        /\ pc \in {"program", "verify"} /\ base = FinalPage
               => btseq[Inactive] = BlankWord
        /\ pc \in Receiving => caller = "sink"
        /\ pc \in Flushing => base < Len(pay)
        /\ ~hdr => pc \in {"rx", "sink"} /\ Len(pay) = 0
        /\ caller = "finalize" \/ pc = "readback" => pay = file.crc
        /\ pc = "readback" => Len(pay) <= base

(* The gate and the commit it admits: the image is in the inactive flash,   *)
(* out of the final page if that is still to be erased.                     *)
StagedBelow ==
    \E k \in Images :
        Holds(Inactive, k) /\ (btseq[Inactive] = BlankWord \/ Len(k) <= FinalPage)

GateOK ==
    /\ verified => pc = "idle" /\ StagedBelow
    /\ pc = "commitErase" =>
           StagedBelow /\ btseq[Inactive] # BlankWord
    /\ pc = "commitProgram" => btseq[Inactive] = BlankWord
    /\ pc \in {"commitProgram", "commitVerify", "rollback", "reset"} =>
           Intact(Inactive)

SafeInv == TypeInv /\ FlashSafe /\ TransferOK /\ GateOK

(* A partition whose cells do not change holds what it held. *)
LEMMA SameCellsSameImages ==
    ASSUME NEW p \in Parts, cells'[p] = cells[p]
    PROVE  /\ \A k \in Images : Holds(p, k)' <=> Holds(p, k)
           /\ Intact(p)' <=> Intact(p)
BY DEF Intact, Holds

(* Only the running partition and the other one's number decide the boot:   *)
(* a number that stays or becomes the blank word's selects nothing new.     *)
LEMMA SelectionStays ==
    ASSUME TypeOK, WordsOK',
           active = 2 => SeqOf(btseq[2]) < SeqMax,
           btseq'[active] = btseq[active],
           \/ SeqOf(btseq'[Inactive]) = SeqMax
           \/ /\ Selected(btseq) = active
              /\ SeqOf(btseq'[Inactive]) = SeqOf(btseq[Inactive])
    PROVE  Selected(btseq') = active
<1>1. \A p \in Parts : SeqOf(btseq[p]) \in Seqs /\ SeqOf(btseq'[p]) \in Seqs
  BY SeqOfRange DEF TypeOK, WordsOK
<1>2. CASE active = 1
  BY <1>1, <1>2 DEF Selected, Inactive, Other, Parts, Seqs
<1>3. CASE active = 2
  BY <1>1, <1>3 DEF Selected, Inactive, Other, Parts, Seqs
<1> QED BY <1>2, <1>3 DEF TypeOK, Parts

(* Selected is a partition; choosing 2 takes a number below the blank's. *)
LEMMA SelectedFacts ==
    ASSUME WordsOK
    PROVE  /\ Selected(btseq) \in Parts
           /\ Selected(btseq) = 2 => SeqOf(btseq[2]) < SeqMax
<1>1. \A p \in Parts : SeqOf(btseq[p]) \in Seqs
  BY SeqOfRange DEF WordsOK
<1> QED BY <1>1, SeqMaxAssumption DEF Selected, Parts, Seqs

(* An erase of a page of the inactive partition, complete or not, in any    *)
(* running state.                                                           *)
LEMMA EraseInactive ==
    ASSUME TypeOK, NEW first, NEW mode, ErasePage(Inactive, first, mode),
           \A p \in Parts : Solid(btseq[p])
    PROVE  /\ \A p \in Parts : Solid(btseq'[p])
           /\ cells'[active] = cells[active]
           /\ btseq'[active] = btseq[active]
           /\ SeqOf(btseq'[Inactive]) \in {SeqOf(btseq[Inactive]), SeqMax}
<1>0. CellsOK /\ WordsOK
  BY DEF TypeOK, CellsOK, WordsOK
<1>1. /\ Inactive \in Parts /\ Inactive # active /\ active \in Parts
      /\ \A p \in Parts : p = active \/ p = Inactive
  BY InactiveFacts DEF TypeOK
<1>2. /\ WordsOK'
      /\ \A q \in Parts : q # Inactive => cells'[q] = cells[q] /\ btseq'[q] = btseq[q]
      /\ first # FinalPage => btseq' = btseq
      /\ first = FinalPage =>
            btseq'[Inactive] \in PartlyErased(btseq[Inactive]) \cup {BlankWord}
  BY <1>0, <1>1, ErasePageFacts
<1>3. btseq[Inactive] \in Words /\ Solid(btseq[Inactive])
  BY <1>0, <1>1 DEF WordsOK
<1>4. CASE first # FinalPage
  BY <1>1, <1>2, <1>4
<1>5. CASE first = FinalPage /\ btseq'[Inactive] = BlankWord
  BY <1>1, <1>2, <1>5, BlankIsInvalid
<1>6. CASE first = FinalPage /\ btseq'[Inactive] \in PartlyErased(btseq[Inactive])
  <2>1. /\ Solid(btseq'[Inactive])
        /\ SeqOf(btseq'[Inactive]) \in {SeqOf(btseq[Inactive]), SeqMax}
    BY <1>3, <1>6, TornEraseKeepsSeq
  <2> QED BY <1>1, <1>2, <2>1
<1> QED BY <1>2, <1>4, <1>5, <1>6

(* The running partition stays safe across any step that leaves it and its  *)
(* word alone and does not select the other one.                            *)
LEMMA FlashStays ==
    ASSUME TypeOK, TypeOK', FlashSafe,
           pc \notin {"off", "dead"},
           active' = active,
           cells'[active] = cells[active],
           btseq'[active] = btseq[active],
           \A p \in Parts : Solid(btseq'[p]),
           exposed' = exposed \/ exposed' = TRUE,
           pc' # "dead",
           ~exposed' /\ pc' \in Unstamped => Selected(btseq') = active,
           ~exposed' /\ pc' = "off" =>
               Selected(btseq') = active \/ Intact(Inactive)'
    PROVE  FlashSafe'
<1>1. /\ active \in Parts /\ Inactive \in Parts
      /\ \A p \in Parts : p = active \/ p = Inactive
  BY InactiveFacts DEF TypeOK
<1>2. Intact(active)' /\ (active = 2 => SeqOf(btseq'[2]) < SeqMax)
  <2>1. Intact(active)
    BY DEF FlashSafe
  <2>2. \A p \in Parts : cells'[p] = cells[p] => (Intact(p)' <=> Intact(p))
    BY SameCellsSameImages
  <2>3. \A p \in Parts : p = active => (Intact(p)' <=> Intact(active)')
    BY DEF Intact, Holds
  <2>4. Intact(active)'
    BY <1>1, <2>1, <2>2, <2>3
  <2> QED BY <2>4 DEF FlashSafe
<1>3. Selected(btseq') \in Parts
  BY DEF Selected, Parts
<1>4. ~exposed' /\ pc' = "off" => Intact(Selected(btseq))'
  <2> SUFFICES ASSUME ~exposed', pc' = "off" PROVE Intact(Selected(btseq))'
    OBVIOUS
  <2>1. CASE Selected(btseq') = active
    BY <1>2, <2>1 DEF Intact, Holds, Selected
  <2>2. CASE Selected(btseq') = Inactive /\ Intact(Inactive)'
    BY <2>2 DEF Intact, Holds, Selected, Inactive
  <2> QED BY <1>1, <1>3, <2>1, <2>2
<1>5. Selected(btseq') = Selected(btseq)'
  BY DEF Selected
<1> QED BY <1>2, <1>4, <1>5 DEF FlashSafe

(* A step that touches no flash and stays before the stamp. *)
LEMMA FlashQuiet ==
    ASSUME TypeOK, TypeOK', FlashSafe, pc \in Unstamped, pc' \in Unstamped,
           UNCHANGED <<cells, btseq, active, exposed>>
    PROVE  FlashSafe'
<1>1. pc \notin {"off", "dead"} /\ pc' \notin {"off", "dead"}
  BY DEF Unstamped
<1>2. ~exposed => Selected(btseq) = active
  BY DEF FlashSafe
<1>3. \A p \in Parts : Solid(btseq'[p])
  BY DEF FlashSafe
<1> QED BY <1>1, <1>2, <1>3, FlashStays DEF Unstamped

(* A step that erases a page of the inactive partition before the stamp, or *)
(* is cut short while doing so.                                             *)
LEMMA FlashErased ==
    ASSUME TypeOK, TypeOK', FlashSafe, pc \in Unstamped,
           pc' \in Unstamped \/ pc' = "off",
           NEW first, NEW mode, ErasePage(Inactive, first, mode),
           UNCHANGED <<active, exposed>>
    PROVE  FlashSafe'
<1>1. pc \notin {"off", "dead"} /\ pc' # "dead"
  BY DEF Unstamped
<1>2. /\ \A p \in Parts : Solid(btseq[p])
      /\ active = 2 => SeqOf(btseq[2]) < SeqMax
      /\ ~exposed => Selected(btseq) = active
  BY <1>1 DEF FlashSafe
<1>3. /\ \A p \in Parts : Solid(btseq'[p])
      /\ cells'[active] = cells[active]
      /\ btseq'[active] = btseq[active]
      /\ SeqOf(btseq'[Inactive]) \in {SeqOf(btseq[Inactive]), SeqMax}
  BY <1>2, EraseInactive
<1>4. ~exposed' => Selected(btseq') = active
  <2>1. WordsOK'
    BY DEF TypeOK, WordsOK
  <2> QED BY <1>2, <1>3, <2>1, SelectionStays
<1> QED BY <1>1, <1>3, <1>4, FlashStays

(* Programming a row touches neither the running partition nor a BTSEQ word. *)
LEMMA ProgramInactive ==
    ASSUME TypeInv, TransferOK, pc = "program", NEW mode,
           ProgramRow(Inactive, base, row, mode) \/ DisturbCell(Inactive, base, row)
    PROVE  cells'[active] = cells[active] /\ btseq' = btseq
<1>0. TypeOK /\ base \in Nat /\ row \in Seq(Data \cup {Fill, Pad}) /\ Len(row) = RowCells
      /\ CellsOK /\ WordsOK
  BY DEF TypeInv, TypeOK, RowRoom, Flushing, CellsOK, WordsOK
<1>2. Inactive \in Parts /\ Inactive # active /\ active \in Parts
  BY <1>0, InactiveFacts DEF TypeOK
<1>3. base # LastRow
  <2>1. base < Len(pay) /\ Len(pay) <= file.len /\ file.len <= MaxImage
    <3>1. pc \in Transfer /\ pc \in Flushing /\ pc \notin {"rx", "sink"}
      BY DEF Transfer, Flushing
    <3>2. hdr /\ HeaderStatus(file) = "OK" /\ base < Len(pay) /\ Len(pay) <= file.len
      BY <3>1 DEF TransferOK
    <3> QED BY <1>0, <3>2, FileFacts DEF TypeOK
  <2>2. Len(pay) \in Nat /\ file.len \in Nat /\ MaxImage \in Int /\ LastRow = MaxImage
    BY <1>0, FileFacts, GeometryFacts DEF TypeOK
  <2> QED BY <1>0, <2>1, <2>2
<1> QED BY <1>0, <1>2, <1>3, ProgramRowFacts

(* A step that programs a row of the inactive partition, or is cut short    *)
(* while doing so: the row is never the one that holds the stamp.           *)
LEMMA FlashProgrammed ==
    ASSUME TypeInv, TypeOK', FlashSafe, TransferOK, pc = "program",
           pc' \in Unstamped \/ pc' = "off",
           NEW mode,
           \/ ProgramRow(Inactive, base, row, mode)
           \/ DisturbCell(Inactive, base, row),
           UNCHANGED <<active, exposed>>
    PROVE  FlashSafe'
<1>0. TypeOK /\ pc \in Unstamped
  BY DEF TypeInv, Unstamped, Pcs
<1>4. /\ cells'[active] = cells[active]
      /\ btseq' = btseq
  BY ProgramInactive
<1>5. \A p \in Parts : Solid(btseq'[p])
  BY <1>4 DEF FlashSafe
<1>6. ~exposed' => Selected(btseq') = active
  BY <1>0, <1>4 DEF FlashSafe
<1> QED BY <1>0, <1>4, <1>5, <1>6, FlashStays DEF Unstamped

(* A step that programs the stamp, or is cut short while doing so.  The     *)
(* inactive partition holds an image, so either choice boots.               *)
LEMMA FlashStamped ==
    ASSUME TypeOK, TypeOK', FlashSafe, GateOK, pc = "commitProgram",
           pc' \in {"commitVerify", "rollback", "off"},
           NEW mode, ProgramWord(Inactive, Encode(next), mode),
           UNCHANGED <<active, exposed>>
    PROVE  FlashSafe'
<1>1. /\ Inactive \in Parts /\ Inactive # active /\ active \in Parts
      /\ \A p \in Parts : p = active \/ p = Inactive
  BY InactiveFacts DEF TypeOK
<1>2. CellsOK /\ WordsOK /\ next \in Seqs
  BY DEF TypeOK, CellsOK, WordsOK
<1>3. btseq[Inactive] = BlankWord /\ Intact(Inactive)
  BY DEF GateOK
<1>4. /\ cells' = cells
      /\ btseq'[active] = btseq[active]
      /\ btseq'[Inactive] \in PartlyProgrammed(BlankWord, Encode(next)) \cup {Encode(next)}
  BY <1>1, <1>2, <1>3, ProgramWordFacts
<1>5. Solid(Encode(next))
  BY <1>2, SeqMaxAssumption DEF Solid, Encode, Seqs
<1>6. Solid(btseq'[Inactive])
  BY <1>2, <1>4, <1>5, TornStampIsAtomic
<1>7. \A p \in Parts : Solid(btseq'[p])
  BY <1>1, <1>4, <1>6 DEF FlashSafe
<1>8. Intact(Inactive)'
  BY <1>3, <1>4 DEF Intact, Holds, Inactive
<1> QED BY <1>4, <1>7, <1>8, FlashStays DEF Unstamped

(* Power off in a state whose flash does not change. *)
LEMMA FlashPowerOff ==
    ASSUME SafeInv, TypeOK', pc \notin {"off", "dead"}, PowerOff,
           UNCHANGED <<cells, btseq, exposed>>
    PROVE  FlashSafe'
<1>0. TypeOK /\ FlashSafe /\ GateOK
  BY DEF SafeInv, TypeInv
<1>1. active' = active /\ pc' = "off"
  BY DEF PowerOff
<1>2. \A p \in Parts : Solid(btseq'[p])
  BY <1>0 DEF FlashSafe
<1>3. ~exposed' => Selected(btseq') = active \/ Intact(Inactive)'
  <2>1. CASE pc \in Unstamped
    BY <1>0, <2>1 DEF FlashSafe
  <2>2. CASE pc \notin Unstamped
    <3>1. pc \in {"commitVerify", "rollback", "reset"}
      BY <1>0, <2>2 DEF Unstamped, TypeOK
    <3>2. Intact(Inactive)
      BY <1>0, <3>1 DEF GateOK
    <3> QED BY <1>1, <3>2 DEF Intact, Holds, Inactive
  <2> QED BY <2>1, <2>2
<1> QED BY <1>0, <1>1, <1>2, <1>3, FlashStays DEF Unstamped

LEMMA FlashStep ==
    ASSUME SafeInv, TypeOK', Next
    PROVE  FlashSafe'
<1>0. TypeInv /\ TypeOK /\ FlashSafe /\ TransferOK /\ GateOK
  BY DEF SafeInv, TypeInv
<1>u. {"idle", "rx", "sink", "erase", "program", "verify", "finalize", "readback",
       "commitErase", "commitProgram"} \subseteq Unstamped
  BY DEF Unstamped, Pcs
<1>q. ASSUME pc \in Unstamped, pc' \in Unstamped,
             UNCHANGED <<cells, btseq, active, exposed>>
      PROVE  FlashSafe'
  BY <1>0, <1>q, FlashQuiet
<1>f. FlushStart \in {"erase", "program"}
  BY DEF FlushStart
<1>1. ASSUME NEW f \in Files, Receive(f) PROVE FlashSafe'
  BY <1>1, <1>q, <1>u DEF Receive, nonvolatile
<1>2. ASSUME NEW n \in BlockSizes, Block(n) PROVE FlashSafe'
  BY <1>2, <1>q, <1>u DEF Block, nonvolatile
<1>3. CASE TransferFails
  BY <1>3, <1>q, <1>u DEF TransferFails, Return, nonvolatile
<1>4. CASE EndOfTransfer
  BY <1>4, <1>q, <1>u DEF EndOfTransfer, nonvolatile
<1>5. CASE SinkHeader
  BY <1>5, <1>q, <1>u DEF SinkHeader, Return, nonvolatile
<1>6. CASE SinkPayload
  BY <1>6, <1>q, <1>u, <1>f DEF SinkPayload, nonvolatile
<1>7. CASE SinkPadding
  BY <1>7, <1>q, <1>u DEF SinkPadding, Return, nonvolatile
<1>8. CASE SinkReturns
  BY <1>8, <1>q, <1>u DEF SinkReturns, nonvolatile
<1>9. CASE FlushErase
  BY <1>9, <1>0, <1>u, FlashErased DEF FlushErase, FlushFails, Return
<1>10. CASE FlushProgram
  BY <1>10, <1>0, <1>u, FlashProgrammed DEF FlushProgram, FlushFails, Return
<1>11. CASE FlushVerify
  BY <1>11, <1>q, <1>u DEF FlushVerify, FlushFails, Return, nonvolatile
<1>12. CASE Finalize
  BY <1>12, <1>q, <1>u, <1>f DEF Finalize, Return, nonvolatile
<1>13. CASE Readback
  BY <1>13, <1>q, <1>u DEF Readback, Return, nonvolatile
<1>14. CASE CommitBegin
  BY <1>14, <1>q, <1>u DEF CommitBegin, CommitReturns, nonvolatile
<1>15. CASE CommitErase
  BY <1>15, <1>0, <1>u, FlashErased DEF CommitErase, CommitReturns
<1>16. CASE CommitProgram
  BY <1>16, <1>0, FlashStamped DEF CommitProgram
<1>17. CASE CommitVerify
  <2>1. \A p \in Parts : Solid(btseq'[p])
    BY <1>17, <1>0 DEF CommitVerify, nonvolatile, FlashSafe
  <2>2. /\ pc \notin {"off", "dead"} /\ pc' \in {"reset", "rollback"}
        /\ UNCHANGED <<cells, btseq, active, exposed>>
    BY <1>17 DEF CommitVerify, nonvolatile
  <2> QED BY <1>0, <2>1, <2>2, FlashStays DEF Unstamped
<1>18. CASE Rollback
  <2>1. PICK o \in EraseOutcomes :
           /\ MayHappen(o)
           /\ ErasePage(Inactive, FinalPage, o.mode)
           /\ IF o.ok /\ btseq'[Inactive] = BlankWord
              THEN CommitReturns(commit) /\ UNCHANGED exposed
              ELSE CommitReturns("ROLLBACK") /\ exposed' = TRUE
    BY <1>18 DEF Rollback
  <2>2. /\ pc \notin {"off", "dead"} /\ pc' = "idle" /\ active' = active
        /\ exposed' = exposed \/ exposed' = TRUE
        /\ ~exposed' => btseq'[Inactive] = BlankWord
    BY <1>18, <2>1 DEF Rollback, CommitReturns
  <2>3. /\ \A p \in Parts : Solid(btseq[p])
        /\ active = 2 => SeqOf(btseq[2]) < SeqMax
    BY <1>0, <2>2 DEF FlashSafe
  <2>4. /\ \A p \in Parts : Solid(btseq'[p])
        /\ cells'[active] = cells[active]
        /\ btseq'[active] = btseq[active]
    BY <1>0, <2>1, <2>3, EraseInactive
  <2>5. ~exposed' => Selected(btseq') = active
    <3>1. WordsOK'
      BY DEF TypeOK, WordsOK
    <3> QED BY <1>0, <2>2, <2>3, <2>4, <3>1, SelectionStays, BlankIsInvalid
  <2> QED BY <1>0, <2>2, <2>4, <2>5, FlashStays
<1>19. CASE CommitReset
  BY <1>19, FlashPowerOff DEF CommitReset
<1>20. CASE LosePower
  BY <1>20, FlashPowerOff DEF LosePower
<1>21. CASE LosePowerInOperation
  <2>1. PICK mode \in Modes :
         \/ pc = "erase" /\ ErasePage(Inactive, base, mode)
         \/ pc = "program" /\ ProgramRow(Inactive, base, row, mode)
         \/ pc \in {"commitErase", "rollback"}
               /\ ErasePage(Inactive, FinalPage, mode)
         \/ pc = "commitProgram"
               /\ ProgramWord(Inactive, Encode(next), mode)
    BY <1>21 DEF LosePowerInOperation
  <2>2. pc' = "off" /\ active' = active /\ exposed' = (exposed \/ pc = "rollback")
    BY <1>21 DEF LosePowerInOperation, PowerOff
  <2>3. exposed \in BOOLEAN
    BY <1>0 DEF TypeOK
  <2>4. CASE pc = "erase" /\ ErasePage(Inactive, base, mode)
    BY <1>0, <1>u, <2>2, <2>3, <2>4, FlashErased
  <2>5. CASE pc = "program" /\ ProgramRow(Inactive, base, row, mode)
    BY <1>0, <2>2, <2>3, <2>5, FlashProgrammed
  <2>6. CASE pc = "commitErase" /\ ErasePage(Inactive, FinalPage, mode)
    BY <1>0, <1>u, <2>2, <2>3, <2>6, FlashErased
  <2>7. CASE pc = "commitProgram" /\ ProgramWord(Inactive, Encode(next), mode)
    BY <1>0, <2>2, <2>3, <2>7, FlashStamped
  <2>8. CASE pc = "rollback" /\ ErasePage(Inactive, FinalPage, mode)
    <3>1. exposed' = TRUE
      BY <2>2, <2>8
    <3>2. \A p \in Parts : Solid(btseq[p])
      BY <1>0 DEF FlashSafe
    <3>3. /\ \A p \in Parts : Solid(btseq'[p])
          /\ cells'[active] = cells[active]
          /\ btseq'[active] = btseq[active]
      BY <1>0, <2>8, <3>2, EraseInactive
    <3> QED BY <1>0, <2>2, <2>8, <3>1, <3>3, FlashStays
  <2> QED BY <2>1, <2>4, <2>5, <2>6, <2>7, <2>8
<1>22. CASE Boot
  <2>1. /\ pc = "off"
        /\ active' = Selected(btseq)
        /\ pc' = IF Intact(Selected(btseq)) THEN "idle" ELSE "dead"
        /\ UNCHANGED <<cells, btseq, exposed>>
    BY <1>22 DEF Boot, nonvolatile
  <2>2. /\ Selected(btseq) \in Parts
        /\ Selected(btseq) = 2 => SeqOf(btseq[2]) < SeqMax
    BY <1>0, SelectedFacts DEF TypeOK, WordsOK
  <2>3. pc' = "idle" => Intact(active)'
    BY <2>1 DEF Intact, Holds
  <2>4. \A p \in Parts : Solid(btseq'[p])
    BY <1>0, <2>1 DEF FlashSafe
  <2>5. ~exposed => pc' = "idle"
    BY <1>0, <2>1 DEF FlashSafe
  <2>6. Selected(btseq)' = active'
    BY <2>1 DEF Selected
  <2>7. pc' \in {"idle", "dead"}
    BY <2>1
  <2> QED BY <2>1, <2>2, <2>3, <2>4, <2>5, <2>6, <2>7 DEF FlashSafe
<1> QED
  BY <1>1, <1>2, <1>3, <1>4, <1>5, <1>6, <1>7, <1>8, <1>9, <1>10, <1>11, <1>12,
     <1>13, <1>14, <1>15, <1>16, <1>17, <1>18, <1>19, <1>20, <1>21, <1>22
     DEF Next

(* Arithmetic of rows and pages. *)
LEMMA MultipleModulo ==
    ASSUME NEW n \in Nat \ {0}, NEW m \in Nat
    PROVE  (n * m) % n = 0
OBVIOUS

LEMMA RowsAlign ==
    ASSUME NEW r \in Nat \ {0}, NEW a \in Nat, NEW b \in Nat,
           r * a <= r * b, r * b < r * a + r
    PROVE  a = b
<1>1. CASE a < b
  <2>1. r * (a + 1) <= r * b
    BY <1>1
  <2> QED BY <2>1
<1>2. CASE b < a
  <2>1. r * (b + 1) <= r * a
    BY <1>2
  <2> QED BY <2>1
<1> QED BY <1>1, <1>2

LEMMA FinalPageFacts ==
    /\ FinalPage \in Nat
    /\ FinalPage % PageCells = 0
    /\ \E b \in Nat : FinalPage = RowCells * b
<1>1. Pages - 1 \in Nat /\ PageRows \in Nat /\ PageRows * (Pages - 1) \in Nat
  BY GeometryAssumption
<1>2. FinalPage = PageCells * (Pages - 1)
  BY GeometryAssumption, GeometryFacts DEF FinalPage, PartCells
<1>3. FinalPage = RowCells * (PageRows * (Pages - 1))
  BY <1>1, <1>2, GeometryAssumption DEF PageCells
<1>4. FinalPage % PageCells = 0
  BY <1>1, <1>2, GeometryFacts, MultipleModulo
<1>5. FinalPage \in Nat
  BY <1>1, <1>3, GeometryAssumption
<1> QED BY <1>1, <1>3, <1>4, <1>5

(* An erase that reports success erased (nora_nvm_page_erase). *)
LEMMA SoundErase ==
    ASSUME NEW o \in EraseOutcomes, o.ok
    PROVE  o.mode = "done"
<1>1. o \in [mode : Modes, ok : {FALSE}] \/ o = Sound
  BY DEF EraseOutcomes
<1>2. ASSUME o \in [mode : Modes, ok : {FALSE}] PROVE FALSE
  <2>1. o.ok = FALSE
    BY <1>2
  <2> QED BY <2>1
<1>3. o = Sound
  BY <1>1, <1>2
<1> QED BY <1>3 DEF Sound

(* The receive context survives every step. *)
LEMMA TransferStep ==
    ASSUME SafeInv, TypeInv', Next
    PROVE  TransferOK'
<1>0. TypeInv /\ TypeOK /\ TransferOK /\ TypeOK'
  BY DEF SafeInv, TypeInv
<1>t. /\ base \in Nat /\ Len(pay) \in Nat /\ Len(row) \in Nat /\ Len(img) \in Nat
      /\ RowCells \in Nat \ {0} /\ FinalPage \in Nat /\ MaxImage \in Int
      /\ file.len \in Nat
      /\ WordsOK /\ CellsOK /\ Inactive \in Parts
      /\ row \in Seq(Data \cup {Fill, Pad})
      /\ pay \in Seq(Data \cup {Fill})
      /\ img \in Seq(Data \cup {Fill, Pad})
  <2>1. /\ row \in Seq(Data \cup {Fill, Pad}) /\ pay \in Seq(Data \cup {Fill})
        /\ img \in Seq(Data \cup {Fill, Pad}) /\ base \in Nat
    BY <1>0 DEF TypeOK
  <2>2. Len(pay) \in Nat /\ Len(row) \in Nat /\ Len(img) \in Nat
    BY <2>1
  <2>3. file.len \in Nat /\ Inactive \in Parts
    BY <1>0, FileFacts, InactiveFacts DEF TypeOK
  <2>4. WordsOK /\ CellsOK
    BY <1>0 DEF TypeOK, WordsOK, CellsOK
  <2> QED BY <2>1, <2>2, <2>3, <2>4, GeometryFacts, FinalPageFacts
<1>f. FlushStart \in {"erase", "program"}
  BY DEF FlushStart
<1>x. ASSUME pc' \notin Transfer PROVE TransferOK'
  BY <1>x DEF TransferOK
<1>n. {"idle", "commitErase", "commitProgram", "commitVerify", "rollback",
       "reset", "off", "dead"} \cap Transfer = {}
  BY DEF Transfer, Receiving, Flushing
<1>1. ASSUME NEW f \in Files, Receive(f) PROVE TransferOK'
  <2>1. /\ pc' = "rx" /\ file' = f /\ hdr' = FALSE /\ pay' = <<>> /\ row' = <<>>
        /\ base' = 0 /\ img' = <<>> /\ caller' = "sink"
    BY <1>1 DEF Receive, ContextReset
  <2>2. f.len \in Nat
    BY FileFacts
  <2>3. \E q \in 0 .. 0 : 0 = RowCells * q
    BY <1>t
  <2> QED BY <1>t, <2>1, <2>2, <2>3 DEF TransferOK, Receiving, Flushing
<1>2. ASSUME NEW n \in BlockSizes, Block(n) PROVE TransferOK'
  <2>1. /\ pc = "rx" /\ pc' = "sink"
        /\ UNCHANGED <<file, hdr, pay, row, base, img, caller, btseq, active>>
    BY <1>2 DEF Block, nonvolatile
  <2> QED BY <1>0, <2>1 DEF TransferOK, Transfer, Receiving, Flushing, Inactive
<1>3. CASE TransferFails
  BY <1>3, <1>x, <1>n DEF TransferFails, Return
<1>4. CASE EndOfTransfer
  <2>1. /\ pc = "rx" /\ hdr /\ pc' = "finalize"
        /\ UNCHANGED <<file, hdr, pay, row, base, img, caller, btseq, active>>
    BY <1>4 DEF EndOfTransfer, nonvolatile, context
  <2> QED BY <1>0, <2>1 DEF TransferOK, Transfer, Receiving, Flushing, Inactive
<1>5. CASE SinkHeader
  <2>1. CASE HeaderStatus(file) = "OK"
    <3>1. /\ pc = "sink" /\ pc' = "sink" /\ hdr' = TRUE
          /\ UNCHANGED <<file, pay, row, base, img, caller, btseq, active>>
      BY <1>5, <2>1 DEF SinkHeader, nonvolatile
    <3>2. HeaderStatus(file)' = HeaderStatus(file)
      BY <3>1 DEF HeaderStatus
    <3> QED BY <1>0, <2>1, <3>1, <3>2
            DEF TransferOK, Transfer, Receiving, Flushing, Inactive
  <2>2. CASE HeaderStatus(file) # "OK"
    BY <1>5, <2>2, <1>x, <1>n DEF SinkHeader, Return
  <2> QED BY <2>1, <2>2
<1>6. CASE SinkPayload
  <2>1. /\ pc = "sink" /\ hdr /\ Len(pay) < file.len
        /\ pay' = Append(pay, NextCell)
        /\ row' = Append(row, NextCell)
        /\ pc' = IF Len(row') = RowCells THEN FlushStart ELSE "sink"
        /\ UNCHANGED <<file, hdr, base, img, caller, btseq, active>>
    BY <1>6 DEF SinkPayload, nonvolatile
  <2>2. NextCell \in Data \cup {Fill}
    BY <1>0, NextCellType DEF TypeOK
  <2>3. /\ Len(pay') = Len(pay) + 1 /\ Len(row') = Len(row) + 1
        /\ \A i \in 1 .. Len(pay) : pay'[i] = pay[i]
        /\ pay'[Len(pay) + 1] = NextCell
        /\ \A j \in 1 .. Len(row) : row'[j] = row[j]
        /\ row'[Len(row) + 1] = NextCell
    BY <1>t, <2>1, <2>2
  <2>4. /\ base = Len(img)
        /\ \E q \in 0 .. base : base = RowCells * q
        /\ caller = "sink"
        /\ Len(pay) = base + Len(row)
        /\ \A i \in 1 .. base : i <= Len(pay) => img[i] = pay[i]
        /\ \A j \in 1 .. Len(row) : base + j <= Len(pay) => row[j] = pay[base + j]
        /\ HeaderStatus(file) = "OK"
        /\ base > FinalPage => btseq[Inactive] = BlankWord
    BY <1>0, <2>1 DEF TransferOK, Transfer, Receiving, Flushing
  <2>5. \A i \in 1 .. base' : i <= Len(pay') => img'[i] = pay'[i]
    BY <1>t, <2>1, <2>3, <2>4
  <2>6. ASSUME NEW j \in 1 .. Len(row'), base' + j <= Len(pay')
        PROVE  row'[j] = pay'[base' + j]
    <3>1. CASE j = Len(row) + 1
      BY <1>t, <2>1, <2>3, <2>4, <3>1
    <3>2. CASE j \in 1 .. Len(row)
      <4>1. base + j \in 1 .. Len(pay)
        BY <1>t, <2>4, <3>2
      <4>2. row'[j] = row[j] /\ pay'[base + j] = pay[base + j]
        BY <2>3, <3>2, <4>1
      <4>3. row[j] = pay[base + j]
        BY <2>4, <3>2, <4>1
      <4> QED BY <2>1, <4>2, <4>3
    <3> QED BY <1>t, <2>3, <2>6, <3>1, <3>2
  <2>7. pc' = "program" => base # FinalPage
    BY <2>1, FinalPageFacts DEF FlushStart
  <2>8. HeaderStatus(file)' = "OK" /\ Inactive' = Inactive
    BY <2>1, <2>4 DEF HeaderStatus, Inactive
  <2>9. pc' \in {"sink", "erase", "program"}
    BY <2>1, <1>f
  <2>10. base' = Len(img') /\ \E q \in 0 .. base' : base' = RowCells * q
    BY <2>1, <2>4
  <2>11. /\ Len(pay') <= file'.len
         /\ Len(pay') <= base' + Len(row')
         /\ Len(pay') = base' + Len(row')
         /\ base' < Len(pay')
    <3>1. file'.len = file.len /\ base' = base /\ Len(pay) < file.len
      BY <2>1
    <3>2. Len(pay') = Len(pay) + 1 /\ Len(row') = Len(row) + 1
      BY <2>3
    <3>3. Len(pay) = base + Len(row)
      BY <2>4
    <3> QED BY <1>t, <3>1, <3>2, <3>3
  <2>12. /\ base' > FinalPage => btseq'[Inactive'] = BlankWord
         /\ pc' \in {"program", "verify"} /\ base' = FinalPage
                => btseq'[Inactive'] = BlankWord
    BY <2>1, <2>4, <2>7, <2>8, <2>9
  <2>13. caller' = "sink" /\ hdr' = TRUE
    BY <1>0, <2>1, <2>4 DEF TypeOK
  <2> QED BY <2>5, <2>6, <2>8, <2>9, <2>10, <2>11, <2>12, <2>13 DEF TransferOK
<1>7. CASE SinkPadding
  <2>1. CASE pad < MaxPad
    <3>1. /\ pc = "sink" /\ pc' = "sink"
          /\ UNCHANGED <<file, hdr, pay, row, base, img, caller, btseq, active>>
      BY <1>7, <2>1 DEF SinkPadding, nonvolatile
    <3> QED BY <1>0, <3>1 DEF TransferOK, Transfer, Receiving, Flushing, Inactive
  <2>2. CASE ~(pad < MaxPad)
    BY <1>7, <2>2, <1>x, <1>n DEF SinkPadding, Return
  <2> QED BY <2>1, <2>2
<1>8. CASE SinkReturns
  <2>1. /\ pc = "sink" /\ pc' = "rx"
        /\ UNCHANGED <<file, hdr, pay, row, base, img, caller, btseq, active>>
    BY <1>8 DEF SinkReturns, nonvolatile, context
  <2> QED BY <1>0, <2>1 DEF TransferOK, Transfer, Receiving, Flushing, Inactive
<1>9. CASE FlushErase
  <2>1. PICK o \in EraseOutcomes :
           /\ MayHappen(o)
           /\ ErasePage(Inactive, base, o.mode)
           /\ IF o.ok THEN pc' = "program" /\ UNCHANGED <<context, status, verified>>
                      ELSE FlushFails
    BY <1>9 DEF FlushErase
  <2>2. CASE o.ok
    <3>1. o.mode = "done"
      BY <2>2, SoundErase
    <3>2. /\ pc = "erase" /\ pc' = "program"
          /\ UNCHANGED <<file, hdr, pay, row, base, img, caller, active>>
      BY <1>9, <2>1, <2>2 DEF FlushErase, context
    <3>3. /\ base # FinalPage => btseq' = btseq
          /\ base = FinalPage => btseq'[Inactive] = BlankWord
      BY <1>t, <2>1, <3>1, ErasePageFacts
    <3>4. Inactive' = Inactive /\ HeaderStatus(file)' = HeaderStatus(file)
      BY <3>2 DEF Inactive, HeaderStatus
    <3> QED BY <1>0, <3>2, <3>3, <3>4 DEF TransferOK, Transfer, Receiving, Flushing
  <2>3. CASE ~o.ok
    BY <2>1, <2>3, <1>x, <1>n DEF FlushFails, Return
  <2> QED BY <2>2, <2>3
<1>10. CASE FlushProgram
  <2>1. PICK o \in ProgramOutcomes :
           /\ MayHappen(o)
           /\ \/ ProgramRow(Inactive, base, row, o.mode)
              \/ o # Sound /\ DisturbCell(Inactive, base, row)
           /\ IF o.ok THEN pc' = "verify" /\ UNCHANGED <<context, status, verified>>
                      ELSE FlushFails
    BY <1>10 DEF FlushProgram
  <2>2. CASE o.ok
    <3>1. /\ pc = "program" /\ pc' = "verify"
          /\ UNCHANGED <<file, hdr, pay, row, base, img, caller, active>>
      BY <1>10, <2>1, <2>2 DEF FlushProgram, context
    <3>2. Len(row) = RowCells
      BY <1>0, <3>1 DEF TypeInv, RowRoom, Flushing
    <3>3. base # LastRow
      <4>1. hdr /\ HeaderStatus(file) = "OK" /\ base < Len(pay) /\ Len(pay) <= file.len
        BY <1>0, <3>1 DEF TransferOK, Transfer, Receiving, Flushing
      <4>2. file.len <= MaxImage
        BY <1>0, <4>1, FileFacts DEF TypeOK
      <4> QED BY <1>t, <4>1, <4>2, GeometryFacts
    <3>4. btseq' = btseq
      BY <1>t, <2>1, <3>2, <3>3, ProgramRowFacts
    <3>5. Inactive' = Inactive /\ HeaderStatus(file)' = HeaderStatus(file)
      BY <3>1 DEF Inactive, HeaderStatus
    <3> QED BY <1>0, <3>1, <3>4, <3>5 DEF TransferOK, Transfer, Receiving, Flushing
  <2>3. CASE ~o.ok
    BY <2>1, <2>3, <1>x, <1>n DEF FlushFails, Return
  <2> QED BY <2>2, <2>3
<1>11. CASE FlushVerify
  <2>1. CASE RowReadsBack
    <3>1. /\ pc = "verify"
          /\ img' = img \o row /\ base' = base + RowCells /\ row' = <<>>
          /\ pc' = IF caller = "sink" THEN "sink" ELSE "readback"
          /\ UNCHANGED <<file, hdr, pay, caller, btseq, active>>
      BY <1>11, <2>1 DEF FlushVerify, nonvolatile
    <3>2. Len(row) = RowCells
      BY <1>0, <3>1 DEF TypeInv, RowRoom, Flushing
    <3>3. /\ base = Len(img)
          /\ Len(pay) <= file.len
          /\ Len(pay) <= base + Len(row)
          /\ caller = "sink" => Len(pay) = base + Len(row)
          /\ \A i \in 1 .. base : i <= Len(pay) => img[i] = pay[i]
          /\ \A j \in 1 .. Len(row) : base + j <= Len(pay) => row[j] = pay[base + j]
          /\ hdr /\ HeaderStatus(file) = "OK"
          /\ base > FinalPage => btseq[Inactive] = BlankWord
          /\ base = FinalPage => btseq[Inactive] = BlankWord
          /\ caller = "finalize" => pay = file.crc
      BY <1>0, <3>1 DEF TransferOK, Transfer, Receiving, Flushing
    <3>4. Len(img') = base + RowCells
      <4>1. Len(img \o row) = Len(img) + Len(row)
        BY <1>t
      <4> QED BY <3>1, <3>2, <3>3, <4>1
    <3>5. \A i \in 1 .. base' : i <= Len(pay') => img'[i] = pay'[i]
      <4> SUFFICES ASSUME NEW i \in 1 .. base', i <= Len(pay)
                   PROVE  img'[i] = pay[i]
        BY <3>1
      <4>1. CASE i <= base
        <5>1. i \in 1 .. Len(img)
          BY <1>t, <3>3, <4>1
        <5>2. img'[i] = img[i]
          BY <1>t, <3>1, <5>1
        <5> QED BY <3>3, <5>1, <5>2
      <4>2. CASE i > base
        <5>1. i - base \in 1 .. Len(row)
          BY <1>t, <3>1, <3>2, <4>2
        <5>2. img'[i] = row[i - Len(img)]
          BY <1>t, <3>1, <3>2, <3>3, <4>2, <5>1
        <5>3. base + (i - base) = i
          BY <1>t
        <5> QED BY <3>3, <5>1, <5>2, <5>3
      <4> QED BY <1>t, <4>1, <4>2
    <3>6. PICK q \in 0 .. base : base = RowCells * q
      BY <1>0, <3>1 DEF TransferOK, Transfer, Flushing
    <3>7. \E r \in 0 .. base' : base' = RowCells * r
      <4>1. base' = RowCells * (q + 1)
        BY <1>t, <3>1, <3>6
      <4>2. q + 1 \in 0 .. base'
        <5>1. q \in Nat /\ q <= base /\ base' = base + RowCells /\ RowCells >= 1
          BY <1>t, <3>1
        <5> QED BY <1>t, <5>1
      <4> QED BY <4>1, <4>2
    <3>8. base' > FinalPage => btseq'[Inactive'] = BlankWord
      <4>1. btseq'[Inactive'] = btseq[Inactive]
        BY <3>1 DEF Inactive
      <4>2. CASE base > FinalPage \/ base = FinalPage
        BY <3>3, <4>1, <4>2
      <4>3. CASE base < FinalPage
        <5>1. PICK b \in Nat : FinalPage = RowCells * b
          BY FinalPageFacts
        <5>2. ASSUME base + RowCells > FinalPage PROVE FALSE
          <6>1. q = b
            BY <1>t, <3>6, <4>3, <5>1, <5>2, RowsAlign
          <6> QED BY <1>t, <3>6, <4>3, <5>1, <6>1
        <5> QED BY <1>t, <3>1, <5>2
      <4> QED BY <1>t, <4>2, <4>3
    <3>9. HeaderStatus(file)' = HeaderStatus(file)
      BY <3>1 DEF HeaderStatus
    <3>10. caller \in {"sink", "finalize"}
      BY <1>0 DEF TypeOK
    <3>11. Len(row') = 0 /\ base' \in Nat
      BY <1>t, <3>1
    <3>12. /\ Len(pay') <= file'.len
           /\ Len(pay') <= base' + Len(row')
           /\ caller' = "sink" => Len(pay') = base' + Len(row')
           /\ Len(pay') <= base'
      BY <1>t, <3>1, <3>2, <3>3, <3>11
    <3>13. \A j \in 1 .. Len(row') :
              base' + j <= Len(pay') => row'[j] = pay'[base' + j]
      BY <3>11
    <3>14. pc' \in {"sink", "readback"} /\ (pc' = "sink" => caller' = "sink")
      BY <3>1
    <3>15. hdr' = TRUE
      BY <1>0, <3>1, <3>3 DEF TypeOK
    <3>16. caller' = "finalize" \/ pc' = "readback" => pay' = file'.crc
      BY <3>1, <3>3, <3>10
    <3>17. base' = Len(img')
      BY <3>1, <3>4
    <3>18. HeaderStatus(file)' = "OK"
      BY <3>3, <3>9
    <3> QED BY <3>5, <3>7, <3>8, <3>12, <3>13, <3>14, <3>15, <3>16, <3>17, <3>18
            DEF TransferOK, Receiving, Flushing
  <2>2. CASE ~RowReadsBack
    BY <1>11, <2>2, <1>x, <1>n DEF FlushVerify, FlushFails, Return
  <2> QED BY <2>1, <2>2
<1>12. CASE Finalize
  <2>1. CASE PackageStatus # "OK"
    BY <1>12, <2>1, <1>x, <1>n DEF Finalize, Return
  <2>2. CASE PackageStatus = "OK"
    <3>1. /\ pc = "finalize"
          /\ IF row = <<>>
             THEN pc' = "readback" /\ UNCHANGED <<row, caller>>
             ELSE row' = Padded(row) /\ caller' = "finalize" /\ pc' = FlushStart
          /\ UNCHANGED <<file, hdr, pay, base, img, btseq, active>>
      BY <1>12, <2>2 DEF Finalize, nonvolatile
    <3>2. pay = file.crc
      BY <2>2 DEF PackageStatus
    <3>3. /\ base = Len(img)
          /\ \E q \in 0 .. base : base = RowCells * q
          /\ Len(pay) <= file.len
          /\ caller = "sink"
          /\ Len(pay) = base + Len(row)
          /\ \A i \in 1 .. base : i <= Len(pay) => img[i] = pay[i]
          /\ \A j \in 1 .. Len(row) : base + j <= Len(pay) => row[j] = pay[base + j]
          /\ hdr /\ HeaderStatus(file) = "OK"
          /\ base > FinalPage => btseq[Inactive] = BlankWord
      BY <1>0, <3>1 DEF TransferOK, Transfer, Receiving, Flushing
    <3>4. HeaderStatus(file)' = HeaderStatus(file) /\ Inactive' = Inactive
      BY <3>1 DEF HeaderStatus, Inactive
    <3>5. CASE row = <<>>
      BY <1>t, <3>1, <3>2, <3>3, <3>4, <3>5 DEF TransferOK, Receiving, Flushing
    <3>6. CASE row # <<>>
      <4>1. /\ row' = Padded(row) /\ caller' = "finalize" /\ pc' = FlushStart
        BY <3>1, <3>6
      <4>2. Len(row) < RowCells
        BY <1>0, <3>1 DEF TypeInv, RowRoom, Receiving
      <4>3. Len(row') = RowCells
        BY <1>t, <4>1 DEF Padded
      <4>4. \A j \in 1 .. RowCells : j <= Len(row) => row'[j] = row[j]
        BY <4>1 DEF Padded
      <4>5. ASSUME NEW j \in 1 .. Len(row'), base' + j <= Len(pay')
            PROVE  row'[j] = pay'[base' + j]
        <5>1. j \in 1 .. RowCells /\ j <= Len(row) /\ j \in 1 .. Len(row)
          BY <1>t, <3>1, <3>3, <4>3, <4>5
        <5>2. row'[j] = row[j] /\ row[j] = pay[base + j]
          BY <3>1, <3>3, <4>4, <4>5, <5>1
        <5> QED BY <3>1, <5>2
      <4>6. Len(row) > 0
        BY <1>t, <3>6
      <4>7. pc' = "program" => base # FinalPage
        BY <4>1, FinalPageFacts DEF FlushStart
      <4>8. base' = Len(img') /\ \E q \in 0 .. base' : base' = RowCells * q
        BY <3>1, <3>3
      <4>9. /\ Len(pay') <= file'.len
            /\ Len(pay') <= base' + Len(row')
            /\ base' < Len(pay')
        BY <1>t, <3>1, <3>3, <4>2, <4>3, <4>6
      <4>10. \A i \in 1 .. base' : i <= Len(pay') => img'[i] = pay'[i]
        BY <3>1, <3>3
      <4>11. pc' \in {"erase", "program"} /\ caller' = "finalize" /\ pay' = file'.crc
        BY <1>f, <3>1, <3>2, <4>1
      <4>12. /\ base' > FinalPage => btseq'[Inactive'] = BlankWord
             /\ pc' = "program" /\ base' = FinalPage
                    => btseq'[Inactive'] = BlankWord
        BY <3>1, <3>3, <3>4, <4>7
      <4>13. hdr' = TRUE /\ HeaderStatus(file)' = "OK"
        BY <1>0, <3>1, <3>3, <3>4 DEF TypeOK
      <4> QED BY <4>5, <4>8, <4>9, <4>10, <4>11, <4>12, <4>13
              DEF TransferOK, Receiving, Flushing
    <3> QED BY <3>5, <3>6
  <2> QED BY <2>1, <2>2
<1>13. CASE Readback
  BY <1>13, <1>x, <1>n DEF Readback, Return
<1>14. CASE CommitBegin
  BY <1>14, <1>x, <1>n DEF CommitBegin, CommitReturns
<1>15. CASE CommitErase
  BY <1>15, <1>x, <1>n DEF CommitErase, CommitReturns
<1>16. CASE CommitProgram
  BY <1>16, <1>x, <1>n DEF CommitProgram
<1>17. CASE CommitVerify
  BY <1>17, <1>x, <1>n DEF CommitVerify
<1>18. CASE Rollback
  BY <1>18, <1>x, <1>n DEF Rollback, CommitReturns
<1>19. CASE CommitReset \/ LosePower \/ LosePowerInOperation
  BY <1>19, <1>x, <1>n DEF CommitReset, LosePower, LosePowerInOperation, PowerOff
<1>20. CASE Boot
  BY <1>20, <1>x, <1>n DEF Boot
<1> QED
  BY <1>1, <1>2, <1>3, <1>4, <1>5, <1>6, <1>7, <1>8, <1>9, <1>10, <1>11, <1>12,
     <1>13, <1>14, <1>15, <1>16, <1>17, <1>18, <1>19, <1>20
     DEF Next
-----------------------------------------------------------------------------
(* The gate.  The image that a read-back found in the flash: the cells      *)
(* agree with the accepted payload, which is the image its CRC names.       *)
LEMMA ReadbackStages ==
    ASSUME TypeInv, TransferOK, pc = "readback", ImageReadsBack
    PROVE  StagedBelow
<1>1. /\ hdr /\ HeaderStatus(file) = "OK" /\ pay = file.crc
      /\ base = Len(img) /\ Len(pay) <= base
      /\ \A i \in 1 .. base : i <= Len(pay) => img[i] = pay[i]
      /\ base > FinalPage => btseq[Inactive] = BlankWord
  BY DEF TransferOK, Transfer, Receiving
<1>2. /\ base \in Nat /\ Len(pay) \in Nat /\ FinalPage \in Nat
      /\ file \in Files \cup {NoFile}
  BY FinalPageFacts DEF TypeInv, TypeOK
<1>3. pay \in Images
  BY <1>1, <1>2, FileFacts
<1>4. \A i \in 1 .. Len(pay) : pay[i] \notin {Erased, Pad}
  BY <1>3, ImagesAssumption
<1>5. Holds(Inactive, pay)
  <2> SUFFICES ASSUME NEW i \in 1 .. Len(pay)
               PROVE  cells[Inactive][i - 1] = pay[i]
    BY DEF Holds
  <2>1. i \in 1 .. base
    BY <1>1, <1>2
  <2>2. Reads(cells[Inactive][i - 1]) = Reads(pay[i])
    BY <1>1, <2>1 DEF ImageReadsBack
  <2>3. Reads(pay[i]) = pay[i] /\ pay[i] # Pad
    BY <1>4 DEF Reads
  <2> QED BY <2>2, <2>3 DEF Reads
<1>6. btseq[Inactive] = BlankWord \/ Len(pay) <= FinalPage
  BY <1>1, <1>2
<1> QED BY <1>3, <1>5, <1>6 DEF StagedBelow

(* An erase of the final page spares an image that ends below it. *)
LEMMA ErasePageSpares ==
    ASSUME TypeOK, StagedBelow, btseq[Inactive] # BlankWord, NEW mode,
           ErasePage(Inactive, FinalPage, mode), active' = active
    PROVE  Intact(Inactive)' /\ StagedBelow'
<1>1. PICK k \in Images : Holds(Inactive, k) /\ Len(k) <= FinalPage
  BY DEF StagedBelow
<1>2. /\ Inactive \in Parts /\ CellsOK /\ WordsOK
  BY InactiveFacts DEF TypeOK, CellsOK, WordsOK
<1>3. \A i \in Cells : i \notin Span(FinalPage, PageCells)
          => cells'[Inactive][i] = cells[Inactive][i]
  BY <1>2, ErasePageFacts
<1>4. /\ Len(k) \in Nat /\ FinalPage \in Nat
      /\ PartCells \in Nat /\ FinalPage <= PartCells
  <2>1. k \in Seq(Data)
    BY ImagesAssumption
  <2>2. FinalPage \in Nat /\ PartCells \in Nat /\ PageCells \in Nat
    BY FinalPageFacts, GeometryFacts
  <2> QED BY <2>1, <2>2 DEF FinalPage
<1>5. ASSUME NEW i \in 1 .. Len(k) PROVE cells'[Inactive][i - 1] = k[i]
  <2>1. i - 1 \in Cells /\ i - 1 \notin Span(FinalPage, PageCells)
    BY <1>1, <1>4 DEF Cells, Span
  <2> QED BY <1>1, <1>3, <2>1 DEF Holds
<1>6. Holds(Inactive, k)'
  BY <1>5 DEF Holds, Inactive
<1> QED BY <1>1, <1>6 DEF Intact, StagedBelow

LEMMA GateStep ==
    ASSUME SafeInv, Next
    PROVE  GateOK'
<1>0. TypeInv /\ TypeOK /\ TransferOK /\ GateOK
  BY DEF SafeInv, TypeInv
<1>v. pc # "idle" => verified = FALSE
  BY <1>0 DEF GateOK, TypeOK
<1>x. ASSUME verified' = FALSE,
             pc' \notin {"commitErase", "commitProgram", "commitVerify",
                         "rollback", "reset"}
      PROVE  GateOK'
  BY <1>x DEF GateOK
<1>r. ASSUME NEW s, s # "OK", Return(s) PROVE GateOK'
  BY <1>r, <1>x DEF Return
<1>f. FlushStart \in {"erase", "program"}
  BY DEF FlushStart
<1>1. ASSUME NEW f \in Files, Receive(f) PROVE GateOK'
  BY <1>1, <1>x DEF Receive
<1>2. ASSUME NEW n \in BlockSizes, Block(n) PROVE GateOK'
  BY <1>2, <1>v, <1>x DEF Block
<1>3. CASE TransferFails
  BY <1>3, <1>r DEF TransferFails
<1>4. CASE EndOfTransfer
  BY <1>4, <1>v, <1>x DEF EndOfTransfer
<1>5. CASE SinkHeader
  BY <1>5, <1>v, <1>x, <1>r DEF SinkHeader
<1>6. CASE SinkPayload
  BY <1>6, <1>v, <1>x, <1>f DEF SinkPayload
<1>7. CASE SinkPadding
  BY <1>7, <1>v, <1>x, <1>r DEF SinkPadding
<1>8. CASE SinkReturns
  BY <1>8, <1>v, <1>x DEF SinkReturns
<1>9. CASE FlushErase
  BY <1>9, <1>v, <1>x, <1>r DEF FlushErase, FlushFails
<1>10. CASE FlushProgram
  BY <1>10, <1>v, <1>x, <1>r DEF FlushProgram, FlushFails
<1>11. CASE FlushVerify
  BY <1>11, <1>v, <1>x, <1>r DEF FlushVerify, FlushFails
<1>12. CASE Finalize
  BY <1>12, <1>v, <1>x, <1>r, <1>f DEF Finalize
<1>13. CASE Readback
  <2>1. CASE ImageReadsBack
    <3>1. StagedBelow
      BY <1>0, <1>13, <2>1, ReadbackStages DEF Readback
    <3>2. pc' = "idle" /\ UNCHANGED <<cells, btseq, active>>
      BY <1>13 DEF Readback, Return, nonvolatile
    <3>3. StagedBelow'
      BY <3>1, <3>2 DEF StagedBelow, Holds, Inactive
    <3> QED BY <3>2, <3>3 DEF GateOK
  <2>2. CASE ~ImageReadsBack
    BY <1>13, <2>2, <1>r DEF Readback
  <2> QED BY <2>1, <2>2
<1>14. CASE CommitBegin
  <2>1. verified' = FALSE /\ UNCHANGED <<cells, btseq, active>>
    BY <1>14 DEF CommitBegin, nonvolatile
  <2>2. CASE CommitStatus # "OK"
    BY <1>14, <2>1, <2>2, <1>x DEF CommitBegin, CommitReturns
  <2>3. CASE CommitStatus = "OK"
    <3>1. StagedBelow
      BY <1>0, <2>3 DEF CommitStatus, GateOK
    <3>2. pc' = IF btseq[Inactive] = BlankWord THEN "commitProgram" ELSE "commitErase"
      BY <1>14, <2>3 DEF CommitBegin
    <3>3. StagedBelow' /\ Intact(Inactive)' /\ btseq'[Inactive'] = btseq[Inactive]
      BY <2>1, <3>1 DEF StagedBelow, Intact, Holds, Inactive
    <3> QED BY <2>1, <3>2, <3>3 DEF GateOK
  <2> QED BY <2>2, <2>3
<1>15. CASE CommitErase
  <2>1. PICK o \in EraseOutcomes :
           /\ MayHappen(o)
           /\ ErasePage(Inactive, FinalPage, o.mode)
           /\ IF o.ok THEN pc' = "commitProgram" /\ UNCHANGED <<next, commit>>
                      ELSE CommitReturns("NVM")
    BY <1>15 DEF CommitErase
  <2>2. verified' = FALSE /\ active' = active /\ pc = "commitErase"
    BY <1>15, <1>v DEF CommitErase
  <2>3. CASE o.ok
    <3>1. o.mode = "done" /\ pc' = "commitProgram"
      BY <2>1, <2>3, SoundErase
    <3>2. Intact(Inactive)'
      BY <1>0, <2>1, <2>2, ErasePageSpares DEF GateOK
    <3>3. btseq'[Inactive'] = BlankWord
      <4>1. Inactive \in Parts /\ CellsOK /\ WordsOK
        BY <1>0, InactiveFacts DEF TypeOK, CellsOK, WordsOK
      <4>2. btseq'[Inactive] = BlankWord
        BY <2>1, <3>1, <4>1, ErasePageFacts
      <4> QED BY <2>2, <4>2 DEF Inactive
    <3> QED BY <2>2, <3>1, <3>2, <3>3 DEF GateOK
  <2>4. CASE ~o.ok
    BY <2>1, <2>2, <2>4, <1>x DEF CommitReturns
  <2> QED BY <2>3, <2>4
<1>16. CASE CommitProgram
  <2>1. /\ pc = "commitProgram" /\ pc' \in {"commitVerify", "rollback"}
        /\ UNCHANGED <<cells, active, verified>>
    BY <1>16 DEF CommitProgram, ProgramWord
  <2>2. Intact(Inactive)'
    BY <1>0, <2>1 DEF GateOK, Intact, Holds, Inactive
  <2> QED BY <1>v, <2>1, <2>2 DEF GateOK
<1>17. CASE CommitVerify
  <2>1. /\ pc = "commitVerify" /\ pc' \in {"reset", "rollback"}
        /\ UNCHANGED <<cells, active, verified>>
    BY <1>17 DEF CommitVerify, nonvolatile
  <2>2. Intact(Inactive)'
    BY <1>0, <2>1 DEF GateOK, Intact, Holds, Inactive
  <2> QED BY <1>v, <2>1, <2>2 DEF GateOK
<1>18. CASE Rollback
  BY <1>18, <1>v, <1>x DEF Rollback, CommitReturns
<1>19. CASE CommitReset \/ LosePower \/ LosePowerInOperation
  BY <1>19, <1>x DEF CommitReset, LosePower, LosePowerInOperation, PowerOff
<1>20. CASE Boot
  BY <1>20, <1>v, <1>x DEF Boot
<1> QED
  BY <1>1, <1>2, <1>3, <1>4, <1>5, <1>6, <1>7, <1>8, <1>9, <1>10, <1>11, <1>12,
     <1>13, <1>14, <1>15, <1>16, <1>17, <1>18, <1>19, <1>20
     DEF Next

-----------------------------------------------------------------------------
(* The provisioned board is safe: partition p holds what it was loaded with. *)
LEMMA SafeInit ==
    Init => SafeInv
<1> SUFFICES ASSUME Init PROVE SafeInv
  OBVIOUS
<1>1. TypeInv /\ TypeOK /\ WordsOK
  BY TypeInit DEF TypeInv, TypeOK, WordsOK
<1>2. pc = "idle" /\ verified = FALSE
  BY DEF Init, RamCleared
<1>3. PICK k \in Images, old \in Images \cup {<<>>} :
         /\ btseq \in [Parts -> {BlankWord} \cup {Encode(s) : s \in Seqs}]
         /\ active = Selected(btseq)
         /\ cells = [p \in Parts |-> IF p = active THEN Load(k) ELSE Load(old)]
  BY DEF Init
<1>4. Holds(active, k)
  <2>1. active \in Parts
    BY <1>1 DEF TypeOK
  <2>2. Len(k) \in Nat /\ Len(k) <= PartCells /\ PartCells \in Nat
    <3>1. k \in Seq(Data) /\ Len(k) <= MaxImage
      BY ImagesAssumption
    <3> QED BY <3>1, GeometryFacts, GeometryAssumption DEF MaxImage
  <2>3. cells[active] = Load(k)
    BY <1>3, <2>1
  <2> SUFFICES ASSUME NEW i \in 1 .. Len(k) PROVE cells[active][i - 1] = k[i]
    BY DEF Holds
  <2>4. i - 1 \in Cells /\ i - 1 < Len(k) /\ i - 1 + 1 = i
    BY <2>2 DEF Cells
  <2> QED BY <2>3, <2>4 DEF Load
<1>5. ASSUME NEW p \in Parts PROVE Solid(btseq[p])
  <2>1. btseq[p] \in {BlankWord} \cup {Encode(s) : s \in Seqs}
    BY <1>3
  <2>2. \A s \in Seqs : Solid(Encode(s))
    BY SeqMaxAssumption DEF Solid, Encode, Seqs
  <2>3. Solid(BlankWord)
    BY BlankIsInvalid
  <2> QED BY <2>1, <2>2, <2>3
<1>6. FlashSafe
  <2>1. Intact(active)
    BY <1>4 DEF Intact
  <2>2. active = 2 => SeqOf(btseq[2]) < SeqMax
    BY <1>1, <1>3, SelectedFacts
  <2> QED BY <1>2, <1>3, <1>5, <2>1, <2>2 DEF FlashSafe
<1>7. TransferOK /\ GateOK
  BY <1>2 DEF TransferOK, GateOK, Transfer, Receiving, Flushing
<1> QED BY <1>1, <1>6, <1>7 DEF SafeInv

LEMMA SafeStep ==
    SafeInv /\ [Next]_vars => SafeInv'
<1> SUFFICES ASSUME SafeInv, [Next]_vars PROVE SafeInv'
  OBVIOUS
<1>1. TypeInv' /\ TypeOK'
  <2>1. TypeInv'
    BY TypeStep DEF SafeInv
  <2> QED BY <2>1 DEF TypeInv
<1>2. CASE Next
  BY <1>1, <1>2, FlashStep, TransferStep, GateStep DEF SafeInv
<1>3. CASE UNCHANGED vars
  <2>1. FlashSafe'
    BY <1>3 DEF SafeInv, vars, FlashSafe, Intact, Holds, Selected
  <2>2. TransferOK'
    BY <1>3 DEF SafeInv, vars, TransferOK, HeaderStatus, Inactive
  <2>3. GateOK'
    BY <1>3 DEF SafeInv, vars, GateOK, StagedBelow, Intact, Holds, Inactive
  <2> QED BY <1>1, <2>1, <2>2, <2>3 DEF SafeInv
<1> QED BY <1>2, <1>3

LEMMA SafeInvariant == Spec => []SafeInv
BY SafeInit, SafeStep, PTL DEF Spec

(* Whatever is cut short or fails, a reset boots a partition that holds a   *)
(* complete released image: fw_sink, fw_flush_row and fw_commit never write *)
(* the selected partition and stamp only behind the read-back.              *)
THEOREM BootAlwaysIntact == Spec => []BootIsIntact
<1>1. SafeInv => BootIsIntact
  <2> SUFFICES ASSUME SafeInv, ~exposed PROVE Intact(Selected(btseq))
    BY DEF BootIsIntact
  <2>0. TypeOK /\ FlashSafe /\ GateOK
    BY DEF SafeInv, TypeInv
  <2>1. CASE pc \in Unstamped
    BY <2>0, <2>1 DEF FlashSafe, Unstamped
  <2>2. CASE pc \in {"off", "dead"}
    BY <2>0, <2>2 DEF FlashSafe
  <2>3. CASE pc \in {"commitVerify", "rollback", "reset"}
    <3>1. Intact(active) /\ Intact(Inactive)
      BY <2>0, <2>3 DEF FlashSafe, GateOK
    <3>2. Selected(btseq) \in Parts
      BY DEF Selected, Parts
    <3>3. Selected(btseq) = active \/ Selected(btseq) = Inactive
      BY <2>0, <3>2, InactiveFacts DEF TypeOK
    <3> QED BY <3>1, <3>3
  <2> QED BY <2>0, <2>1, <2>2, <2>3 DEF Unstamped, TypeOK
<1> QED BY <1>1, SafeInvariant, PTL

(* Until the stamp is being programmed, and after every fw_commit that      *)
(* returned, a reset would select the running partition.                    *)
THEOREM ActiveStaysSelected == Spec => []ActiveSelected
<1>1. SafeInv => ActiveSelected
  BY DEF SafeInv, TypeInv, TypeOK, FlashSafe, ActiveSelected, Unstamped
<1> QED BY <1>1, SafeInvariant, PTL

(* The gate of fw_update_receive, and the commit it admits, stand on a      *)
(* released image complete in the inactive flash: no step of fw_commit      *)
(* reaches it before the reset.                                             *)
THEOREM VerifiedStaysIntact == Spec => []VerifiedImageIntact
<1>1. SafeInv => VerifiedImageIntact
  <2>1. StagedBelow => Intact(Inactive)
    BY DEF StagedBelow, Intact
  <2> QED BY <2>1 DEF SafeInv, GateOK, VerifiedImageIntact
<1> QED BY <1>1, SafeInvariant, PTL

-----------------------------------------------------------------------------
(* The update implements the atomic one of ABUpdate.                        *)

(* A set of natural numbers that is not empty has a least element. *)
LEMMA LeastElement ==
    ASSUME NEW T \in SUBSET Nat, T # {}
    PROVE  \E x \in T : \A y \in T : x <= y
<1> DEFINE R == OpToRel(<, Nat)
<1>1. IsWellFoundedOn(R, Nat)
  BY NatLessThanWellFounded
<1>2. \A x, y \in Nat : y < x => <<y, x>> \in R
  BY DEF OpToRel
<1>3. \E x \in T : \A y \in T : ~ (<<y, x>> \in R)
  <2> HIDE DEF R
  <2> QED BY <1>1, WFMin
<1> HIDE DEF R
<1>4. PICK x \in T : \A y \in T : ~ (<<y, x>> \in R)
  BY <1>3
<1>5. \A y \in T : ~ (y < x)
  <2>1. T \subseteq Nat
    OBVIOUS
  <2> QED BY <1>2, <1>4, <2>1, Zenon
<1> QED BY <1>5

(* Cells that hold an image hold a longest one: ImageOf is one of Images. *)
LEMMA ImageOfType ==
    ASSUME NEW c
    PROVE  /\ (\E k \in Images : \A i \in 1 .. Len(k) : c[i - 1] = k[i]) => ImageOf(c) \in Images
           /\ ImageOf(c) \in Images \cup {NoImage}
<1> DEFINE Held == {k \in Images : \A i \in 1 .. Len(k) : c[i - 1] = k[i]}
           Spare == {MaxImage - Len(k) : k \in Held}
<1>1. ImageOf(c) = IF Held = {} THEN NoImage
                   ELSE CHOOSE k \in Held : \A o \in Held : Len(o) <= Len(k)
  BY DEF ImageOf
<1>2. (\E k \in Images : \A i \in 1 .. Len(k) : c[i - 1] = k[i]) => Held # {}
  OBVIOUS
<1>3. ASSUME Held # {} PROVE ImageOf(c) \in Images
  <2>1. \A k \in Held : Len(k) \in Nat /\ Len(k) <= MaxImage
    BY ImagesAssumption
  <2>2. MaxImage \in Int
    BY GeometryFacts
  <2>3. Spare \in SUBSET Nat /\ Spare # {}
    BY <1>3, <2>1, <2>2
  <2>4. PICK s \in Spare : \A t \in Spare : s <= t
    BY <2>3, LeastElement
  <2>5. PICK k \in Held : s = MaxImage - Len(k)
    BY <2>4
  <2>6. ASSUME NEW o \in Held PROVE Len(o) <= Len(k)
    <3>1. MaxImage - Len(o) \in Spare
      OBVIOUS
    <3>2. s <= MaxImage - Len(o)
      BY <2>4, <3>1
    <3>3. Len(o) \in Nat /\ Len(k) \in Nat
      BY <2>1
    <3> QED BY <2>2, <2>5, <3>2, <3>3
  <2>7. Held \subseteq Images
    OBVIOUS
  <2> HIDE DEF Held
  <2> QED BY <1>1, <1>3, <2>6, <2>7
<1> HIDE DEF Held
<1> QED BY <1>1, <1>2, <1>3

LEMMA StagedType ==
    Staged \in Images \cup {NoImage} /\ (Staged \in Images \cup {NoImage})'
BY ImageOfType DEF Staged, ImageIn, NoImage

(* With no misbehaving operation a stamp is always read back and never       *)
(* rolled back.                                                             *)
NoRollback ==
    /\ pc # "rollback" /\ exposed = FALSE
    /\ pc = "commitVerify" => btseq[Inactive] = Encode(next)

LEMMA AllSound ==
    ASSUME MaxFaults = 0, faults \in 0 .. MaxFaults, NEW o, MayHappen(o)
    PROVE  o = Sound
BY DEF MayHappen

LEMMA NoRollbackStep ==
    ASSUME MaxFaults = 0, SafeInv, NoRollback, [Next]_vars
    PROVE  NoRollback'
<1>0. TypeOK /\ GateOK /\ Inactive \in Parts
  BY InactiveFacts DEF SafeInv, TypeInv, TypeOK
<1>n. pc # "rollback" /\ exposed = FALSE
  BY DEF NoRollback
<1>f. FlushStart \in {"erase", "program"}
  BY DEF FlushStart
<1>x. ASSUME pc' \notin {"rollback", "commitVerify"}, exposed' = exposed PROVE NoRollback'
  BY <1>n, <1>x DEF NoRollback
<1>1. ASSUME NEW f \in Files, Receive(f) PROVE NoRollback'
  BY <1>1, <1>x DEF Receive
<1>2. ASSUME NEW n \in BlockSizes, Block(n) PROVE NoRollback'
  BY <1>2, <1>x DEF Block
<1>3. CASE TransferFails \/ EndOfTransfer
  BY <1>3, <1>x DEF TransferFails, EndOfTransfer, Return
<1>4. CASE SinkHeader \/ SinkPayload \/ SinkPadding \/ SinkReturns
  BY <1>4, <1>x, <1>f DEF SinkHeader, SinkPayload, SinkPadding, SinkReturns, Return
<1>5. CASE FlushErase \/ FlushProgram \/ FlushVerify
  BY <1>5, <1>x DEF FlushErase, FlushProgram, FlushVerify, FlushFails, Return
<1>6. CASE Finalize \/ Readback
  BY <1>6, <1>x, <1>f DEF Finalize, Readback, Return
<1>7. CASE CommitBegin \/ CommitErase
  BY <1>7, <1>x DEF CommitBegin, CommitErase, CommitReturns
<1>8. CASE CommitProgram
  <2>1. PICK o \in ProgramOutcomes :
           /\ MayHappen(o)
           /\ ProgramWord(Inactive, Encode(next), o.mode)
           /\ IF o.ok THEN pc' = "commitVerify" /\ UNCHANGED commit
                      ELSE pc' = "rollback" /\ commit' = "NVM"
    BY <1>8 DEF CommitProgram
  <2>2. o.ok = TRUE /\ o.mode = "done"
    BY <1>0, <2>1, AllSound DEF Sound, TypeOK
  <2>3. btseq[Inactive] = BlankWord
    BY <1>0, <1>8 DEF CommitProgram, GateOK
  <2>4. btseq' = [btseq EXCEPT ![Inactive] = Encode(next)]
    BY <2>1, <2>2, <2>3 DEF ProgramWord, Programmed
  <2>5. btseq'[Inactive] = Encode(next)
    BY <1>0, <2>4 DEF TypeOK
  <2>6. /\ Inactive' = Inactive /\ next' = next /\ exposed' = exposed
        /\ pc' = "commitVerify"
    BY <1>8, <2>1, <2>2 DEF CommitProgram, Inactive
  <2>7. Encode(next)' = Encode(next)
    BY <2>6 DEF Encode
  <2> QED BY <1>n, <2>5, <2>6, <2>7 DEF NoRollback
<1>9. CASE CommitVerify
  BY <1>9, <1>x DEF CommitVerify, NoRollback
<1>10. CASE Rollback
  BY <1>10, <1>n DEF Rollback
<1>11. CASE CommitReset \/ LosePower \/ LosePowerInOperation
  BY <1>11, <1>n, <1>x DEF CommitReset, LosePower, LosePowerInOperation, PowerOff
<1>12. CASE Boot
  BY <1>12, <1>x DEF Boot
<1>13. CASE UNCHANGED vars
  BY <1>13 DEF vars, NoRollback, Inactive, Encode
<1> QED BY <1>1, <1>2, <1>3, <1>4, <1>5, <1>6, <1>7, <1>8, <1>9, <1>10, <1>11, <1>12,
           <1>13 DEF Next

-----------------------------------------------------------------------------
(* A step that leaves the selected partition selected and alone only stages. *)
LEMMA Stages ==
    ASSUME TypeOK, TypeOK',
           Selected(btseq') = Selected(btseq),
           cells'[Selected(btseq)] = cells[Selected(btseq)]
    PROVE  AB!Stage
<1>1. Selected(btseq)' = Selected(btseq)
  BY DEF Selected
<1>2. ImageIn(Selected(btseq))' = ImageIn(Selected(btseq))
  BY <1>1 DEF ImageIn
<1>3. Staged' \in Images \cup {NoImage}
  BY StagedType DEF NoImage
<1> QED BY <1>2, <1>3 DEF AB!Stage

(* The stamp, complete or cut short, installs what is staged or nothing.    *)
LEMMA StampCommits ==
    ASSUME SafeInv, TypeOK', NoRollback, pc = "commitProgram",
           NEW mode, ProgramWord(Inactive, Encode(next), mode),
           pc' \in {"commitVerify", "off"}, verified' = FALSE
    PROVE  AB!Next
<1>0. TypeOK /\ FlashSafe /\ GateOK /\ CellsOK /\ WordsOK /\ next \in Seqs
  BY DEF SafeInv, TypeInv, TypeOK, CellsOK, WordsOK
<1>1. /\ Inactive \in Parts /\ Inactive # active /\ active \in Parts
      /\ \A p \in Parts : p = active \/ p = Inactive
  BY <1>0, InactiveFacts DEF TypeOK
<1>2. cells' = cells
  BY <1>0, <1>1, ProgramWordFacts
<1>3. Selected(btseq) = active
  BY <1>0 DEF FlashSafe, NoRollback, Unstamped, Pcs
<1>4. Selected(btseq') \in Parts
  BY DEF Selected, Parts
<1>5. CASE Selected(btseq') = active
  BY <1>0, <1>2, <1>3, <1>5, Stages DEF AB!Next
<1>6. CASE Selected(btseq') = Inactive
  <2>1. Staged = ImageOf(cells[Inactive])
    BY DEF Staged, ImageIn
  <2>2. Staged \in Images
    BY <1>0, <2>1, ImageOfType DEF GateOK, Intact, Holds
  <2>3. Staged' = NoImage
    BY DEF Staged, NoImage
  <2>4. Selected(btseq)' = Inactive
    BY <1>6 DEF Selected
  <2>5. ImageIn(Selected(btseq))' = Staged
    BY <1>2, <2>1, <2>4 DEF ImageIn
  <2> QED BY <2>2, <2>3, <2>5 DEF AB!Next, AB!Commit
<1> QED BY <1>1, <1>4, <1>5, <1>6

LEMMA StepRefines ==
    ASSUME MaxFaults = 0, SafeInv, SafeInv', NoRollback, [Next]_vars
    PROVE  [AB!Next]_<<ImageIn(Selected(btseq)), Staged>>
<1>0. TypeInv /\ TypeOK /\ FlashSafe /\ TransferOK /\ GateOK /\ TypeOK' /\ WordsOK'
  BY DEF SafeInv, TypeInv, TypeOK, WordsOK
<1>1. Inactive \in Parts /\ active \in Parts
  BY <1>0, InactiveFacts DEF TypeOK
<1>q. ASSUME UNCHANGED <<cells, btseq>> PROVE AB!Next
  <2>1. Selected(btseq') = Selected(btseq)
    BY <1>q
  <2> QED BY <1>0, <1>q, <2>1, Stages DEF AB!Next
<1>s. ASSUME pc \in Unstamped PROVE Selected(btseq) = active /\ pc \notin {"off", "dead"}
  BY <1>0, <1>s DEF FlashSafe, NoRollback, Unstamped
<1>e. ASSUME pc \in Unstamped, NEW first, NEW mode, ErasePage(Inactive, first, mode)
      PROVE  AB!Next
  <2>1. /\ \A p \in Parts : Solid(btseq[p])
        /\ active = 2 => SeqOf(btseq[2]) < SeqMax
    BY <1>0, <1>s, <1>e DEF FlashSafe
  <2>2. /\ cells'[active] = cells[active]
        /\ btseq'[active] = btseq[active]
        /\ SeqOf(btseq'[Inactive]) \in {SeqOf(btseq[Inactive]), SeqMax}
    BY <1>0, <1>e, <2>1, EraseInactive
  <2>3. Selected(btseq') = active
    BY <1>0, <1>s, <1>e, <2>1, <2>2, SelectionStays
  <2> QED BY <1>0, <1>s, <1>e, <2>2, <2>3, Stages DEF AB!Next
<1>p. ASSUME pc = "program", NEW mode,
             ProgramRow(Inactive, base, row, mode) \/ DisturbCell(Inactive, base, row)
      PROVE  AB!Next
  <2>1. cells'[active] = cells[active] /\ btseq' = btseq
    BY <1>0, <1>p, ProgramInactive
  <2>2. Selected(btseq') = Selected(btseq)
    BY <2>1
  <2>3. Selected(btseq) = active
    BY <1>p, <1>s DEF Unstamped, Pcs
  <2> QED BY <1>0, <2>1, <2>2, <2>3, Stages DEF AB!Next
<1>u. {"erase", "commitErase", "program"} \subseteq Unstamped
  BY DEF Unstamped, Pcs
<1>2. CASE FlushErase
  BY <1>2, <1>e, <1>u DEF FlushErase
<1>3. CASE CommitErase
  BY <1>3, <1>e, <1>u DEF CommitErase
<1>4. CASE FlushProgram
  BY <1>4, <1>p DEF FlushProgram
<1>5. CASE CommitProgram
  <2>1. PICK o \in ProgramOutcomes :
           /\ MayHappen(o)
           /\ ProgramWord(Inactive, Encode(next), o.mode)
           /\ IF o.ok THEN pc' = "commitVerify" /\ UNCHANGED commit
                      ELSE pc' = "rollback" /\ commit' = "NVM"
    BY <1>5 DEF CommitProgram
  <2>2. o.ok = TRUE
    BY <1>0, <2>1, AllSound DEF Sound, TypeOK
  <2>3. pc = "commitProgram" /\ pc' = "commitVerify" /\ verified' = verified
    BY <1>5, <2>1, <2>2 DEF CommitProgram
  <2>4. verified = FALSE
    BY <1>0, <2>3 DEF GateOK, TypeOK
  <2> QED BY <1>0, <2>1, <2>3, <2>4, StampCommits
<1>6. CASE LosePowerInOperation
  <2>1. PICK mode \in Modes :
         \/ pc = "erase" /\ ErasePage(Inactive, base, mode)
         \/ pc = "program" /\ ProgramRow(Inactive, base, row, mode)
         \/ pc \in {"commitErase", "rollback"}
               /\ ErasePage(Inactive, FinalPage, mode)
         \/ pc = "commitProgram"
               /\ ProgramWord(Inactive, Encode(next), mode)
    BY <1>6 DEF LosePowerInOperation
  <2>2. pc' = "off" /\ verified' = FALSE
    BY <1>6 DEF LosePowerInOperation, PowerOff
  <2>3. CASE pc = "erase" /\ ErasePage(Inactive, base, mode)
    BY <1>e, <1>u, <2>3
  <2>4. CASE pc = "program" /\ ProgramRow(Inactive, base, row, mode)
    BY <1>p, <2>4
  <2>5. CASE pc = "commitErase" /\ ErasePage(Inactive, FinalPage, mode)
    BY <1>e, <1>u, <2>5
  <2>6. CASE pc = "commitProgram" /\ ProgramWord(Inactive, Encode(next), mode)
    BY <1>0, <2>2, <2>6, StampCommits
  <2> QED BY <2>1, <2>3, <2>4, <2>5, <2>6 DEF NoRollback
<1>7. CASE Rollback
  BY <1>7 DEF Rollback, NoRollback
<1>8. CASE UNCHANGED vars
  <2>1. UNCHANGED <<ImageIn(Selected(btseq)), Staged>>
    BY <1>8 DEF vars, ImageIn, Selected, Staged, Inactive
  <2> QED BY <2>1
<1>9. ASSUME \/ \E f \in Files : Receive(f)
             \/ \E n \in BlockSizes : Block(n)
             \/ TransferFails \/ EndOfTransfer
             \/ SinkHeader \/ SinkPayload \/ SinkPadding \/ SinkReturns
             \/ FlushVerify \/ Finalize \/ Readback
             \/ CommitBegin \/ CommitVerify \/ CommitReset \/ LosePower \/ Boot
      PROVE  UNCHANGED <<cells, btseq>>
  BY <1>9 DEF Receive, Block, TransferFails, EndOfTransfer, SinkHeader, SinkPayload,
     SinkPadding, SinkReturns, FlushVerify, Finalize, Readback, CommitBegin,
     CommitVerify, CommitReset, LosePower, Boot, nonvolatile
<1> QED BY <1>q, <1>2, <1>3, <1>4, <1>5, <1>6, <1>7, <1>8, <1>9 DEF Next

(* While no flash operation misbehaves, the update is an atomic A/B update, *)
(* wherever power is lost: the booted image changes only from one complete  *)
(* image to another, the one a verified receive had staged, and at once.    *)
THEOREM UpdateAtomic == ASSUME MaxFaults = 0 PROVE Spec => UpdateIsAtomic
<1>1. Init => NoRollback
  BY DEF Init, NoRollback
<1>2. SafeInv /\ NoRollback /\ [Next]_vars => NoRollback'
  BY NoRollbackStep
<1>3. Spec => []NoRollback
  BY <1>1, <1>2, SafeInvariant, PTL DEF Spec
<1>4. Init => AB!Init
  <2> SUFFICES ASSUME Init PROVE AB!Init
    OBVIOUS
  <2>1. SafeInv
    BY SafeInit
  <2>2. Intact(active) /\ Selected(btseq) = active
    BY <2>1 DEF SafeInv, FlashSafe, Init
  <2>3. ImageIn(Selected(btseq)) \in Images
    BY <2>2, ImageOfType DEF ImageIn, Intact, Holds
  <2>4. Staged = NoImage
    BY DEF Init, RamCleared, Staged
  <2> QED BY <2>3, <2>4 DEF AB!Init
<1>5. SafeInv /\ SafeInv' /\ NoRollback /\ [Next]_vars
        => [AB!Next]_<<ImageIn(Selected(btseq)), Staged>>
  BY StepRefines
<1> QED BY <1>3, <1>4, <1>5, SafeInvariant, PTL DEF Spec, UpdateIsAtomic, AB!Spec

-----------------------------------------------------------------------------
(* The configuration areas.                                                 *)

(* A partition other than the running one is selected, or about to be, only *)
(* behind fw_commit's check of its configuration area.                      *)
UcaChecked ==
    Selected(btseq) # active \/ pc \in {"commitErase", "commitProgram", "commitVerify"}
        => UcaStatus(uca[Inactive]) = "OK"

LEMMA UcaStep ==
    ASSUME SafeInv, UcaChecked, [Next]_vars
    PROVE  UcaChecked'
<1>0. TypeInv /\ TypeOK /\ FlashSafe /\ TransferOK /\ GateOK /\ CellsOK /\ WordsOK
  BY DEF SafeInv, TypeInv, TypeOK, CellsOK, WordsOK
<1>1. /\ Inactive \in Parts /\ Inactive # active /\ active \in Parts
      /\ \A p \in Parts : p = active \/ p = Inactive
  BY <1>0, InactiveFacts DEF TypeOK
<1>f. FlushStart \in {"erase", "program"}
  BY DEF FlushStart
<1>s. Selected(btseq)' = Selected(btseq')
  BY DEF Selected
<1>k. ASSUME UNCHANGED <<uca, active>> PROVE UcaStatus(uca[Inactive])' = UcaStatus(uca[Inactive])
  BY <1>k DEF UcaStatus, Inactive
<1>q. ASSUME UNCHANGED <<btseq, uca, active>>,
             \/ pc' \notin {"commitErase", "commitProgram", "commitVerify"}
             \/ pc \in {"commitErase", "commitProgram", "commitVerify"}
      PROVE  UcaChecked'
  BY <1>k, <1>q, <1>s DEF UcaChecked
<1>e. ASSUME NEW first, NEW mode, ErasePage(Inactive, first, mode), pc \notin {"off", "dead"},
             UNCHANGED <<uca, active>>,
             \/ pc' \notin {"commitErase", "commitProgram", "commitVerify"}
             \/ pc \in {"commitErase", "commitProgram", "commitVerify"}
      PROVE  UcaChecked'
  <2>1. /\ \A p \in Parts : Solid(btseq[p])
        /\ active = 2 => SeqOf(btseq[2]) < SeqMax
    BY <1>0, <1>e DEF FlashSafe
  <2>2. /\ btseq'[active] = btseq[active]
        /\ SeqOf(btseq'[Inactive]) \in {SeqOf(btseq[Inactive]), SeqMax}
    BY <1>0, <1>e, <2>1, EraseInactive
  <2>3. WordsOK'
    BY <1>0, <1>1, <1>e, ErasePageFacts
  <2>4. Selected(btseq) = active => Selected(btseq') = active
    BY <1>0, <2>1, <2>2, <2>3, SelectionStays
  <2> QED BY <1>e, <1>k, <1>s, <2>4 DEF UcaChecked
<1>p. ASSUME pc = "program", NEW mode,
             ProgramRow(Inactive, base, row, mode) \/ DisturbCell(Inactive, base, row),
             UNCHANGED <<uca, active>>,
             pc' \notin {"commitErase", "commitProgram", "commitVerify"}
      PROVE  UcaChecked'
  <2>1. btseq' = btseq
    BY <1>0, <1>p, ProgramInactive
  <2> QED BY <1>p, <1>q, <2>1
<1>2. ASSUME NEW f \in Files, Receive(f) PROVE UcaChecked'
  BY <1>2, <1>q DEF Receive, nonvolatile
<1>3. ASSUME NEW n \in BlockSizes, Block(n) PROVE UcaChecked'
  BY <1>3, <1>q DEF Block, nonvolatile
<1>4. CASE TransferFails \/ EndOfTransfer
  BY <1>4, <1>q DEF TransferFails, EndOfTransfer, Return, nonvolatile
<1>5. CASE SinkHeader \/ SinkPayload \/ SinkPadding \/ SinkReturns
  BY <1>5, <1>q, <1>f DEF SinkHeader, SinkPayload, SinkPadding, SinkReturns, Return,
     nonvolatile
<1>6. CASE FlushErase
  BY <1>6, <1>e DEF FlushErase, FlushFails, Return
<1>7. CASE FlushProgram
  BY <1>7, <1>p DEF FlushProgram, FlushFails, Return
<1>8. CASE FlushVerify \/ Finalize \/ Readback
  BY <1>8, <1>q, <1>f DEF FlushVerify, FlushFails, Finalize, Readback, Return, nonvolatile
<1>9. CASE CommitBegin
  <2>1. CASE CommitStatus = "OK"
    <3>1. UcaStatus(uca[Inactive]) = "OK"
      BY <2>1 DEF CommitStatus
    <3> QED BY <1>9, <1>k, <3>1 DEF CommitBegin, nonvolatile, UcaChecked
  <2>2. CASE CommitStatus # "OK"
    BY <1>9, <1>q, <2>2 DEF CommitBegin, CommitReturns, nonvolatile
  <2> QED BY <2>1, <2>2
<1>10. CASE CommitErase
  BY <1>10, <1>e DEF CommitErase
<1>11. CASE CommitProgram
  BY <1>11, <1>k DEF CommitProgram, UcaChecked
<1>12. CASE CommitVerify
  BY <1>12, <1>q DEF CommitVerify, nonvolatile
<1>13. CASE Rollback
  BY <1>13, <1>e DEF Rollback, CommitReturns
<1>14. CASE CommitReset \/ LosePower
  BY <1>14, <1>q DEF CommitReset, LosePower, PowerOff
<1>15. CASE LosePowerInOperation
  <2>1. /\ pc' = "off" /\ UNCHANGED <<uca, active>>
        /\ \E mode \in Modes :
             \/ pc = "erase" /\ ErasePage(Inactive, base, mode)
             \/ pc = "program" /\ ProgramRow(Inactive, base, row, mode)
             \/ pc \in {"commitErase", "rollback"} /\ ErasePage(Inactive, FinalPage, mode)
             \/ pc = "commitProgram" /\ ProgramWord(Inactive, Encode(next), mode)
    BY <1>15 DEF LosePowerInOperation, PowerOff
  <2>2. CASE pc = "commitProgram"
    BY <1>k, <2>1, <2>2 DEF UcaChecked
  <2> QED BY <1>e, <1>p, <2>1, <2>2
<1>16. CASE Boot
  BY <1>16 DEF Boot, nonvolatile, UcaChecked, Selected
<1>17. CASE UNCHANGED vars
  BY <1>17, <1>q DEF vars
<1> QED BY <1>2, <1>3, <1>4, <1>5, <1>6, <1>7, <1>8, <1>9, <1>10, <1>11, <1>12, <1>13,
           <1>14, <1>15, <1>16, <1>17 DEF Next

(* The board changes partition only to one whose configuration area         *)
(* fw_commit found provisioned, whatever fails or is cut short on the way.  *)
THEOREM SwapsProvisioned == Spec => SwapOnlyProvisioned
<1>1. Init => UcaChecked
  BY DEF Init, UcaChecked
<1>2. SafeInv /\ UcaChecked /\ [Next]_vars => UcaChecked'
  BY UcaStep
<1>3. SafeInv /\ UcaChecked /\ [Next]_vars
        => [active' # active => UcaStatus(uca[active']) = "OK"]_vars
  <2> SUFFICES ASSUME SafeInv, UcaChecked, Next, active' # active
               PROVE  UcaStatus(uca[active']) = "OK"
    OBVIOUS
  <2>1. Boot
    BY DEF Next, Receive, Block, TransferFails, EndOfTransfer, SinkHeader, SinkPayload,
       SinkPadding, SinkReturns, FlushErase, FlushProgram, FlushVerify, Finalize, Readback,
       CommitBegin, CommitErase, CommitProgram, CommitVerify, Rollback, CommitReset,
       LosePower, LosePowerInOperation, PowerOff
  <2>2. Selected(btseq) # active /\ active' = Selected(btseq) /\ Selected(btseq) \in Parts
    BY <2>1 DEF Boot, Selected, Parts
  <2>3. active' = Inactive
    BY <2>2, InactiveFacts DEF SafeInv, TypeInv, TypeOK
  <2> QED BY <2>2, <2>3 DEF UcaChecked
<1> QED BY <1>1, <1>2, <1>3, SafeInvariant, PTL DEF Spec, SwapOnlyProvisioned

-----------------------------------------------------------------------------
(* The boot numbers.                                                        *)

(* An erase, whole or cut short, makes no number.                           *)
LEMMA EraseStamps ==
    ASSUME NEW old \in Words, Solid(old), NEW w \in PartlyErased(old) \cup {BlankWord},
           Valid(w)
    PROVE  SeqOf(w) = SeqOf(old)
BY SeqMaxAssumption
   DEF PartlyErased, AtLeast, BlankWord, Words, Seqs, Solid, SeqOf, Valid

(* What every step may do to the words.                                     *)
LEMMA WordsStep ==
    ASSUME SafeInv, Next
    PROVE  \/ btseq' = btseq
           \/ \E first, mode : ErasePage(Inactive, first, mode)
           \/ pc = "commitProgram" /\ \E mode : ProgramWord(Inactive, Encode(next), mode)
<1>0. TypeInv /\ TransferOK
  BY DEF SafeInv
<1>p. ASSUME pc = "program", NEW mode,
             ProgramRow(Inactive, base, row, mode) \/ DisturbCell(Inactive, base, row)
      PROVE  btseq' = btseq
  BY <1>0, <1>p, ProgramInactive
<1>1. CASE FlushErase \/ CommitErase \/ Rollback
  BY <1>1 DEF FlushErase, CommitErase, Rollback
<1>2. CASE FlushProgram
  BY <1>2, <1>p DEF FlushProgram
<1>3. CASE CommitProgram
  BY <1>3 DEF CommitProgram
<1>4. CASE LosePowerInOperation
  BY <1>4, <1>p DEF LosePowerInOperation
<1> QED BY <1>1, <1>2, <1>3, <1>4
        DEF Next, Receive, Block, TransferFails, EndOfTransfer, SinkHeader, SinkPayload,
            SinkPadding, SinkReturns, FlushVerify, Finalize, Readback, CommitBegin,
            CommitVerify, CommitReset, LosePower, Boot, nonvolatile

(* Only fw_commit brings a boot number into being, and only on the inactive *)
(* partition: no receive and no erase cut short does.                       *)
THEOREM CommitAloneStamps == Spec => OnlyCommitStamps
<1>1. SafeInv /\ [Next]_vars
        => [\A p \in Parts :
              Valid(btseq[p]') /\ SeqOf(btseq[p]') # SeqOf(btseq[p])
                  => pc = "commitProgram" /\ p = Inactive]_vars
  <2> SUFFICES ASSUME SafeInv, Next, NEW p \in Parts,
                      Valid(btseq[p]'), SeqOf(btseq[p]') # SeqOf(btseq[p])
               PROVE  pc = "commitProgram" /\ p = Inactive
    OBVIOUS
  <2>0. TypeOK /\ CellsOK /\ WordsOK /\ Solid(btseq[p]) /\ btseq[p] \in Words
    BY DEF SafeInv, TypeInv, TypeOK, FlashSafe, CellsOK, WordsOK
  <2>1. Inactive \in Parts
    BY <2>0, InactiveFacts DEF TypeOK
  <2>2. btseq' # btseq
    OBVIOUS
  <2>3. ASSUME NEW first, NEW mode, ErasePage(Inactive, first, mode) PROVE FALSE
    <3>1. btseq'[p] = btseq[p] \/ btseq'[p] \in PartlyErased(btseq[p]) \cup {BlankWord}
      BY <2>0, <2>1, <2>3, ErasePageFacts
    <3> QED BY <2>0, <3>1, EraseStamps
  <2>4. CASE pc = "commitProgram" /\ \E mode : ProgramWord(Inactive, Encode(next), mode)
    <3>1. next \in Seqs
      BY <2>0 DEF TypeOK
    <3>2. \A q \in Parts : q # Inactive => btseq'[q] = btseq[q]
      BY <2>0, <2>1, <2>4, <3>1, ProgramWordFacts
    <3> QED BY <2>4, <3>2
  <2> QED BY <2>2, <2>3, <2>4, WordsStep
<1> QED BY <1>1, SafeInvariant, PTL DEF Spec, OnlyCommitStamps

-----------------------------------------------------------------------------
(* Every program operation finds virgin flash.  The rows of a page are      *)
(* programmed in order from the one that opens it, which fw_flush_row       *)
(* erases the page for.                                                     *)

(* From the row at b on, the page that row lies in is virgin. *)
RestVirgin(b) ==
    \E m \in Nat :
        /\ PageCells * m <= b
        /\ b + RowCells <= PageCells * (m + 1)
        /\ \A i \in Cells : b <= i /\ i < PageCells * (m + 1)
               => cells[Inactive][i] = Erased

VirginOK ==
    /\ pc = "erase" => base % PageCells = 0
    /\ pc \in Receiving /\ base % PageCells # 0 => RestVirgin(base)
    /\ pc = "program" => RestVirgin(base)
    /\ pc = "verify" /\ (base + RowCells) % PageCells # 0 => RestVirgin(base + RowCells)

LEMMA ModuloMultiple ==
    ASSUME NEW n \in Nat \ {0}, NEW b \in Nat, b % n = 0
    PROVE  \E m \in Nat : b = n * m
<1>1. b \div n \in Nat /\ b = n * (b \div n)
  OBVIOUS
<1> QED BY <1>1

(* Of two rows' offsets the lower one's row ends at the higher one. *)
LEMMA RowsApart ==
    ASSUME NEW r \in Nat \ {0}, NEW x \in Nat, NEW y \in Nat, r * x < r * y
    PROVE  r * x + r <= r * y
<1>1. CASE x < y
  <2>1. r * (x + 1) <= r * y
    BY <1>1
  <2> QED BY <2>1
<1>2. CASE y <= x
  <2>1. r * y <= r * x
    BY <1>2
  <2> QED BY <2>1
<1> QED BY <1>1, <1>2

(* The page fw_flush_row erased is virgin. *)
LEMMA ErasedRest ==
    ASSUME TypeOK, base % PageCells = 0, ErasePage(Inactive, base, "done"),
           UNCHANGED <<base, active>>
    PROVE  RestVirgin(base)'
<1>1. PICK m \in Nat : base = PageCells * m
  BY ModuloMultiple, GeometryFacts DEF TypeOK
<1>2. /\ RowCells \in Nat /\ PageCells \in Nat /\ PageCells * m \in Nat
      /\ RowCells <= PageCells
  BY <1>1, GeometryAssumption DEF PageCells
<1>3. base + RowCells <= PageCells * (m + 1)
  BY <1>1, <1>2
<1>4. Inactive \in Parts /\ Inactive' = Inactive
  BY InactiveFacts DEF TypeOK, Inactive
<1>5. ASSUME NEW i \in Cells, base <= i, i < PageCells * (m + 1)
      PROVE  cells'[Inactive][i] = Erased
  <2>1. i \in Nat
    BY GeometryFacts DEF Cells
  <2>2. i \in Span(base, PageCells)
    BY <1>1, <1>2, <1>5, <2>1 DEF Span
  <2>3. cells'[Inactive] = [j \in Cells |->
           IF j \notin Span(base, PageCells) \/ "done" = "kept"
           THEN cells[Inactive][j]
           ELSE IF "done" = "done" THEN Erased ELSE Junk]
    BY <1>4 DEF ErasePage, TypeOK
  <2> QED BY <2>2, <2>3
<1> QED BY <1>1, <1>3, <1>4, <1>5 DEF RestVirgin

(* A row program leaves the rows after it alone. *)
LEMMA ProgramSparesRest ==
    ASSUME TypeOK, NEW first \in Nat, NEW data, NEW mode,
           ProgramRow(Inactive, first, data, mode) \/ DisturbCell(Inactive, first, data)
    PROVE  \A i \in Cells : first + RowCells <= i => cells'[Inactive][i] = cells[Inactive][i]
<1> SUFFICES ASSUME NEW i \in Cells, first + RowCells <= i
             PROVE  cells'[Inactive][i] = cells[Inactive][i]
  OBVIOUS
<1>1. i \in Nat /\ RowCells \in Nat \ {0} /\ Inactive \in Parts
  BY GeometryFacts, InactiveFacts DEF Cells, TypeOK
<1>2. i \notin Span(first, RowCells) /\ i \notin 0 .. first - 1
  BY <1>1 DEF Span
<1>3. CASE ProgramRow(Inactive, first, data, mode)
  <2>1. cells'[Inactive] = [j \in Cells |->
           IF j \notin Span(first, RowCells) \/ mode = "kept"
           THEN cells[Inactive][j]
           ELSE IF mode = "done" /\ cells[Inactive][j] = Erased
                THEN data[j - first + 1] ELSE Junk]
    BY <1>1, <1>3 DEF ProgramRow, TypeOK
  <2> QED BY <1>2, <2>1
<1>4. CASE DisturbCell(Inactive, first, data)
  <2>1. PICK d \in 0 .. first - 1 :
          cells' = [cells EXCEPT ![Inactive] = [j \in Cells |->
               IF j = d THEN Junk
               ELSE IF j \in Span(first, RowCells) THEN data[j - first + 1]
               ELSE cells[Inactive][j]]]
    BY <1>4 DEF DisturbCell
  <2>2. cells'[Inactive] = [j \in Cells |->
               IF j = d THEN Junk
               ELSE IF j \in Span(first, RowCells) THEN data[j - first + 1]
               ELSE cells[Inactive][j]]
    BY <1>1, <2>1 DEF TypeOK
  <2> QED BY <1>2, <2>2
<1> QED BY <1>3, <1>4

(* The rest of a page after its first row, or any, was programmed. *)
LEMMA ProgrammedRest ==
    ASSUME TypeInv, TransferOK, pc = "program", RestVirgin(base), NEW mode,
           ProgramRow(Inactive, base, row, mode) \/ DisturbCell(Inactive, base, row),
           UNCHANGED <<base, active>>,
           (base + RowCells) % PageCells # 0
    PROVE  RestVirgin(base + RowCells)'
<1>0. TypeOK /\ base \in Nat
  BY DEF TypeInv, TypeOK
<1>1. PICK m \in Nat :
        /\ PageCells * m <= base
        /\ base + RowCells <= PageCells * (m + 1)
        /\ \A i \in Cells : base <= i /\ i < PageCells * (m + 1)
               => cells[Inactive][i] = Erased
  BY DEF RestVirgin
<1>2. PICK q \in Nat : base = RowCells * q
  BY <1>0, Z3 DEF TransferOK, Transfer, Flushing
<1>3. /\ RowCells \in Nat \ {0} /\ PageCells \in Nat \ {0} /\ PageRows \in Nat
      /\ PageCells * (m + 1) \in Nat /\ PageCells * m \in Nat
  BY GeometryAssumption, GeometryFacts
<1>4. base + RowCells # PageCells * (m + 1)
  BY <1>3, MultipleModulo
<1>5. RowCells * (q + 1) = base + RowCells
  BY <1>2, <1>3
<1>6. PageRows * (m + 1) \in Nat /\ PageCells * (m + 1) = RowCells * (PageRows * (m + 1))
  BY <1>3 DEF PageCells
<1>7. (base + RowCells) + RowCells <= PageCells * (m + 1)
  <2>1. RowCells * (q + 1) < RowCells * (PageRows * (m + 1))
    BY <1>0, <1>1, <1>3, <1>4, <1>5, <1>6
  <2>2. q + 1 \in Nat
    OBVIOUS
  <2>3. RowCells * (q + 1) + RowCells <= RowCells * (PageRows * (m + 1))
    BY <1>3, <1>6, <2>1, <2>2, RowsApart
  <2> QED BY <1>5, <1>6, <2>3
<1>8. PageCells * m <= base + RowCells
  BY <1>0, <1>1, <1>3
<1>9. ASSUME NEW i \in Cells, base + RowCells <= i, i < PageCells * (m + 1)
      PROVE  cells'[Inactive'][i] = Erased
  <2>1. i \in Nat
    BY GeometryFacts DEF Cells
  <2>2. cells[Inactive][i] = Erased
    BY <1>0, <1>1, <1>3, <1>9, <2>1
  <2>3. cells'[Inactive][i] = cells[Inactive][i]
    BY <1>0, <1>9, ProgramSparesRest
  <2> QED BY <2>2, <2>3 DEF Inactive
<1> QED BY <1>7, <1>8, <1>9 DEF RestVirgin

LEMMA VirginStep ==
    ASSUME SafeInv, VirginOK, [Next]_vars
    PROVE  VirginOK'
<1>0. TypeInv /\ TypeOK /\ TransferOK /\ base \in Nat /\ RowCells \in Nat
  BY GeometryFacts DEF SafeInv, TypeInv, TypeOK
<1>x. ASSUME pc' \notin Receiving \cup Flushing PROVE VirginOK'
  BY <1>x DEF VirginOK, Receiving, Flushing
<1>n. {"idle", "readback", "commitErase", "commitProgram", "commitVerify", "rollback",
       "reset", "off", "dead"} \cap (Receiving \cup Flushing) = {}
  BY DEF Receiving, Flushing
<1>q. ASSUME pc \in Receiving, pc' \in Receiving, UNCHANGED <<cells, base, active>>
      PROVE  VirginOK'
  BY <1>q DEF VirginOK, RestVirgin, Receiving, Inactive
<1>s. ASSUME pc \in Receiving, pc' = FlushStart, UNCHANGED <<cells, base, active>>
      PROVE  VirginOK'
  BY <1>s DEF VirginOK, RestVirgin, Receiving, Inactive, FlushStart
<1>1. ASSUME NEW f \in Files, Receive(f) PROVE VirginOK'
  <2>1. base' = 0 /\ pc' = "rx"
    BY <1>1 DEF Receive, ContextReset
  <2>2. 0 % PageCells = 0
    BY GeometryFacts
  <2> QED BY <2>1, <2>2 DEF VirginOK
<1>2. ASSUME NEW n \in BlockSizes, Block(n) PROVE VirginOK'
  BY <1>2, <1>q DEF Block, nonvolatile, Receiving
<1>3. CASE TransferFails
  BY <1>3, <1>x, <1>n DEF TransferFails, Return
<1>4. CASE EndOfTransfer \/ SinkReturns
  BY <1>4, <1>q DEF EndOfTransfer, SinkReturns, nonvolatile, context, Receiving
<1>5. CASE SinkHeader
  <2>1. CASE HeaderStatus(file) = "OK"
    BY <1>5, <2>1, <1>q DEF SinkHeader, nonvolatile, Receiving
  <2>2. CASE HeaderStatus(file) # "OK"
    BY <1>5, <2>2, <1>x, <1>n DEF SinkHeader, Return
  <2> QED BY <2>1, <2>2
<1>6. CASE SinkPayload
  BY <1>6, <1>q, <1>s DEF SinkPayload, nonvolatile, Receiving
<1>7. CASE SinkPadding
  <2>1. CASE pad < MaxPad
    BY <1>7, <2>1, <1>q DEF SinkPadding, nonvolatile, Receiving
  <2>2. CASE ~(pad < MaxPad)
    BY <1>7, <2>2, <1>x, <1>n DEF SinkPadding, Return
  <2> QED BY <2>1, <2>2
<1>9. CASE FlushErase
  <2>1. PICK o \in EraseOutcomes :
           /\ MayHappen(o)
           /\ ErasePage(Inactive, base, o.mode)
           /\ IF o.ok THEN pc' = "program" /\ UNCHANGED <<context, status, verified>>
                      ELSE FlushFails
    BY <1>9 DEF FlushErase
  <2>2. CASE o.ok
    <3>1. o.mode = "done"
      BY <2>2, SoundErase
    <3>2. /\ pc = "erase" /\ pc' = "program" /\ UNCHANGED <<base, active>>
      BY <1>9, <2>1, <2>2 DEF FlushErase, context
    <3>3. RestVirgin(base)'
      BY <1>0, <2>1, <3>1, <3>2, ErasedRest DEF VirginOK
    <3> QED BY <3>2, <3>3 DEF VirginOK, Receiving
  <2>3. CASE ~o.ok
    BY <2>1, <2>3, <1>x, <1>n DEF FlushFails, Return
  <2> QED BY <2>2, <2>3
<1>10. CASE FlushProgram
  <2>1. PICK o \in ProgramOutcomes :
           /\ MayHappen(o)
           /\ \/ ProgramRow(Inactive, base, row, o.mode)
              \/ o # Sound /\ DisturbCell(Inactive, base, row)
           /\ IF o.ok THEN pc' = "verify" /\ UNCHANGED <<context, status, verified>>
                      ELSE FlushFails
    BY <1>10 DEF FlushProgram
  <2>2. CASE o.ok
    <3>1. /\ pc = "program" /\ pc' = "verify" /\ UNCHANGED <<base, active>>
      BY <1>10, <2>1, <2>2 DEF FlushProgram, context
    <3>2. (base + RowCells) % PageCells # 0 => RestVirgin(base + RowCells)'
      BY <1>0, <2>1, <3>1, ProgrammedRest DEF VirginOK
    <3> QED BY <3>1, <3>2 DEF VirginOK, Receiving
  <2>3. CASE ~o.ok
    BY <2>1, <2>3, <1>x, <1>n DEF FlushFails, Return
  <2> QED BY <2>2, <2>3
<1>11. CASE FlushVerify
  <2>1. CASE RowReadsBack /\ caller = "sink"
    <3>1. /\ pc = "verify" /\ pc' = "sink" /\ base' = base + RowCells
          /\ UNCHANGED <<cells, active>>
      BY <1>11, <2>1 DEF FlushVerify, nonvolatile
    <3> QED BY <3>1 DEF VirginOK, RestVirgin, Inactive
  <2>2. CASE ~(RowReadsBack /\ caller = "sink")
    BY <1>11, <2>2, <1>x, <1>n DEF FlushVerify, FlushFails, Return
  <2> QED BY <2>1, <2>2
<1>12. CASE Finalize
  <2>1. CASE PackageStatus = "OK" /\ row # <<>>
    BY <1>12, <2>1, <1>s DEF Finalize, nonvolatile, Receiving
  <2>2. CASE ~(PackageStatus = "OK" /\ row # <<>>)
    BY <1>12, <2>2, <1>x, <1>n DEF Finalize, Return
  <2> QED BY <2>1, <2>2
<1>13. CASE Readback \/ CommitBegin \/ CommitErase \/ CommitProgram \/ CommitVerify
           \/ Rollback \/ CommitReset \/ LosePower \/ LosePowerInOperation \/ Boot
  BY <1>13, <1>x, <1>n
     DEF Readback, Return, CommitBegin, CommitErase, CommitProgram, CommitVerify,
         CommitReturns, Rollback, CommitReset, LosePower, LosePowerInOperation, PowerOff, Boot
<1>14. CASE UNCHANGED vars
  BY <1>14 DEF vars, VirginOK, RestVirgin, Inactive
<1> QED BY <1>1, <1>2, <1>3, <1>4, <1>5, <1>6, <1>7, <1>9, <1>10, <1>11, <1>12, <1>13,
           <1>14 DEF Next

(* The NVM controller's rule that a word is programmed once per erase       *)
(* (nora_nvm.h): fw_flush_row programs a row, and fw_commit the stamp, only *)
(* onto virgin flash, whatever failed before.                               *)
THEOREM ProgramsOntoVirgin == Spec => []ProgramsVirgin
<1>1. Init => VirginOK
  BY DEF Init, VirginOK, Receiving
<1>2. SafeInv /\ VirginOK /\ [Next]_vars => VirginOK'
  BY VirginStep
<1>3. SafeInv /\ VirginOK => ProgramsVirgin
  <2> SUFFICES ASSUME SafeInv, VirginOK PROVE ProgramsVirgin
    OBVIOUS
  <2>1. pc = "commitProgram" => btseq[Inactive] = BlankWord
    BY DEF SafeInv, GateOK
  <2>2. ASSUME pc = "program", NEW i \in Span(base, RowCells)
        PROVE  cells[Inactive][i] = Erased
    <3>0. /\ base \in Nat /\ RowCells \in Nat /\ Len(pay) \in Nat
          /\ file \in Files \cup {NoFile} /\ file.len \in Nat /\ PartCells \in Nat
      BY GeometryFacts, FileFacts DEF SafeInv, TypeInv, TypeOK
    <3>1. hdr /\ HeaderStatus(file) = "OK" /\ base < Len(pay) /\ Len(pay) <= file.len
      BY <2>2 DEF SafeInv, TransferOK, Transfer, Flushing
    <3>2. file.len <= PartCells - RowCells
      BY <3>0, <3>1, FileFacts DEF MaxImage
    <3>3. i \in Nat /\ base <= i /\ i < base + RowCells
      BY <3>0 DEF Span
    <3>4. i \in Cells
      BY <3>0, <3>1, <3>2, <3>3 DEF Cells
    <3>5. PICK m \in Nat :
            /\ base + RowCells <= PageCells * (m + 1)
            /\ \A j \in Cells : base <= j /\ j < PageCells * (m + 1)
                   => cells[Inactive][j] = Erased
      BY <2>2 DEF VirginOK, RestVirgin
    <3>6. PageCells * (m + 1) \in Nat
      BY GeometryFacts
    <3> QED BY <3>0, <3>3, <3>4, <3>5, <3>6
  <2> QED BY <2>1, <2>2 DEF ProgramsVirgin
<1> QED BY <1>1, <1>2, <1>3, SafeInvariant, PTL DEF Spec
=============================================================================
