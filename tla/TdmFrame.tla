------------------------------ MODULE TdmFrame ------------------------------
(* The frame of one TDM leg: which configurations are supported, and what   *)
(* frame-sync generator the SPI is programmed to for one                    *)
(* (nora_spi_i2s_tdm_hw_apply_config).  Words are counted, not bits.        *)
EXTENDS Naturals

FrameConfigs ==
  [format : {"I2S", "TDM", "other"}, shape : {"PULSE", "50PCT"}, role : {"MASTER", "SLAVE"},
   slots : {1, 2, 3, 4, 6, 8, 12, 16, 32, 64}, wordBits : {16, 32}]

\* tdm_config_is_supported, for a leg whose geometry is the one asked for
IsSupported(c) ==
  /\ c.wordBits = 32
  /\ \/ c.format = "I2S" /\ c.slots = 2
     \/ c.format = "TDM" /\ c.slots \in {4, 8, 16, 32}

\* The CLC toggles at every frame sync of the SPI.
ClcShapes(c) == c.role = "MASTER" /\ c.format = "TDM" /\ c.shape = "50PCT"

\* Mutant of FsWords: the SPI counts the whole frame though the CLC halves it.
FsWordsWhole(c) == c.slots

FsWords(c) == IF c.shape = "50PCT" /\ c.format # "I2S" /\ c.role = "MASTER" THEN c.slots \div 2 ELSE c.slots
\* FRMSYPW: the frame sync is a word wide instead of a bit.
WordWide(c) == c.shape = "50PCT" /\ c.format = "I2S"

\* FRMCNT counts in powers of two; a number that is none becomes the code of eight.
FrmCnt(words) == IF \E n \in 0 .. 5 : words = 2^n THEN CHOOSE n \in 0 .. 5 : words = 2^n ELSE 3

-----------------------------------------------------------------------------
(* What comes out at the pin.                                               *)
SpiPeriod(c) == 2^FrmCnt(FsWords(c))
PinPeriod(c) == IF ClcShapes(c) THEN 2 * SpiPeriod(c) ELSE SpiPeriod(c)
\* For how many words it is high, where a word is the measure.
PinHigh(c) == CASE ClcShapes(c) -> SpiPeriod(c) [] WordWide(c) -> 1 [] OTHER -> 0

\* The frame sync of a supported configuration has the period of its slots, whatever
\* is halved, toggled and coded on the way; one of 50% is high for half of them.
FramesFit ==
  \A c \in FrameConfigs : IsSupported(c) =>
    /\ PinPeriod(c) = c.slots
    /\ c.shape = "50PCT" /\ c.role = "MASTER" => 2 * PinHigh(c) = c.slots
=============================================================================
