--------------------------- MODULE SectorPipeline ---------------------------
(***************************************************************************)
(* A READ(10) or WRITE(10) in the mass storage task                        *)
(* (src/src/SOFTWARE_FRAMEWORK/COMPONENTS/MEMORY/SD_MMC/SD_MMC_MCI/         *)
(* sd_mmc_mci.c): sectors pass through two buffers, the first stage fills  *)
(* one while the second stage empties the other.  A read goes from the     *)
(* card to USB, a write from USB to the card.  Each turn of the loop takes *)
(* the AES semaphore, which the IW task takes as well when it enciphers a  *)
(* key (ram_aes_ram_example.c), and waits for its stages; busy_wait gives  *)
(* up after a second and the turn is begun again.                          *)
(*                                                                         *)
(* A sector is its number in the transfer.  It is Bad when it is another   *)
(* one than its initialization vector says, part of two, or none of this   *)
(* transfer.  Sectors of the unencrypted volume, which have no vector, are *)
(* not told apart from those.                                              *)
(***************************************************************************)
EXTENDS Naturals

CONSTANTS
  MaxLength,  \* bounds the sectors of a transfer
  MaxLate      \* bounds how often busy_wait gives up in a transfer

ASSUME PipelineAssumption == MaxLength \in Nat \ {0} /\ MaxLate \in Nat

VARIABLES
  msd,        \* where the mass storage task is
  mode,      \* "read" or "write"
  left,      \* nb_sector
  block,     \* BlockNr_u32, counted from 1
  bid,       \* buffer_id
  full,      \* b_last_state_full
  buf,       \* sector_buf_0, sector_buf_1: the sector in each
  first,     \* the stage that fills: its buffer and block number, or Off
  second,    \* the stage that empties
  src,       \* the next sector of the source
  slipped,   \* the source stands within a sector
  sent,      \* history: sectors that arrived right and in order
  wrong,     \* history: anything else arrived
  late,      \* history: the waits that gave up
  times,     \* how often
  aes,       \* AES_semphr: "free" or who has taken it
  iw         \* the IW task: "away", "wants" the AES unit, "waits" for the DMA

hostSide == <<mode, sent, wrong>>
loop == <<left, block, bid, full>>
pipelineVars == <<msd, mode, left, block, bid, full, buf, first, second, src, slipped, sent, wrong, late, times, aes, iw>>

Bad == 0
Off == [buf |-> 2, pos |-> 0]
Buffers == {0, 1}
\* Mutant: the buffer that was just given to the first stage.
SameBuffer(b) == b
Other(b) == 1 - b
CardStage == IF mode = "read" THEN first ELSE second
UsbStage == IF mode = "read" THEN second ELSE first

PipelineInit ==
  /\ msd = "idle" /\ mode = "read" /\ left = 0 /\ block = 1 /\ bid = 0 /\ full = FALSE
  /\ buf = [b \in Buffers |-> Bad] /\ first = Off /\ second = Off
  /\ src = 1 /\ slipped = FALSE /\ sent = 0 /\ wrong = FALSE /\ late = {} /\ times = 0
  /\ aes = "free" /\ iw = "away"

\* sd_mmc_mci_dma_read_open or .._write_open; the host begins when the last transfer is over.
BeginPipeline(m, n) ==
  /\ msd = "idle" /\ first = Off /\ second = Off
  /\ msd' = "load" /\ mode' = m /\ left' = n /\ block' = 1 /\ bid' = 0 /\ full' = FALSE
  /\ buf' = [b \in Buffers |-> Bad] /\ src' = 1 /\ slipped' = FALSE
  /\ sent' = 0 /\ wrong' = FALSE /\ late' = {} /\ times' = 0
  /\ UNCHANGED <<first, second, aes, iw>>

-----------------------------------------------------------------------------
(* The loop.  busy_wait may give up on a stage that is still under way.    *)

GivesUp(what) == times < MaxLate /\ times' = times + 1 /\ late' = late \union {what}

\* A turn of the loop: the semaphore, the first stage and, when a buffer is full, the second.
Load ==
  /\ msd = "load" /\ left > 0 /\ aes = "free"
  /\ aes' = "msd" /\ left' = left - 1 /\ bid' = Other(bid) /\ full' = TRUE
  /\ first' = [buf |-> bid, pos |-> block]
  /\ second' = IF full THEN [buf |-> Other(bid), pos |-> block] ELSE second
  /\ block' = IF mode = "read" \/ full THEN block + 1 ELSE block
  /\ slipped' = (slipped \/ first # Off)
  /\ msd' = IF full THEN "both" ELSE "fill"
  /\ UNCHANGED <<hostSide, buf, src, late, times, iw>>

Give(next) == aes' = "free" /\ msd' = next

\* Mutant: the second stage is not waited for.
FilledOnly == first = Off
Waited == first = Off /\ (msd = "both" => second = Off)
Loaded ==
  /\ msd \in {"fill", "both"} /\ Waited /\ Give("load")
  /\ UNCHANGED <<hostSide, loop, buf, first, second, src, slipped, late, times, iw>>

\* The write does not look at the result for its first sector; all others begin the turn again.
Late ==
  /\ msd \in {"fill", "both"} /\ ~Waited /\ GivesUp(msd)
  /\ IF msd = "fill" /\ mode = "write" THEN Give("load") ELSE msd' = "late" /\ UNCHANGED aes
  /\ UNCHANGED <<hostSide, loop, buf, first, second, src, slipped, iw>>

\* stop_dma halts the stage of the card, which may have moved a part of the sector, and waits for that of USB.
StopDma ==
  /\ UsbStage = Off
  /\ IF mode = "read" THEN first' = Off /\ UNCHANGED second ELSE second' = Off /\ UNCHANGED first
  /\ slipped' \in IF CardStage = Off THEN {slipped} ELSE {slipped, TRUE}

\* Mutant: the number of the block is not set back.
AgainOneOn ==
  /\ msd = "late" /\ StopDma
  /\ left' = left + 1 /\ bid' = Other(bid) /\ msd' = "load"
  /\ aes' = IF mode = "read" THEN "free" ELSE aes
  /\ UNCHANGED <<hostSide, block, full, buf, src, late, times, iw>>
\* A write does not give the semaphore before it takes it again.
Again ==
  /\ msd = "late" /\ StopDma
  /\ left' = left + 1 /\ block' = block - 1 /\ bid' = Other(bid) /\ msd' = "load"
  /\ aes' = IF mode = "read" THEN "free" ELSE aes
  /\ UNCHANGED <<hostSide, full, buf, src, late, times, iw>>

\* The last transfer, which is in the pipe
LoadLast ==
  /\ msd = "load" /\ left = 0 /\ aes = "free"
  /\ aes' = "msd" /\ second' = [buf |-> Other(bid), pos |-> block] /\ msd' = "last"
  /\ UNCHANGED <<hostSide, loop, buf, first, src, slipped, late, times, iw>>

\* Mutant: the semaphore is not given.
LastKeepsAes ==
  /\ msd = "last" /\ second = Off /\ msd' = "drain" /\ UNCHANGED <<late, times, aes>>
  /\ UNCHANGED <<hostSide, loop, buf, first, second, src, slipped, iw>>
\* The result of busy_wait is not looked at.
Last ==
  /\ msd = "last" /\ Give("drain")
  /\ IF second = Off THEN UNCHANGED <<late, times>> ELSE GivesUp("last")
  /\ UNCHANGED <<hostSide, loop, buf, first, second, src, slipped, iw>>

\* Usb_nb_busy_bank
Drain ==
  /\ msd = "drain" /\ UsbStage = Off /\ msd' = "idle"
  /\ UNCHANGED <<hostSide, loop, buf, first, second, src, slipped, late, times, aes, iw>>

-----------------------------------------------------------------------------
(* The DMA controllers *)

\* The block number is that of the vector: for a read in the first stage, for a write in the second.
Fits(stage, sector) == IF CardStage = stage /\ stage.pos # sector THEN Bad ELSE sector

\* dma_mci_2_ram or dma_usb_2_ram is complete.
FirstDone ==
  /\ first # Off
  /\ buf' = [buf EXCEPT ![first.buf] =
       IF slipped \/ second.buf = first.buf THEN Bad ELSE Fits(first, src)]
  /\ src' = (IF src > MaxLength THEN src ELSE src + 1) /\ first' = Off
  /\ UNCHANGED <<msd, hostSide, loop, second, slipped, late, times, aes, iw>>

\* dma_ram_2_usb or dma_ram_2_mci is complete.
SecondDone ==
  LET sector == IF first.buf = second.buf THEN Bad ELSE Fits(second, buf[second.buf])
  IN  /\ second # Off /\ second' = Off
      /\ IF sector = sent + 1 THEN sent' = sector /\ UNCHANGED wrong ELSE wrong' = TRUE /\ UNCHANGED sent
      /\ UNCHANGED <<msd, mode, loop, buf, first, src, slipped, late, times, aes, iw>>

-----------------------------------------------------------------------------
(* AES_KeyEncryption, AES_StorageKeyEncryption in the IW task *)

IWWants ==
  /\ iw = "away" /\ iw' = "wants"
  /\ UNCHANGED <<msd, hostSide, loop, buf, first, second, src, slipped, late, times, aes>>

IWTakes ==
  /\ iw = "wants" /\ aes = "free" /\ aes' = "iw" /\ iw' = "waits"
  /\ UNCHANGED <<msd, hostSide, loop, buf, first, second, src, slipped, late, times>>

\* It waits for all stages, does not look at the results, and sets the AES unit up for its key.
IWUses ==
  /\ iw = "waits" /\ aes' = "free" /\ iw' = "away"
  /\ IF first = Off /\ second = Off THEN UNCHANGED <<late, times>> ELSE GivesUp("iw")
  /\ wrong' = (wrong \/ CardStage # Off)
  /\ UNCHANGED <<msd, mode, sent, loop, buf, first, second, src, slipped>>

-----------------------------------------------------------------------------
PipelineTask == Load \/ Loaded \/ Late \/ Again \/ LoadLast \/ Last \/ Drain
Hardware == FirstDone \/ SecondDone

PipelineNext ==
  \/ \E m \in {"read", "write"}, n \in 1 .. MaxLength : BeginPipeline(m, n)
  \/ PipelineTask \/ Hardware \/ IWWants \/ IWTakes \/ IWUses

\* Both tasks poll the semaphore and have the same priority; a stage that is not halted completes.
PipelineFairness ==
  /\ SF_pipelineVars(Load) /\ SF_pipelineVars(LoadLast) /\ WF_pipelineVars(PipelineTask)
  /\ WF_pipelineVars(FirstDone) /\ WF_pipelineVars(SecondDone)
  /\ SF_pipelineVars(IWTakes) /\ WF_pipelineVars(IWUses)

PipelineSpec == PipelineInit /\ [][PipelineNext]_pipelineVars /\ PipelineFairness

-----------------------------------------------------------------------------
(* Properties *)

Stage == [buf : Buffers, pos : 1 .. MaxLength + 1] \union {Off}

\* Every variable keeps its type; the block number stays within the transfer.
PipelineTypeOK ==
  /\ msd \in {"idle", "load", "fill", "both", "late", "last", "drain"} /\ mode \in {"read", "write"}
  /\ left \in 0 .. MaxLength /\ block \in 1 .. MaxLength + 1 /\ bid \in Buffers /\ full \in BOOLEAN
  /\ buf \in [Buffers -> 0 .. MaxLength + 1]
  /\ first \in Stage /\ second \in Stage
  /\ src \in 1 .. MaxLength + 1 /\ slipped \in BOOLEAN
  /\ sent \in 0 .. MaxLength + 1 /\ wrong \in BOOLEAN
  /\ late \subseteq {"fill", "both", "last", "iw"} /\ times \in 0 .. MaxLate
  /\ aes \in {"free", "msd", "iw"} /\ iw \in {"away", "wants", "waits"}
  /\ (aes = "iw") <=> (iw = "waits")

\* What a transfer has moved when it is answered is as many sectors as the block number and the host count.
AnsweredIsComplete == msd = "idle" /\ late = {} /\ ~wrong => sent = IF mode = "read" THEN block - 1 ELSE block

\* No buffer is filled while it is emptied, unless the first sector of a write was late.
BuffersAreApart == first # Off /\ second # Off /\ first.buf = second.buf => mode = "write" /\ "fill" \in late

\* Every sector arrives, once, in order and under its own block number, whatever the order in which the
\* stages of the two buffers complete and whenever the IW task takes the AES unit, unless a stage was
\* late; the last one may be.
SectorsArriveRight == (late \subseteq {"last"} => ~wrong) /\ AnsweredIsComplete /\ BuffersAreApart

\* The AES unit is not given while a sector passes through it, unless the last stage of a write is late.
AesIsKept == CardStage # Off => aes = "msd" \/ (mode = "write" /\ "last" \in late)

\* A write whose second stage was late waits for the semaphore that it has itself.
Stuck == mode = "write" /\ "both" \in late

\* A transfer ends, late stages or not.
TransferEnds == msd # "idle" ~> msd = "idle" \/ Stuck

\* The IW task gets the AES unit, however many transfers the host makes.
AesIsGiven == iw = "wants" ~> iw = "waits" \/ Stuck

\* Neither task keeps the other from going on by holding the semaphore.
TasksGoOn == TransferEnds /\ AesIsGiven
=============================================================================
