------------------------------- MODULE T1Link -------------------------------
(***************************************************************************)
(* The link to the smartcard (src/src/CCID/USART/ISO7816_Prot_T1.c):       *)
(* ISO7816_T1_SendString sends a command in numbered blocks and collects   *)
(* the blocks of the answer.  One number, ISO7816_T1_SendNr, stands for    *)
(* both directions: that of the next block to be sent and, in a            *)
(* R-block, of the next one that is expected.  Blocks that are lost or     *)
(* damaged end a command, without the number being switched; the host's    *)
(* own blocks (ISO7816_T1_DirectXfr) switch the numbers of the card only.  *)
(*                                                                         *)
(* The card is modelled as ISO 7816-3 has it.  To a block that is out of   *)
(* turn it answers with the number it expects, marked as an error or not.  *)
(***************************************************************************)
EXTENDS Naturals, Sequences

CONSTANTS
  MaxBlocks,  \* bounds the blocks of a command
  MaxParts,   \* bounds the blocks of an answer
  MaxErrors   \* ISO7816_T1_MAX_SEND_ERROR_COUNT

ASSUME LinkAssumption == MaxBlocks \in Nat \ {0} /\ MaxParts \in Nat \ {0} /\ MaxErrors \in Nat

VARIABLES
  sendNr,   \* ISO7816_T1_SendNr
  lastNr,   \* ISO7816_T1_LastSendNr
  pc,       \* ISO7816_T1_SendString: "idle", "send"; "card" and "receive" as the block under way is for either
  cmd,      \* the number of the command, modulo 3
  total,    \* its blocks
  sent,     \* nSendPointer
  flag,     \* nSendFlag: "I" or "R"
  more,     \* the chaining bit in ISO7816_T1_SendBuffer
  errors,   \* nErrorCount
  chained,  \* nFolgeDatenBloecke is odd
  got,      \* cReceiveData: the blocks of the answer
  wire,     \* the block under way, Silence for none
  card,     \* the card: the number it expects, that of its own last or next block, what it has
            \* received of a command, the answer it is sending and how far, how it marks errors
  result,   \* history: what the last command returned
  ran,      \* history: how often its last block was executed, and whether with all others
  before,   \* history: the command before was disturbed, or the card used by the host
  loose,    \* history: a command was disturbed, or the card used, since the card last executed one
  disturbed \* history: this command was disturbed

number == <<sendNr, lastNr>>
send == <<cmd, total, sent, flag, more, errors, chained, got>>
history == <<result, ran, before, loose, disturbed>>
linkVars == <<number, pc, send, wire, card, history>>

Bit == {0, 1}
Silence == [type |-> "none"]
IBlock(nr, c, part, m) == [type |-> "I", nr |-> nr, cmd |-> c, part |-> part, more |-> m]
RBlock(nr, err) == [type |-> "R", nr |-> nr, err |-> err]
SBlock == [type |-> "S"]
NewCard(marks) ==
  [expects |-> 0, own |-> 0, taken |-> <<>>, cmd |-> 0, parts |-> 0, part |-> 0, marks |-> marks]

LinkInit ==
  /\ sendNr = 0 /\ lastNr = 0 /\ pc = "idle"
  /\ cmd = 0 /\ total = 1 /\ sent = 1 /\ flag = "I" /\ more = FALSE /\ errors = 0
  /\ chained = FALSE /\ got = <<>> /\ wire = Silence
  /\ card \in {NewCard(marks) : marks \in BOOLEAN}
  /\ result = "none" /\ ran = [times |-> 0, whole |-> TRUE] /\ before = FALSE /\ loose = FALSE /\ disturbed = FALSE

-----------------------------------------------------------------------------
(* Firmware *)

\* ISO7816_T1_Add_I_BlockNr
Switch == sendNr' = 1 - sendNr /\ lastNr' = sendNr

\* ISO7816_T1_InitSendNr, when the card is powered: the first command after that is a short one.
PowerCard ==
  /\ pc = "idle" /\ sendNr' = 0 /\ lastNr' = 0 /\ card' = NewCard(card.marks)
  /\ before' = FALSE /\ loose' = FALSE
  /\ result' = "none" /\ disturbed' = FALSE
  /\ UNCHANGED <<pc, send, wire, ran>>

BeginCommand(n) ==
  /\ pc = "idle" /\ (sendNr = lastNr => n = 1)
  /\ pc' = "send" /\ cmd' = (cmd + 1) % 3 /\ total' = n /\ sent' = 0 /\ flag' = "I"
  /\ errors' = 0 /\ chained' = FALSE /\ got' = <<>>
  /\ result' = "none" /\ ran' = [times |-> 0, whole |-> TRUE]
  /\ before' = disturbed /\ loose' = (disturbed \/ (loose /\ ran.times = 0)) /\ disturbed' = FALSE
  /\ UNCHANGED <<number, more, wire, card>>

\* ISO7816_T1_SendBlock
SendI ==
  /\ pc = "send" /\ flag = "I" /\ pc' = "card"
  /\ more' = (sent + 1 < total)
  /\ wire' = IBlock(sendNr, cmd, sent + 1, more')
  /\ UNCHANGED <<number, cmd, total, sent, flag, errors, chained, got, card, history>>

\* ISO7816_T1_Send_R_Block
SendR ==
  /\ pc = "send" /\ flag = "R" /\ pc' = "card"
  /\ wire' = RBlock(sendNr, FALSE)
  /\ UNCHANGED <<number, send, card, history>>

Arrived(type) == pc = "receive" /\ wire.type = type /\ wire' = Silence

\* ISO7816_T1_CheckReceiveBlock
GoodI == wire.nr = sendNr \/ ~more
GoodR == wire.nr = lastNr /\ ~wire.err

\* Mutant: the number is not put right after an answer in blocks.
NoCorrection(n, odd, data) ==
  IF n < total
  THEN pc' = "send" /\ Switch /\ UNCHANGED result
  ELSE /\ pc' = "idle" /\ result' = IF data # <<>> THEN "ok" ELSE "fail"
       /\ Switch
\* The end of the loop, and what ISO7816_T1_SendAPDU makes of it; the number is switched, once more after an
\* odd number of blocks with the chaining bit.
Proceed(n, odd, data) ==
  IF n < total
  THEN pc' = "send" /\ Switch /\ UNCHANGED result
  ELSE /\ pc' = "idle" /\ result' = IF data # <<>> THEN "ok" ELSE "fail"
       /\ IF odd THEN UNCHANGED sendNr /\ lastNr' = 1 - sendNr ELSE Switch

Data == Append(got, [cmd |-> wire.cmd, part |-> wire.part])

ReceiveI ==
  /\ Arrived("I") /\ GoodI /\ ~wire.more
  /\ got' = Data /\ sent' = sent + 1 /\ flag' = "I" /\ Proceed(sent + 1, chained, Data)
  /\ UNCHANGED <<cmd, total, more, errors, chained, card, ran, before, loose, disturbed>>

ReceiveChained ==
  /\ Arrived("I") /\ GoodI /\ wire.more
  /\ got' = Data /\ flag' = "R" /\ chained' = ~chained /\ Switch /\ pc' = "send"
  /\ UNCHANGED <<cmd, total, sent, more, errors, card, history>>

ReceiveR ==
  /\ Arrived("R") /\ GoodR
  /\ sent' = sent + 1 /\ Proceed(sent + 1, chained, got)
  /\ UNCHANGED <<cmd, total, flag, more, errors, chained, got, card, ran, before, loose, disturbed>>

Fail == pc' = "idle" /\ result' = "fail"
\* Mutant: errors are counted, and their number is not looked at.
NeverGivesUp ==
  /\ \/ Arrived("I") /\ ~GoodI
     \/ Arrived("R") /\ ~GoodR
     \/ Arrived("S")
  /\ errors' = errors + 1 /\ pc' = "send"
  /\ UNCHANGED <<number, cmd, total, sent, flag, more, chained, got, card, history>>
ReceiveError ==
  /\ \/ Arrived("I") /\ ~GoodI
     \/ Arrived("R") /\ ~GoodR
     \/ Arrived("S")
  /\ errors' = errors + 1
  /\ IF errors = MaxErrors THEN Fail ELSE pc' = "send" /\ UNCHANGED result
  /\ UNCHANGED <<number, cmd, total, sent, flag, more, chained, got, card, ran, before, loose, disturbed>>

\* ISO7816_T1_ReceiveBlock fails: the check sum is wrong, or no block came in time.
ReceiveFails ==
  /\ pc \in {"card", "receive"} /\ wire' = Silence /\ Fail /\ disturbed' = TRUE
  /\ UNCHANGED <<number, send, card, ran, before, loose>>

-----------------------------------------------------------------------------
(* The card and the host *)

\* The blocks a command has been executed with, and how often.
Whole(blocks) == blocks = [i \in 1 .. total |-> [cmd |-> cmd, part |-> i]]

Taken(block) == IF Len(card.taken) > MaxBlocks THEN card.taken ELSE Append(card.taken, block)
Answer(c) == wire' = IBlock(c.own, c.cmd, c.part, c.part < c.parts) /\ card' = c
\* A new block of the host tells that the last of the answer has come.
Own == IF card.part > 0 THEN 1 - card.own ELSE card.own

Execute ==
  LET block == [cmd |-> wire.cmd, part |-> wire.part]
      next == [card EXCEPT !.expects = 1 - @, !.own = Own]
  IN /\ wire.type = "I" /\ wire.nr = card.expects
     /\ \/ /\ wire.more
           /\ card' = [next EXCEPT !.taken = Taken(block), !.part = 0]
           /\ wire' = RBlock(card'.expects, FALSE) /\ UNCHANGED ran
        \/ /\ ~wire.more
           /\ ran' = [times |-> ran.times + 1, whole |-> ran.whole /\ Whole(Taken(block))]
           /\ \E n \in 1 .. MaxParts :
                Answer([next EXCEPT !.taken = <<>>, !.cmd = wire.cmd, !.parts = n, !.part = 1])

OutOfTurn ==
  /\ wire.type = "I" /\ wire.nr # card.expects
  /\ wire' = RBlock(card.expects, card.marks) /\ UNCHANGED <<card, ran>>

\* A R-block asks for the next block of the answer, or for the last one again.
Continue ==
  /\ wire.type = "R" /\ UNCHANGED ran
  /\ \/ /\ card.part > 0 /\ wire.nr # card.own /\ card.part < card.parts
        /\ Answer([card EXCEPT !.own = 1 - @, !.part = @ + 1])
     \/ card.part > 0 /\ wire.nr = card.own /\ Answer(card)
     \/ /\ card.part = 0 \/ (wire.nr # card.own /\ card.part = card.parts)
        /\ wire' = RBlock(card.expects, card.marks) /\ UNCHANGED card

CardAnswers ==
  /\ pc = "card" /\ pc' = "receive"
  /\ Execute \/ OutOfTurn \/ Continue
  /\ UNCHANGED <<number, send, result, before, loose, disturbed>>

\* A block that is damaged on its way to the card, and one by which the card asks for more time.
Damaged ==
  /\ pc = "card" /\ pc' = "receive" /\ disturbed' = TRUE
  /\ wire' \in {RBlock(card.expects, TRUE), SBlock}
  /\ UNCHANGED <<number, send, card, result, ran, before, loose>>

\* ISO7816_T1_DirectXfr: the host's own blocks, each of them answered.
HostXfr ==
  /\ pc = "idle" /\ disturbed' = TRUE
  /\ \E e \in Bit, o \in Bit : card' = [card EXCEPT !.expects = e, !.own = o, !.taken = <<>>, !.part = 0]
  /\ UNCHANGED <<number, pc, send, wire, result, ran, before, loose>>

-----------------------------------------------------------------------------
Firmware == SendI \/ SendR \/ ReceiveI \/ ReceiveChained \/ ReceiveR \/ ReceiveError

LinkNext ==
  \/ PowerCard \/ \E n \in 1 .. MaxBlocks : BeginCommand(n)
  \/ Firmware \/ ReceiveFails \/ CardAnswers \/ Damaged \/ HostXfr

LinkSpec == LinkInit /\ [][LinkNext]_linkVars

-----------------------------------------------------------------------------
(* Properties *)

Part == [cmd : 0 .. 2, part : 1 .. MaxBlocks + MaxParts]
Block ==
  [type : {"I"}, nr : Bit, cmd : 0 .. 2, part : 1 .. MaxBlocks + MaxParts, more : BOOLEAN] \union
  [type : {"R"}, nr : Bit, err : BOOLEAN] \union {Silence, SBlock}

\* Every variable keeps its type; errors and answers stay within their bounds.
LinkTypeOK ==
  /\ sendNr \in Bit /\ lastNr \in Bit /\ pc \in {"idle", "send", "card", "receive"}
  /\ cmd \in 0 .. 2 /\ total \in 1 .. MaxBlocks /\ sent \in 0 .. MaxBlocks /\ flag \in {"I", "R"}
  /\ more \in BOOLEAN /\ errors \in 0 .. MaxErrors + 1 /\ chained \in BOOLEAN
  /\ got \in Seq(Part) /\ Len(got) <= 2 * MaxParts
  /\ wire \in Block /\ (pc \in {"idle", "send"} <=> wire = Silence)
  /\ card.expects \in Bit /\ card.own \in Bit /\ card.taken \in Seq(Part) /\ card.part \in 0 .. MaxParts
  /\ result \in {"none", "ok", "fail"} /\ before \in BOOLEAN /\ loose \in BOOLEAN /\ disturbed \in BOOLEAN

Parts(n) == [i \in 1 .. n |-> [cmd |-> cmd, part |-> i]]
AnswerIsWhole == got \in {Parts(card.parts), <<Parts(1)[1]>> \o Parts(card.parts)}

\* A command that ISO7816_T1_SendString says is done was executed by the card once; from all its blocks,
\* unless one was disturbed since the card last executed one.  The answer that is returned is the answer
\* to it, complete and in order; only its first block may come twice.
AnswerIsRight == result = "ok" => ran.times = 1 /\ (loose \/ ran.whole) /\ AnswerIsWhole

\* A command that fails though nothing disturbed it comes after one that was, or after the host's
\* blocks: one failure brings the numbers together again.  Not so with a card that marks a block out of
\* turn as an error, nor before the first answer since the card was powered, when lastNr is wrong.
FailsOnceOnly == result = "fail" /\ ~disturbed /\ ~card.marks /\ lastNr # sendNr => before
=============================================================================
