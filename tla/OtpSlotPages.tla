---------------------------- MODULE OtpSlotPages ----------------------------
(***************************************************************************)
(* The flash pages behind the OTP slots: write_to_slot, write_to_config    *)
(* and backup_data of src/src/OTP/hotp.c, the part of the factory reset    *)
(* that erases them, and the other writer of the backup pages:             *)
(* increment_counter_page, when a counter page is full.                    *)
(*                                                                         *)
(* A slot record is changed by reading all slot pages to RAM, writing the  *)
(* changed image to the backup pages, then to the slot pages, and last a   *)
(* token that says so.  flashc_memcpy erases and writes page by page; each *)
(* action is one command to the flash controller, so that power may be cut *)
(* between any two.  Within the sequence nothing else runs (it is in a     *)
(* critical section, and the task that runs it is the only one that        *)
(* writes these pages).                                                    *)
(***************************************************************************)
EXTENDS Integers

CONSTANTS
  Cells,     \* the slots, and the cell of the global configuration
  Config,    \* that cell
  HotpSlots, \* the slots that have a counter page
  NPages,    \* pages of slots, and of their backup; 3 in the code
  On,        \* On[c]: the pages the bytes of cell c lie on (a record may straddle two)
  Names,     \* what a record says of its slot, settings of the configuration included
  Secrets,   \* the secrets of the slots
  FF, Junk,  \* a field that is erased, and one of random bytes
  Keep,      \* the all-zero secret, which asks for the old one to be kept
  None, All  \* no cell, and all of them

ASSUME PagesAssumption ==
  /\ NPages \in Nat \ {0}
  /\ Config \in Cells /\ HotpSlots \subseteq Cells \ {Config}
  /\ On \in [Cells -> SUBSET (1 .. NPages)] /\ 1 \in On[Config]
  /\ \A c \in Cells : On[c] # {}
  /\ FF # Junk /\ FF \notin Names \union Secrets /\ Junk \notin Names \union Secrets
  /\ Keep \notin Secrets \union {FF, Junk}
  /\ {None, All} \intersect Cells = {} /\ None # All

VARIABLES
  slots,    \* slots[p][c]: the part of cell c on slot page p
  backup,   \* the same for the backup pages
  trailer,  \* the fields at the end of the last backup page
  op,       \* the update or reset under way; lost when power is cut
  target,   \* the cell an update under way writes; All in a factory reset
  outcome,  \* how the last update or reset ended
  start,    \* history: the slot pages when the last update or reset began
  image,    \* history: what the last update was to make of them
  owed      \* history: a copy of the slots is owed: since the last update no reset has begun,
            \* and no counter page has filled up while the slot pages were torn

flash == <<slots, backup, trailer>>
vars == <<slots, backup, trailer, op, target, outcome, start, image, owed>>

Pages == 1 .. NPages
OnPage(p) == {c \in Cells : p \in On[c]}

Parts == [name : Names \union {FF, Junk}, secret : Secrets \union {FF, Junk}]
Blank == [name |-> FF, secret |-> FF]
Random == [name |-> Junk, secret |-> Junk]
IsImage(f) == f = [p \in Pages |-> f[p]] /\ \A p \in Pages : f[p] \in [OnPage(p) -> Parts]
PageOf(v, p) == [c \in OnPage(p) |-> v]
Filled(v) == [p \in Pages |-> PageOf(v, p)]

-----------------------------------------------------------------------------
(* Commands *)

Stages == {"idle", "backup", "length", "address", "slots", "token", "counter",
           "shredSlots", "shredBackup", "wipeSlots", "wipeBackup",
           "base", "baseAddress", "baseLength", "basePage", "baseToken"}

\* The next flash command: of which stage, on which page, and whether it is erased already.
At(stage, p, e) == [stage |-> stage, page |-> p, erased |-> e]
Idle == At("idle", 1, FALSE)

NoTrailer == [length |-> FALSE, address |-> FALSE, ok |-> FALSE]

\* With its last step, or by a cut of power.
Outcomes == {"none", "done", "cut"}

Init ==
  /\ slots = Filled(Blank) /\ backup = Filled(Blank) /\ trailer = NoTrailer
  /\ op = Idle /\ target = None /\ outcome = "none"
  /\ start = slots /\ image = backup /\ owed = FALSE

\* What a write of v makes of a part that holds old: an empty secret keeps the old one.
Merged(old, v) == IF v.secret = Keep THEN [v EXCEPT !.secret = old.secret] ELSE v

\* No page holds the random bytes of an interrupted reset.  The host repeats such a reset
\* before it uses the slots again.
Tidy == \A p \in Pages : PageOf(Random, p) \notin {slots[p], backup[p]}

\* All slot pages are copied to page_buffer and the record of c is changed there.
Begin(c, v) ==
  /\ op = Idle /\ Tidy
  /\ start' = slots
  /\ image' = [p \in Pages |-> [d \in OnPage(p) |->
                 IF d = c THEN Merged(slots[p][d], v) ELSE slots[p][d]]]
  /\ owed' = TRUE
  /\ op' = At("backup", 1, FALSE) /\ target' = c /\ outcome' = "none"
  /\ UNCHANGED flash

Requests == [name : Names, secret : Secrets \union {Keep}]

\* write_to_slot, for cmd_write_to_slot
WriteSlot == \E c \in Cells \ {Config}, v \in Requests : Begin(c, v)

\* write_to_slot with a record of 0xFF, for cmd_erase_slot
EraseSlot == \E c \in Cells \ {Config} : Begin(c, Blank)

\* write_to_config
WriteConfig == \E n \in Names : Begin(Config, [name |-> n, secret |-> FF])

-----------------------------------------------------------------------------
(* The flash commands of an update *)

\* Mutant: one page too many.
NextPageTooFar(stage, then) ==
  op' = IF op.page <= NPages THEN At(stage, op.page + 1, FALSE) ELSE then

\* The stage goes on with the next page, or is over.
NextPage(stage, then) ==
  op' = IF op.page < NPages THEN At(stage, op.page + 1, FALSE) ELSE then

\* Mutant: the token of the last update outlives its page.
BackupErasedButToken ==
  /\ backup'  = [backup EXCEPT ![op.page] = PageOf(Blank, op.page)]
  /\ trailer' = trailer

BackupErased ==
  /\ backup'  = [backup EXCEPT ![op.page] = PageOf(Blank, op.page)]
  /\ trailer' = IF op.page = NPages THEN NoTrailer ELSE trailer

\* Mutant: all slot pages are erased before the first is written.
AllSlotsErased == slots' = Filled(Blank)

SlotsErased == slots' = [slots EXCEPT ![op.page] = PageOf(Blank, op.page)]

\* backup_data erases the first page once more before, which makes no difference.
EraseBackupPage ==
  /\ op.stage = "backup" /\ ~op.erased
  /\ BackupErased
  /\ op' = [op EXCEPT !.erased = TRUE]
  /\ UNCHANGED <<slots, target, outcome, start, image, owed>>

\* Mutant: the pages are backed up as they are, without the change.
WriteBackupPageUnchanged ==
  /\ op.stage = "backup" /\ op.erased
  /\ backup' = [backup EXCEPT ![op.page] = slots[op.page]]
  /\ NextPage("backup", At("length", NPages, FALSE))
  /\ UNCHANGED <<slots, trailer, target, outcome, start, image, owed>>

WriteBackupPage ==
  /\ op.stage = "backup" /\ op.erased
  /\ backup' = [backup EXCEPT ![op.page] = image[op.page]]
  /\ NextPage("backup", At("length", NPages, FALSE))
  /\ UNCHANGED <<slots, trailer, target, outcome, start, image, owed>>

\* The length and then the address are written to erased bytes of the last backup page.
WriteLength ==
  /\ op.stage = "length"
  /\ trailer' = [trailer EXCEPT !.length = TRUE]
  /\ op' = At("address", NPages, FALSE)
  /\ UNCHANGED <<slots, backup, target, outcome, start, image, owed>>

WriteAddress ==
  /\ op.stage = "address"
  /\ trailer' = [trailer EXCEPT !.address = TRUE]
  /\ op' = At("slots", 1, FALSE)
  /\ UNCHANGED <<slots, backup, target, outcome, start, image, owed>>

EraseSlotPage ==
  /\ op.stage = "slots" /\ ~op.erased
  /\ SlotsErased
  /\ op' = [op EXCEPT !.erased = TRUE]
  /\ UNCHANGED <<backup, trailer, target, outcome, start, image, owed>>

WriteSlotPage ==
  /\ op.stage = "slots" /\ op.erased
  /\ slots' = [slots EXCEPT ![op.page] = image[op.page]]
  /\ NextPage("slots", At("token", NPages, FALSE))
  /\ UNCHANGED <<backup, trailer, target, outcome, start, image, owed>>

\* The token is written with erase: the last backup page goes through RAM.
EraseTokenPage ==
  /\ op.stage = "token" /\ ~op.erased
  /\ BackupErased
  /\ op' = [op EXCEPT !.erased = TRUE]
  /\ UNCHANGED <<slots, target, outcome, start, image, owed>>

\* cmd_erase_slot goes on with erase_counter for a HOTP slot.
ErasesCounter == target \in HotpSlots /\ \A p \in On[target] : image[p][target] = Blank

Done == op' = Idle /\ target' = None /\ outcome' = "done" /\ start' = image

WriteToken ==
  /\ op.stage = "token" /\ op.erased
  /\ backup' = [backup EXCEPT ![NPages] = image[NPages]]
  /\ trailer' = [length |-> TRUE, address |-> TRUE, ok |-> TRUE]
  /\ \/ ErasesCounter /\ op' = At("counter", NPages, FALSE) /\ UNCHANGED <<target, outcome, start>>
     \/ ~ErasesCounter /\ Done
  /\ UNCHANGED <<slots, image, owed>>

\* erase_counter gives flashc_erase_page an address for a page number.  As an int it is
\* negative, and the controller erases the page it wrote last: the one of the token.
EraseCounter ==
  /\ op.stage = "counter"
  /\ BackupErased
  /\ Done
  /\ UNCHANGED <<slots, image, owed>>

-----------------------------------------------------------------------------
(* Factory reset, power loss *)

\* EraseLocalFlashKeyValues: the pages are overwritten with random bytes (half by half and
\* five times, which is one step of each page here), and then erased.
FactoryReset ==
  /\ op = Idle
  /\ start' = slots /\ image' = Filled(Blank) /\ owed' = FALSE
  /\ op' = At("shredSlots", 1, FALSE) /\ target' = All /\ outcome' = "none"
  /\ UNCHANGED flash

ErasePage ==
  /\ ~op.erased
  /\ \/ /\ op.stage \in {"shredSlots", "wipeSlots"}
        /\ SlotsErased /\ UNCHANGED <<backup, trailer>>
     \/ /\ op.stage \in {"shredBackup", "wipeBackup"}
        /\ BackupErased /\ UNCHANGED slots
  /\ \/ op.stage \in {"shredSlots", "shredBackup"} /\ op' = [op EXCEPT !.erased = TRUE]
     \/ op.stage = "wipeSlots"  /\ NextPage("wipeSlots", At("wipeBackup", 1, FALSE))
     \/ op.stage = "wipeBackup" /\ NextPage("wipeBackup", Idle)
  /\ IF op' = Idle THEN target' = None /\ outcome' = "done" ELSE UNCHANGED <<target, outcome>>
  /\ UNCHANGED <<start, image, owed>>

ShredPage ==
  /\ op.erased
  /\ \/ /\ op.stage = "shredSlots"
        /\ slots' = [slots EXCEPT ![op.page] = PageOf(Random, op.page)]
        /\ NextPage("shredSlots", At("shredBackup", 1, FALSE))
        /\ UNCHANGED <<backup, trailer>>
     \/ /\ op.stage = "shredBackup"
        /\ backup' = [backup EXCEPT ![op.page] = PageOf(Random, op.page)]
        /\ trailer' = IF op.page = NPages
                      THEN [length |-> TRUE, address |-> TRUE, ok |-> FALSE] ELSE trailer
        /\ NextPage("shredBackup", At("wipeSlots", 1, FALSE))
        /\ UNCHANGED slots
  /\ UNCHANGED <<target, outcome, start, image, owed>>

\* RAM is lost; flash stays as the last command left it.
PowerLoss ==
  /\ op # Idle
  /\ op' = Idle /\ target' = None
  /\ outcome' = IF target = None THEN outcome ELSE "cut"
  /\ UNCHANGED <<flash, start, image, owed>>

-----------------------------------------------------------------------------
(* increment_counter_page, at a full counter page.  It saves the base value of the counter in *)
(* the first of the backup pages, whatever they hold.  Of the counter page itself see         *)
(* HotpCounter.                                                                               *)

\* A code is made from a programmed HOTP slot: its counter page may be full (HotpCounter).
CounterPageMayBeFull ==
  \E s \in HotpSlots : \E p \in On[s] : slots[p][s].name \in Names

\* The first backup page is erased.  If a cut has left the slot pages torn, so is now the only
\* whole copy.
ClearBackup ==
  /\ op = Idle /\ CounterPageMayBeFull
  /\ op' = At("base", 1, FALSE)
  /\ BackupErased
  /\ owed' = (owed /\ slots \in {start, image})
  /\ UNCHANGED <<slots, target, outcome, start, image>>

\* Eight bytes where the configuration is in a backup of the slots.
Garbled == [name |-> Junk, secret |-> FF]

WriteBase ==
  /\ op.stage = "base"
  /\ backup' = [backup EXCEPT ![1] = [c \in OnPage(1) |-> IF c = Config THEN Garbled ELSE Blank]]
  /\ op' = At("baseAddress", NPages, FALSE)
  /\ UNCHANGED <<slots, trailer, target, outcome, start, image, owed>>

\* The address and the length go to the end of the last backup page, which is not erased (if
\* it is not the first): bits are only cleared.  The length is written with four bytes, two of
\* which are the token's, so that there is no token any more.
WriteBaseFields ==
  /\ \/ /\ op.stage = "baseAddress" /\ op' = At("baseLength", NPages, FALSE)
        /\ trailer' = [trailer EXCEPT !.address = TRUE]
     \/ /\ op.stage = "baseLength" /\ op' = At("basePage", 1, FALSE)
        /\ trailer' = [trailer EXCEPT !.length = TRUE, !.ok = FALSE]
  /\ UNCHANGED <<slots, backup, target, outcome, start, image, owed>>

\* The counter page is erased and written, which are not these pages, and then the token is
\* written over two bytes that are not erased: 0x0008 & 0x4F4B is no token.
WriteBaseToken ==
  /\ \/ op.stage = "basePage" /\ op' = At("baseToken", NPages, FALSE)
     \/ op.stage = "baseToken" /\ op' = Idle
  /\ UNCHANGED <<flash, target, outcome, start, image, owed>>

Next ==
  \/ WriteSlot \/ EraseSlot \/ WriteConfig
  \/ EraseBackupPage \/ WriteBackupPage \/ WriteLength \/ WriteAddress
  \/ EraseSlotPage \/ WriteSlotPage \/ EraseTokenPage \/ WriteToken \/ EraseCounter
  \/ FactoryReset \/ ErasePage \/ ShredPage
  \/ ClearBackup \/ WriteBase \/ WriteBaseFields \/ WriteBaseToken
  \/ PowerLoss

Spec == Init /\ [][Next]_vars

-----------------------------------------------------------------------------
(* Properties *)

TypeOK ==
  /\ IsImage(slots) /\ IsImage(backup) /\ IsImage(start) /\ IsImage(image)
  /\ trailer \in [length : BOOLEAN, address : BOOLEAN, ok : BOOLEAN]
  /\ op \in [stage : Stages, page : Pages, erased : BOOLEAN]
  /\ target \in Cells \union {None, All}
  /\ outcome \in Outcomes
  /\ owed \in BOOLEAN

\* From the start of an update, through any cut of power, until the next one: either the
\* slot pages are as they were, or as they were to become, or the backup pages are as the
\* slot pages were to become (write_to_slot, backup_data).  No slot is lost that flash does
\* not hold somewhere.  The one thing that undoes this is increment_counter_page: a counter
\* page that fills up while the slot pages are torn has the first backup page erased
\* (ClearBackup).  While the slot pages are whole it may do that at any time.
OneCopyIsWhole == owed => slots \in {start, image} \/ backup = image

\* The OK token of the backup, "backed up data was correctly written to its destination"
\* (hotp.c:1173), stands only beside slot pages of one and the same update, even one that
\* was left there by an earlier update than the one that was cut, and whatever a counter
\* page that fills up writes over it.
TokenTellsTruth == trailer.ok /\ owed => slots \in {start, image}

\* What backup_data is there for: a whole copy of the slots at any time, and a token that is true.
BackupIsSound == OneCopyIsWhole /\ TokenTellsTruth

\* When an update or a reset has come to its end, the backup pages hold no secret that the
\* slots do not hold: erasing a slot leaves no copy of its secret.
SecretsOf(f) == {x \in Secrets : \E p \in Pages : \E c \in OnPage(p) : f[p][c].secret = x}
ErasedIsForgotten ==
  [][op # Idle /\ op' = Idle /\ flash' # flash
       => SecretsOf(backup') \subseteq SecretsOf(slots')]_vars

\* What a cell reads as: its parts, when they belong together.
CONSTANT Lost
Read(f, c) == IF \A p, q \in On[c] : f[p][c] = f[q][c]
              THEN f[CHOOSE p \in On[c] : TRUE][c] ELSE Lost

\* The pages implement the table of slots: an update changes one cell, and one that is cut
\* damages, besides, cells of one page only.
Table == INSTANCE OtpSlotTable WITH
  Values <- Parts,
  Requests <- Requests \union {Blank} \union [name : Names, secret : {FF}],
  Neighbours <- {OnPage(p) : p \in Pages},
  answered <- outcome # "cut",
  table <- [c \in Cells |-> Read(IF target = None THEN slots ELSE start, c)]
RefinesTable == Table!Spec
=============================================================================
