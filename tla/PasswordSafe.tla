---------------------------- MODULE PasswordSafe ----------------------------
(***************************************************************************)
(* The password safe (src/src/HighLevelFunctions/password_safe.c and the   *)
(* handlers of report_protocol.c): slots in two flash pages, enciphered    *)
(* with a key that is in flash, enciphered by the smartcard.  A slot is    *)
(* sent in two reports, collected in PWS_BufferSlot_st and enciphered      *)
(* there.  New keys (HID_ExcuteCmd, HandleAesStorageKey.c) and the factory *)
(* reset (FlashStorage.c) replace the keys and erase flash, in steps that  *)
(* may fail or be cut off.                                                 *)
(***************************************************************************)
EXTENDS Naturals

CONSTANTS
  Slots,    \* PWS_SLOT_COUNT, or some of them
  Page,     \* Page[s]: the flash page slot s lies on, 1 or 2
  Words,    \* a name with its password, or a login name
  Zero,     \* a field of zeros
  Mess,     \* a field that was deciphered with a wrong key, or enciphered twice
  Blank,    \* a slot that is erased, or of random bytes
  None,
  MaxKeys   \* bounds how often keys are made

ASSUME SafeAssumption ==
  /\ Page \in [Slots -> {1, 2}]
  /\ {Zero, Mess} \intersect Words = {} /\ Zero # Mess /\ None \notin {"reset", "keys"}
  /\ MaxKeys \in Nat

VARIABLES
  cell,     \* the slots in flash
  blob,     \* the enciphered key in the user page: its number, 0 when erased
  cardKey,  \* the key of the card, 0 after its factory reset
  made,     \* how many keys there were
  enabled,  \* DecryptedPasswordSafeKey_u8
  key,      \* DecryptedPasswordSafeKey_au8
  pin,      \* the card has verified the user PIN
  buffer,   \* PWS_BufferSlot_st: what is sent in the first report and in the second
  op,       \* the command under way: a write between erasing and programming, or a stage of new keys
  done,     \* history: the last command that made keys or erased them, when nothing was stored since
  stale,    \* history: ... failed while the safe was enabled, or was a factory reset
  asked,    \* history: the host has sent the first report since the last second one
  stored    \* history: what the host stored in each slot, as far as that is to be read again

vars == <<cell, blob, cardKey, made, enabled, key, pin, buffer, op, done, stale, asked, stored>>
flash == <<cell, blob>>
history == <<done, stale, asked, stored>>

Fields == Words \union {Zero, Mess}
Slot(k, one, two, used) == [key |-> k, one |-> one, two |-> two, used |-> used]
SafeKey == <<blob, cardKey>>
Idle == [stage |-> "idle", slot |-> None, what |-> Blank, blob |-> 0, reset |-> FALSE]

Init ==
  /\ cell = [s \in Slots |-> Blank] /\ blob = 1 /\ cardKey = 1 /\ made = 1
  /\ enabled = FALSE /\ key = <<0, 0>> /\ pin = FALSE
  /\ buffer = [one |-> Zero, two |-> Zero]
  /\ op = Idle /\ done = None /\ stale = FALSE /\ asked = FALSE
  /\ stored = [s \in Slots |-> None]

-----------------------------------------------------------------------------
(* The key *)

\* PWS_DecryptedPasswordSafeKey; the card may fail.  A key that is there is not read again.
DecryptKey ==
  \/ enabled /\ UNCHANGED <<enabled, key, stale>>
  \/ ~enabled /\ pin' /\ cardKey # 0 /\ enabled' = TRUE /\ key' = SafeKey /\ stale' = FALSE
  \/ ~enabled /\ key' = <<0, 0>> /\ UNCHANGED <<enabled, stale>>

\* cmd_getPasswordSafeEnable
Enable ==
  /\ op = Idle
  /\ \/ pin' = TRUE /\ DecryptKey
     \/ pin' = FALSE /\ UNCHANGED <<enabled, key, stale>>
  /\ UNCHANGED <<flash, cardKey, made, buffer, op, done, asked, stored>>

\* cmd_getPasswordSafeInitKey
InitKey ==
  /\ op = Idle /\ UNCHANGED pin /\ DecryptKey
  /\ UNCHANGED <<flash, cardKey, made, buffer, op, done, asked, stored>>

\* Mutant: the flag is left.
LockLeavesFlag ==
  /\ op = Idle /\ key' = <<0, 0>> /\ pin' = FALSE /\ stale' = FALSE
  /\ UNCHANGED <<flash, cardKey, made, enabled, buffer, op, done, asked, stored>>
\* LockDevice, PWS_DisableKey
Lock ==
  /\ op = Idle /\ enabled' = FALSE /\ key' = <<0, 0>> /\ pin' = FALSE /\ stale' = FALSE
  /\ UNCHANGED <<flash, cardKey, made, buffer, op, done, asked, stored>>

-----------------------------------------------------------------------------
(* Slots *)

\* PWS_ReadSlot
ReadSlot(s) ==
  IF ~enabled THEN None
  ELSE IF cell[s] # Blank /\ cell[s].key = key THEN cell[s] ELSE Slot(key, Mess, Mess, TRUE)

\* cmd_getPasswordSafeSetSlotData_1: the slot number is not used, and the safe need not be enabled.
WriteSlotData_1(w) ==
  /\ op = Idle /\ buffer' = [one |-> w, two |-> Zero] /\ asked' = TRUE
  /\ UNCHANGED <<flash, cardKey, made, enabled, key, pin, op, done, stale, stored>>

\* flashc_memcpy erases the page and programs it from the page buffer.
ErasePage(s, what) ==
  /\ cell' = [t \in Slots |-> IF Page[t] = Page[s] THEN Blank ELSE cell[t]]
  /\ op' = [Idle EXCEPT !.stage = "program", !.slot = s, !.what = [cell EXCEPT ![s] = what]]

\* Mutant: the slot is enciphered in a copy, and its login name is not taken over.
OldLogin(s, w) ==
  /\ op = Idle /\ enabled
  /\ ErasePage(s, Slot(key, buffer.one, buffer.two, TRUE))
  /\ buffer' = [one |-> Mess, two |-> Mess] /\ asked' = FALSE /\ done' = None
  /\ stored' = [stored EXCEPT ![s] = IF asked /\ ~stale THEN Slot(key, buffer.one, w, TRUE) ELSE None]
  /\ UNCHANGED <<blob, cardKey, made, enabled, key, pin, stale>>
\* cmd_getPasswordSafeSetSlotData_2: PWS_WriteSlot enciphers the buffer in place.
WriteSlotData_2(s, w) ==
  /\ op = Idle /\ enabled
  /\ ErasePage(s, Slot(key, buffer.one, w, TRUE))
  /\ buffer' = [one |-> Mess, two |-> Mess] /\ asked' = FALSE /\ done' = None
  /\ stored' = [stored EXCEPT ![s] = IF asked /\ ~stale THEN Slot(key, buffer.one, w, TRUE) ELSE None]
  /\ UNCHANGED <<blob, cardKey, made, enabled, key, pin, stale>>

\* ... which is refused before it is enciphered.
WriteRefused(w) ==
  /\ op = Idle /\ ~enabled /\ buffer' = [buffer EXCEPT !.two = w]
  /\ UNCHANGED <<flash, cardKey, made, enabled, key, pin, op, history>>

\* cmd_getPasswordSafeEraseSlot
EraseSlot(s) ==
  /\ op = Idle /\ enabled
  /\ ErasePage(s, Slot(key, Zero, Zero, FALSE))
  /\ stored' = [stored EXCEPT ![s] = IF stale THEN None ELSE Slot(key, Zero, Zero, FALSE)] /\ done' = None
  /\ UNCHANGED <<blob, cardKey, made, enabled, key, pin, buffer, stale, asked>>

Program ==
  /\ op.stage = "program" /\ op' = Idle
  /\ cell' = [t \in Slots |-> IF Page[t] = Page[op.slot] THEN op.what[t] ELSE cell[t]]
  /\ UNCHANGED <<blob, cardKey, made, enabled, key, pin, buffer, history>>

-----------------------------------------------------------------------------
(* The user page *)

\* Every field of the user page (configuration, identities of the cards, time stamp, update PIN, keys of the
\* volumes) is written by flashc_memcpy, which erases the page with the safe's key in it.
WriteUserPage ==
  /\ op = Idle /\ blob' = 0 /\ op' = [Idle EXCEPT !.stage = "user", !.blob = blob]
  /\ UNCHANGED <<cell, cardKey, made, enabled, key, pin, buffer, history>>

ProgramUserPage ==
  /\ op.stage = "user" /\ blob' = op.blob /\ op' = Idle
  /\ UNCHANGED <<cell, cardKey, made, enabled, key, pin, buffer, history>>

-----------------------------------------------------------------------------
(* New keys and the factory reset *)

Forgotten == [s \in Slots |-> None]

\* HTML_CMD_GENERATE_NEW_KEYS, or cmd_getFactoryReset with LA_OpenPGP_V20_ResetCard; then the user page is erased.
EraseUserPage(reset) ==
  /\ op = Idle /\ (reset \/ made < MaxKeys)
  /\ blob' = 0 /\ cardKey' = (IF reset THEN 0 ELSE cardKey) /\ pin' = (pin /\ ~reset)
  /\ op' = [Idle EXCEPT !.stage = "erase", !.reset = reset]
  /\ stored' = Forgotten /\ stale' = enabled /\ done' = None
  /\ UNCHANGED <<cell, made, enabled, key, buffer, asked>>

\* EraseLocalFlashKeyValues_u32: one page of the two.
EraseSafe ==
  /\ op.stage = "erase"
  /\ cell' = [s \in Slots |-> IF Page[s] = 1 THEN Blank ELSE cell[s]]
  /\ op' = (IF op.reset THEN Idle ELSE [op EXCEPT !.stage = "card"])
  /\ done' = IF op.reset THEN "reset" ELSE None
  /\ UNCHANGED <<blob, cardKey, made, enabled, key, pin, buffer, stale, asked, stored>>

\* BuildNewAesMasterKey_u32
NewCardKey ==
  /\ op.stage = "card" /\ op' = [op EXCEPT !.stage = "key"]
  /\ cardKey' = made + 1 /\ made' = made + 1 /\ pin' = FALSE
  /\ UNCHANGED <<flash, enabled, key, buffer, history>>

\* Mutant: the key that was decrypted stays.
KeyStaysDecrypted ==
  /\ op.stage = "key" /\ op' = Idle /\ blob' = made /\ pin' = FALSE
  /\ done' = "keys" /\ stale' = FALSE
  /\ UNCHANGED <<cell, cardKey, made, enabled, key, buffer, asked, stored>>
\* BuildPasswordSafeKey_u32
NewSafeKey ==
  /\ op.stage = "key" /\ op' = Idle /\ blob' = made /\ pin' = FALSE
  /\ enabled' = FALSE /\ done' = "keys" /\ stale' = FALSE
  /\ UNCHANGED <<cell, cardKey, made, key, buffer, asked, stored>>

\* The card fails in BuildStorageKeys_u32, InitHiddenSlots or BuildPasswordSafeKey_u32.
KeysFail ==
  /\ op.stage \in {"card", "key"} /\ op' = Idle /\ pin' = FALSE
  /\ UNCHANGED <<flash, cardKey, made, enabled, key, buffer, history>>

-----------------------------------------------------------------------------
\* Another command verifies the user PIN, or the host powers the card.
OtherUse == op = Idle /\ pin' \in BOOLEAN
  /\ UNCHANGED <<flash, cardKey, made, enabled, key, buffer, op, history>>

\* Power is cut, or the stick is plugged out: a page that is erased stays so.
PowerCut ==
  /\ enabled' = FALSE /\ key' = <<0, 0>> /\ pin' = FALSE /\ op' = Idle
  /\ buffer' = [one |-> Zero, two |-> Zero] /\ stale' = FALSE /\ asked' = FALSE
  /\ stored' = [s \in Slots |->
       IF op.stage = "user" \/ (op.stage = "program" /\ Page[s] = Page[op.slot]) THEN None ELSE stored[s]]
  /\ UNCHANGED <<flash, cardKey, made, done>>

Next ==
  \/ Enable \/ InitKey \/ Lock \/ OtherUse \/ PowerCut
  \/ \E w \in Words : WriteSlotData_1(w) \/ WriteRefused(w)
  \/ \E s \in Slots, w \in Words : WriteSlotData_2(s, w)
  \/ \E s \in Slots : EraseSlot(s)
  \/ Program \/ WriteUserPage \/ ProgramUserPage
  \/ \E reset \in BOOLEAN : EraseUserPage(reset)
  \/ EraseSafe \/ NewCardKey \/ NewSafeKey \/ KeysFail

Spec == Init /\ [][Next]_vars

-----------------------------------------------------------------------------
(* Properties *)

KeyNumbers == (0 .. MaxKeys + 1) \X (0 .. MaxKeys + 1)
SlotType == [key : KeyNumbers, one : Fields, two : Fields, used : BOOLEAN]

\* Every variable keeps its type; a slot that is in use was written with a key that was decrypted.
TypeOK ==
  /\ cell \in [Slots -> SlotType \union {Blank}]
  /\ blob \in 0 .. MaxKeys + 1 /\ cardKey \in 0 .. MaxKeys + 1 /\ made \in 1 .. MaxKeys + 1
  /\ enabled \in BOOLEAN /\ key \in KeyNumbers /\ pin \in BOOLEAN
  /\ buffer \in [one : Fields, two : Fields]
  /\ op.stage \in {"idle", "program", "user", "erase", "card", "key"} /\ op.reset \in BOOLEAN
  /\ op.blob \in 0 .. MaxKeys + 1
  /\ op.stage = "program" => op.slot \in Slots /\ op.what \in [Slots -> SlotType \union {Blank}]
  /\ done \in {None, "reset", "keys"} /\ stale \in BOOLEAN /\ asked \in BOOLEAN
  /\ stored \in [Slots -> SlotType \union {None}]
  /\ enabled => key # <<0, 0>>

\* What the host stored in a slot, name and password first and login name second, is what the key in
\* flash deciphers there, after any writes to other slots and to the user page, locking and unlocking, and
\* power cuts.  The cuts that lose it hit a write to its own page, or any write to the user page, which loses
\* the key of all slots.
StoredIsRead ==
  op = Idle => \A s \in Slots : stored[s] # None => cell[s] = stored[s] /\ stored[s].key = SafeKey

\* When new keys are made nothing that was stored before is read any more, though the erasing leaves
\* one of the two pages; nor after a factory reset, once the key that was in RAM is gone: a safe that was
\* enabled keeps that key over the reset (stale) and reads the page that is left.
OldIsForgotten == done # None /\ enabled /\ ~stale => \A s \in Slots : ReadSlot(s).one \notin Words
=============================================================================
