----------------------------- MODULE StorageKeys -----------------------------
(***************************************************************************)
(* The keys of the stick: the master key on the card, the user page of the *)
(* flash with everything made from it (HandleAesStorageKey.c,              *)
(* FlashStorage.c under src/src/HighLevelFunctions), the keys in RAM, and  *)
(* the update PIN, which is on the same page.                              *)
(*                                                                         *)
(* Every field of the page is written by flashc_memcpy, which erases the   *)
(* page and writes it again with the field changed: a loss of power leaves *)
(* the old page, the new one or an erased one.  A command that writes once *)
(* is one action: a cut in it is a cut before or after it that erases the  *)
(* page.  A random number is a fresh number; what the card makes of a      *)
(* ciphertext c under master key m, xored with pattern x, is the term      *)
(* [c, m, x].                                                              *)
(***************************************************************************)
EXTENDS Integers

CONSTANTS
  MaxKeys,  \* bounds how often keys are made
  Pins,     \* update PINs
  Default,  \* ... of which one is "12345678"
  NoPin,
  Salts     \* enough of them for a fresh one always to be found

ASSUME KeysAssumption ==
  /\ MaxKeys \in Nat \ {0}
  /\ Default \in Pins /\ NoPin \notin Pins
  /\ {-1, -2} \intersect Salts = {}
  /\ \A a, b \in Salts : \E s \in Salts : s \notin {a, b}

VARIABLES
  page,       \* the user page
  magic,      \* the page of the hidden volume slots holds HV_MAGIC_NUMBER_INIT
  card,       \* master key on the card, 0 when it has none
  volume,     \* key of the enabled encrypted volume
  slotsKey,   \* DecryptedHiddenVolumeSlotsKey_au8 while ..SlotsActive_u8
  safeKey,    \* DecryptedPasswordSafeKey_au8 while DecryptedPasswordSafeKey_u8
  pc, op,     \* the step of the command under way
  arg,        \* update PINs of the command
  saved,      \* UpdatePinSalt_u8 and UpdatePinHash_u8 of EraseLocalFlashKeyValues_u32
  wasFresh,   \* StickKeysNotInitiated_u8 of HID_ExcuteCmd
  answer,
  made,       \* history: number of keys made
  confirmed,  \* history: the key the volume was last enabled with since it was built
  swapped,    \* history: the host has set the card's master key itself
  userPin,    \* history: the update PIN last set by its owner
  cut         \* history: power was lost since then

memory == <<page, magic, card>>
ram == <<volume, slotsKey, safeKey>>
command == <<pc, op, arg, saved, wasFresh, answer>>
history == <<made, confirmed, swapped, userPin, cut>>
vars == <<page, magic, card, volume, slotsKey, safeKey, pc, op, arg, saved, wasFresh, answer,
          made, confirmed, swapped, userPin, cut>>

Blank == -1  \* erased flash: 0xFF
Random == -2 \* what shredding leaves
Number == 1 .. MaxKeys
Field == Number \union {Blank, Random}
Key == [c : Field \union {0}, m : Field \union {0}, x : Field \union {0}]
NoKey == [c |-> Blank, m |-> Blank, x |-> Blank]
ZeroKey == [c |-> 0, m |-> 0, x |-> 0]
RandomKey == [c |-> Random, m |-> Random, x |-> Random]
Salt == Salts \union {Blank, Random}
PinHash == [pin : Pins \union {NoPin}, salt : Salt]
PinRecord == [salt : Salt, hash : PinHash]

Page == [config : BOOLEAN, fresh : BOOLEAN, cipher : Field, hash : Key, base : Field, xor : Field,
         safe : Field, pin : PinRecord]
Filled(v, key) ==
  [config |-> FALSE, fresh |-> FALSE, cipher |-> v, hash |-> key, base |-> v, xor |-> v, safe |-> v,
   pin |-> [salt |-> v, hash |-> [pin |-> NoPin, salt |-> v]]]
BlankPage == Filled(Blank, NoKey)
RandomPage == Filled(Random, RandomKey)
NoArg == [old |-> NoPin, new |-> NoPin]

Init ==
  /\ page = BlankPage /\ magic = FALSE /\ card = 0
  /\ volume = NoKey /\ slotsKey = NoKey /\ safeKey = NoKey
  /\ pc = "boot" /\ op = "boot" /\ arg = NoArg /\ saved = BlankPage.pin /\ wasFresh = FALSE
  /\ answer = "none"
  /\ made = 0 /\ confirmed = NoKey /\ swapped = FALSE /\ userPin = Default /\ cut = FALSE

-----------------------------------------------------------------------------
(* Keys and PINs *)

\* DecryptKeyViaSmartcard_u32
Derived(c) == [c |-> c, m |-> card, x |-> page.xor]
Decrypted(held, c, ok) == IF held # NoKey THEN held ELSE IF ok /\ card # 0 THEN Derived(c) ELSE NoKey

\* CheckIfIsValidStorageKeyHash_u32, CheckStorageKeyHash_u32
NoHash == page.hash \in {NoKey, ZeroKey}
\* Mutant: a key is taken whatever its hash.
AnyHashFits(key) == TRUE
HashFits(key) == NoHash \/ page.hash = key

Works(p) == page.pin.hash = [pin |-> p, salt |-> page.pin.salt]
Fresh(s) == s \notin {page.pin.salt, page.pin.hash.salt, saved.salt}

-----------------------------------------------------------------------------
(* Steps of a routine.  Each writes the user page at most once, so a loss  *)
(* of power between two of them or within one is PowerCut.                 *)

At(step) == pc = step
Go(step) == pc' = step /\ UNCHANGED <<op, arg, saved, wasFresh, answer>>
Rest == op' = "none" /\ arg' = NoArg /\ saved' = BlankPage.pin /\ wasFresh' = FALSE
Done(a) == pc' = "idle" /\ answer' = a /\ Rest
Begin(step, o) == At("idle") /\ pc' = step /\ op' = o
Restart ==
  /\ pc' = "boot" /\ op' = "boot" /\ arg' = NoArg /\ saved' = BlankPage.pin /\ wasFresh' = FALSE
  /\ answer' = "none"
\* BuildStorageKeys_u32 returns FALSE: HID_ExcuteCmd goes on with restoring the flags.
BuildFails == pc' = "restore" /\ answer' = "error" /\ UNCHANGED <<op, arg, saved, wasFresh>>
Write(p) == page' = p /\ UNCHANGED <<magic, card>>
OnlyPage == UNCHANGED <<ram, history>>

-----------------------------------------------------------------------------
(* EraseLocalFlashKeyValues_u32, with InitStickConfigurationToUserPage_u8  *)

Shred ==
  /\ At("shred") /\ Write(RandomPage) /\ OnlyPage
  /\ Go("erase")

ErasePage ==
  /\ At("erase") /\ Write(BlankPage) /\ OnlyPage
  /\ Go("config")

InitConfig ==
  /\ At("config") /\ Write([page EXCEPT !.config = TRUE, !.fresh = TRUE]) /\ OnlyPage
  /\ Go("defaultSalt")

DefaultSalt ==
  /\ At("defaultSalt")
  /\ \E s \in Salts : Fresh(s) /\ Write([page EXCEPT !.pin.salt = s])
  /\ Go("defaultHash") /\ OnlyPage

DefaultHash ==
  /\ At("defaultHash")
  /\ Write([page EXCEPT !.pin.hash = [pin |-> Default, salt |-> page.pin.salt]]) /\ OnlyPage
  /\ CASE op = "boot" -> Go("startup")
       [] op \in {"generate", "reset"} -> Go("oldSalt")
       [] OTHER -> Go("compare")

\* CheckForNewSdCard has written the page without a change here; the pages of the slots are cleared.
OldSalt ==
  /\ At("oldSalt") /\ page' = [page EXCEPT !.pin.salt = saved.salt] /\ magic' = FALSE
  /\ Go("oldHash") /\ UNCHANGED card /\ OnlyPage

\* Mutant: the PIN that InitStickConfiguration has set stays, beside the salt that was saved.
NoOldHash ==
  /\ At("oldHash") /\ Write(page) /\ OnlyPage
  /\ IF op = "generate" THEN Go("xor") ELSE Done("ok")

OldHash ==
  /\ At("oldHash") /\ Write([page EXCEPT !.pin.hash = saved.hash]) /\ OnlyPage
  /\ IF op = "generate" THEN Go("xor") ELSE Done("ok")

-----------------------------------------------------------------------------
(* BuildStorageKeys_u32, called for HTML_CMD_GENERATE_NEW_KEYS *)

SavePin == saved' = page.pin

GenerateNewKeys ==
  /\ made < MaxKeys
  /\ Begin("shred", "generate") /\ SavePin /\ wasFresh' = page.fresh /\ made' = made + 1
  /\ answer' = "none" /\ arg' = NoArg
  /\ UNCHANGED <<memory, ram, confirmed, swapped, userPin, cut>>

NewXorPattern ==
  /\ At("xor") /\ OnlyPage
  /\ \/ Write([page EXCEPT !.xor = made]) /\ Go("master")
     \/ UNCHANGED memory /\ BuildFails

\* Mutant: the card gets another key than the storage key is encrypted with.
OtherMasterKey ==
  /\ At("master") /\ OnlyPage
  /\ card' = made + 1 /\ Go("flag")
  /\ UNCHANGED <<page, magic>>

\* The card may have stored the key although its answer is lost.
NewMasterKey ==
  /\ At("master") /\ OnlyPage
  /\ \/ card' = made /\ Go("flag")
     \/ card' \in {card, made} /\ BuildFails
  /\ UNCHANGED <<page, magic>>

ClearNotInitiated ==
  /\ At("flag") /\ Write([page EXCEPT !.config = TRUE, !.fresh = FALSE]) /\ OnlyPage
  /\ Go("unhash")

ClearStorageKeyHash ==
  /\ At("unhash") /\ OnlyPage
  /\ \/ Write([page EXCEPT !.hash = ZeroKey]) /\ Go("cipher")
     \/ UNCHANGED memory /\ BuildFails

NewStorageKey ==
  /\ At("cipher") /\ Write([page EXCEPT !.cipher = made]) /\ Go("off")
  /\ confirmed' = NoKey /\ UNCHANGED <<ram, made, swapped, userPin, cut>>

\* Mutant: the encrypted volume stays enabled.
LeaveEnabled ==
  /\ At("off") /\ pc' = "restore" /\ answer' = "ok"
  /\ UNCHANGED <<memory, ram, op, arg, saved, wasFresh, history>>

DisableOld ==
  /\ At("off") /\ volume' = NoKey /\ pc' = "restore" /\ answer' = "ok"
  /\ UNCHANGED <<memory, slotsKey, safeKey, op, arg, saved, wasFresh, history>>

\* The flags that EraseLocalFlashKeyValues_u32 has reset are put back, whether or not it went well.
RestoreFlags ==
  /\ At("restore") /\ OnlyPage
  /\ Write([page EXCEPT !.config = TRUE, !.fresh = @ /\ wasFresh])
  /\ IF answer = "ok" THEN Go("base") ELSE Done("error")

\* InitHiddenSlots is InitRamdomBaseForHiddenKey and HV_InitAllSlotData.
NewSlotsKey ==
  /\ At("base") /\ UNCHANGED <<volume, safeKey, history>>
  /\ \/ Write([page EXCEPT !.base = made]) /\ slotsKey' = NoKey /\ Go("slots")
     \/ UNCHANGED <<memory, slotsKey>> /\ Done("error")

NewSlots ==
  /\ At("slots") /\ UNCHANGED <<page, card>> /\ OnlyPage
  /\ \/ magic' = TRUE /\ Go("safe")
     \/ magic' = magic /\ Done("error")

\* BuildPasswordSafeKey_u32
NewSafeKey ==
  /\ At("safe") /\ UNCHANGED <<volume, slotsKey, history>>
  /\ \/ Write([page EXCEPT !.safe = made]) /\ safeKey' = NoKey /\ Done("ok")
     \/ UNCHANGED <<memory, safeKey>> /\ Done("error")

\* cmd_getFactoryReset: the card is reset, as far as it lets itself.
FactoryReset ==
  /\ Begin("shred", "reset") /\ SavePin /\ answer' = "none" /\ arg' = NoArg
  /\ card' \in {0, card}
  /\ UNCHANGED <<page, magic, ram, wasFresh, history>>

-----------------------------------------------------------------------------
(* Using the keys *)

Commanded(a) == At("idle") /\ Done(a)

\* IW_SendToSC_PW1, IW_SendToSC_PW3 or the first check of BuildStorageKeys_u32 refuses the PIN; the
\* flags that HID_ExcuteCmd then restores have not changed.
WrongPin == Commanded("error") /\ UNCHANGED <<memory, ram, history>>

\* GetStorageKey_u32: ok says whether the card takes the PIN and deciphers.
StorageKey(ok) ==
  IF ok /\ page.cipher # Blank /\ card # 0 /\ HashFits(Derived(page.cipher)) THEN Derived(page.cipher) ELSE NoKey

\* HTML_CMD_ENABLE_AES_LUN after IW_SendToSC_PW1 has taken the PIN.
EnableVolume ==
  /\ \E ok, ok2, ok3 \in BOOLEAN :
       LET key == StorageKey(ok)
       IN IF key = NoKey
          THEN /\ Commanded("error") /\ volume' = NoKey
               /\ UNCHANGED <<memory, slotsKey, safeKey, history>>
          ELSE /\ Commanded("ok") /\ volume' = key /\ confirmed' = key
               /\ Write(IF NoHash THEN [page EXCEPT !.hash = key] ELSE page)
               /\ slotsKey' = Decrypted(slotsKey, page.base, ok2)
               /\ safeKey' = Decrypted(safeKey, page.safe, ok3)
               /\ UNCHANGED <<made, swapped, userPin, cut>>

\* cmd_getPasswordSafeEnable and cmd_getPasswordSafeInitKey
EnableSafe ==
  /\ \E ok \in BOOLEAN : safeKey' = Decrypted(safeKey, page.safe, ok)
  /\ Commanded(IF safeKey' = NoKey THEN "error" ELSE "ok")
  /\ UNCHANGED <<memory, volume, slotsKey, history>>

\* HTML_CMD_DISABLE_AES_LUN and HTML_CMD_DISABLE_HIDDEN_AES_LUN
DisableVolume ==
  /\ Commanded("ok") /\ volume' = NoKey
  /\ UNCHANGED <<memory, slotsKey, safeKey, history>>

\* The decrypted slots of the hidden volumes stay.
LockDevice ==
  /\ Commanded("ok") /\ volume' = NoKey /\ safeKey' = NoKey
  /\ UNCHANGED <<memory, slotsKey, history>>

\* SetupUpHiddenVolumeSlot makes the slots anew, when they have never been made, before it asks for
\* a key; whether InitHiddenSlots succeeded is not looked at.  HV_WriteSlot_u8 has the slots key
\* deciphered once more, and does not look at whether it was.
SetupHidden ==
  \E ok, ok2 \in BOOLEAN, stage \in IF magic THEN {"none"} ELSE {"none", "base", "all"}, a \in {"ok", "error"} :
    /\ stage # "none" => made < MaxKeys
    /\ made' = IF stage = "none" THEN made ELSE made + 1
    /\ page' = IF stage = "none" THEN page ELSE [page EXCEPT !.base = made']
    /\ magic' = (magic \/ stage = "all")
    /\ LET held == Decrypted(IF stage = "none" THEN slotsKey ELSE NoKey, page'.base, ok)
       IN /\ slotsKey' \in {held, IF held = NoKey THEN NoKey ELSE Decrypted(NoKey, page'.base, ok2)}
          /\ held = NoKey => a = "error"
    /\ Commanded(a)
    /\ UNCHANGED <<card, volume, safeKey, confirmed, swapped, userPin, cut>>

\* HTML_CMD_ENABLE_HIDDEN_AES_LUN: HV_ReadSlot_u8 has the slots key deciphered again for every slot,
\* and a slot that fits takes the place of the encrypted volume.
EnableHidden ==
  /\ slotsKey # NoKey
  /\ \E ok, fits \in BOOLEAN :
       /\ slotsKey' = Decrypted(NoKey, page.base, ok)
       /\ IF fits /\ slotsKey' # NoKey THEN Commanded("ok") /\ volume' = NoKey
          ELSE Commanded("error") /\ UNCHANGED volume
  /\ UNCHANGED <<memory, safeKey, history>>

\* Through CCID the host may give the card a master key, or reset it.
HostSetsCardKey ==
  /\ At("idle") /\ swapped' = TRUE
  /\ \/ card' = 0 /\ made' = made
     \/ made < MaxKeys /\ made' = made + 1 /\ card' = made'
  /\ UNCHANGED <<page, magic, ram, command, confirmed, userPin, cut>>

-----------------------------------------------------------------------------
(* Update PIN: HTML_CMD_CHANGE_UPDATE_PIN, HTML_CMD_ENABLE_FIRMWARE_UPDATE *)

\* CheckUpdatePin sets the default PIN first when no salt was ever written.
CheckUpdatePin(o, p, q) ==
  /\ Begin(IF page.pin.salt = Blank THEN "defaultSalt" ELSE "compare", o)
  /\ arg' = [old |-> p, new |-> q] /\ answer' = "none"
  /\ UNCHANGED <<memory, ram, saved, wasFresh, history>>

ChangeUpdatePin(p, q) == CheckUpdatePin("change", p, q)
EnableFirmwareUpdate(p) == CheckUpdatePin("update", p, NoPin)

PinIsWrong ==
  /\ At("compare") /\ ~Works(arg.old)
  /\ Done("error") /\ UNCHANGED <<memory, ram, history>>

NewSalt ==
  /\ At("compare") /\ op = "change" /\ Works(arg.old)
  /\ \E s \in Salts : Fresh(s) /\ Write([page EXCEPT !.pin.salt = s])
  /\ Go("newHash") /\ OnlyPage

NewHash ==
  /\ At("newHash")
  /\ Write([page EXCEPT !.pin.hash = [pin |-> arg.new, salt |-> page.pin.salt]]) /\ Done("ok")
  /\ userPin' = arg.new /\ cut' = FALSE
  /\ UNCHANGED <<ram, made, confirmed, swapped>>

\* DFU_EnableFirmwareUpdate and DFU_ResetCPU; the device comes back with the same page.
StartBootloader ==
  /\ At("compare") /\ op = "update" /\ Works(arg.old)
  /\ volume' = NoKey /\ slotsKey' = NoKey /\ safeKey' = NoKey
  /\ Restart
  /\ UNCHANGED <<memory, history>>

-----------------------------------------------------------------------------
(* Start and loss of power *)

\* read_configuration_or_init_u8
Boot ==
  /\ At("boot") /\ UNCHANGED <<memory, ram, history>>
  /\ Go(IF page.config THEN "startup" ELSE "config")

\* StartupCheck_u8 writes the flag only where the page has it already.
StartupCheck ==
  /\ At("startup") /\ UNCHANGED <<memory, ram, history>>
  /\ Done("none")

PowerCut ==
  /\ page' \in {page, BlankPage} /\ UNCHANGED <<magic, card>>
  /\ volume' = NoKey /\ slotsKey' = NoKey /\ safeKey' = NoKey
  /\ Restart
  /\ cut' = TRUE /\ UNCHANGED <<made, confirmed, swapped, userPin>>

Next ==
  \/ GenerateNewKeys \/ FactoryReset
  \/ Shred \/ ErasePage \/ InitConfig \/ DefaultSalt \/ DefaultHash \/ OldSalt \/ OldHash
  \/ NewXorPattern \/ NewMasterKey \/ ClearNotInitiated \/ ClearStorageKeyHash \/ NewStorageKey
  \/ DisableOld \/ RestoreFlags \/ NewSlotsKey \/ NewSlots \/ NewSafeKey
  \/ WrongPin \/ EnableVolume \/ EnableSafe \/ DisableVolume \/ LockDevice
  \/ SetupHidden \/ EnableHidden \/ HostSetsCardKey
  \/ \E p, q \in Pins : ChangeUpdatePin(p, q)
  \/ \E p \in Pins : EnableFirmwareUpdate(p)
  \/ PinIsWrong \/ NewSalt \/ NewHash \/ StartBootloader
  \/ Boot \/ StartupCheck \/ PowerCut

Spec == Init /\ [][Next]_vars

-----------------------------------------------------------------------------
(* Properties *)

\* Every variable keeps its type.
TypeOK ==
  /\ page \in Page /\ magic \in BOOLEAN /\ card \in 0 .. MaxKeys
  /\ volume \in Key /\ slotsKey \in Key /\ safeKey \in Key
  /\ pc \in {"boot", "startup", "idle", "shred", "erase", "config", "defaultSalt", "defaultHash",
             "oldSalt", "oldHash", "xor", "master", "flag", "unhash", "cipher", "off", "restore",
             "base", "slots", "safe", "compare", "newHash"}
  /\ op \in {"boot", "generate", "reset", "change", "update", "none"}
  /\ arg \in [old : Pins \union {NoPin}, new : Pins \union {NoPin}]
  /\ saved \in PinRecord /\ wasFresh \in BOOLEAN /\ answer \in {"none", "ok", "error"}
  /\ made \in 0 .. MaxKeys /\ confirmed \in Key /\ swapped \in BOOLEAN
  /\ userPin \in Pins /\ cut \in BOOLEAN

\* Once the encrypted volume was opened with a key, it is opened with no other until a new storage
\* key is built, whatever happens to the card's master key, to the page and to the power
\* (storage_key_hash and CheckStorageKeyHash_u32 are there for this).
ConfirmedKeyIsKept ==
  [][volume' # volume /\ volume' # NoKey /\ confirmed # NoKey => volume' = confirmed]_vars

\* As long as the host leaves the card's key alone, the volume is never opened with a mixture of an
\* old and a new key: cipher, master key and pattern come from one run of BuildStorageKeys_u32,
\* wherever an earlier one failed or was cut.
VolumeKeyIsBuilt ==
  volume # NoKey /\ ~swapped => volume.c \in Number /\ volume.m = volume.c /\ volume.x = volume.c

\* When HTML_CMD_GENERATE_NEW_KEYS answers OK, every key on the page is new, none of the old keys
\* is left in RAM, and the update PIN is the one there was before.
NewKeysAreComplete ==
  [][op = "generate" /\ pc # "idle" /\ pc' = "idle" /\ answer' = "ok"
     => /\ page'.cipher = made /\ page'.base = made /\ page'.xor = made /\ page'.safe = made
        /\ card' = made /\ page'.hash = ZeroKey /\ ~page'.fresh /\ magic'
        /\ volume' = NoKey /\ slotsKey' = NoKey /\ safeKey' = NoKey
        /\ page'.pin = saved]_vars

\* Keys of two makings are never used together: neither in a storage key that is built of three
\* parts, nor on a page that is said to be made anew.
KeysComeTogether == []VolumeKeyIsBuilt /\ NewKeysAreComplete

\* Between two commands the update PIN is the one its owner set, new keys and factory resets
\* notwithstanding; after a loss of power it may be lost or be the default, but is no third one.
UpdatePinIsKept ==
  /\ pc = "idle" /\ ~cut => Works(userPin)
  /\ \A p \in Pins : Works(p) => p \in {userPin, Default}
=============================================================================
