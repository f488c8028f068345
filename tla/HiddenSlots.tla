----------------------------- MODULE HiddenSlots -----------------------------
(***************************************************************************)
(* The slots of the hidden volumes (src/src/HighLevelFunctions/            *)
(* HiddenVolume.c): a page of flash with a magic number, a salt and the    *)
(* slots, and the copy of it in RAM that is open while the card has        *)
(* deciphered the slots key.                                               *)
(*                                                                         *)
(* A slot holds the key and the range of a volume, here one number, under  *)
(* layers: the inner one made from the password and the deciphered salt,   *)
(* and around it those of the slots key, for all slots at once.  Only the  *)
(* key a layer was put on with takes it off; any other adds a layer, and   *)
(* the CRC tells a slot that has all its layers off from one that has not. *)
(***************************************************************************)
EXTENDS Integers, Sequences, FiniteSets

CONSTANTS
  Slots,      \* HV_SLOT_COUNT numbers
  Passwords,
  MaxDraws,   \* bounds the random numbers drawn for keys and salts
  MaxVolumes  \* bounds the volumes set up

ASSUME HiddenAssumption ==
  Slots \subseteq Nat /\ Slots # {} /\ IsFiniteSet(Slots) /\ MaxDraws \in Nat /\ MaxVolumes \in Nat

VARIABLES
  base,       \* hidden_volume_AES_key_base of the user page, 0 when erased
  magic,      \* the page begins with HV_MAGIC_NUMBER_INIT
  salt,       \* number of the random salt, 0 when erased
  slots,      \* the slots in flash
  card,       \* "off", "on", or "open" when it has taken the user PIN
  active,     \* DecryptedHiddenVolumeSlotsActive_u8
  key,        \* DecryptedHiddenVolumeSlotsKey_au8
  ramSalt,    \* DecryptedHiddenVolumeSlotsData_au8, the salt
  ramSlots,   \* ... and the slots
  pc, op,     \* the step of the command under way
  opened,     \* volume opened by the last HTML_CMD_ENABLE_HIDDEN_AES_LUN
  drawn,      \* history: random numbers drawn
  volumes,    \* history: volumes set up
  latest      \* history: the volume a slot was last set up with, answered OK, under these keys

flash == <<base, magic, salt, slots>>
ram == <<active, key, ramSalt, ramSlots>>
history == <<drawn, volumes, latest>>
hiddenVars == <<base, magic, salt, slots, card, active, key, ramSalt, ramSlots, pc, op, opened,
          drawn, volumes, latest>>

Draw == 0 .. MaxDraws
\* Keys: the deciphered base, what a failure leaves, and none at all.
Deciphered(n) == [kind |-> "deciphered", n |-> n]
Raw(n) == [kind |-> "raw", n |-> n]
Zero == [kind |-> "zero", n |-> 0]
NoKey == [kind |-> "none", n |-> 0]
Keys == [kind : {"deciphered", "raw", "zero", "none"}, n : Draw]

\* A layer is an enciphering by a key, or a deciphering that had none to take off.
PutOn(k) == [key |-> k, on |-> TRUE]
TakenOff(k) == [key |-> k, on |-> FALSE]
Layer == [key : Keys, on : BOOLEAN]

\* The salt is random and is deciphered all the same.
SaltTerm == [n : Draw, key : Keys]
NoSalt == [n |-> 0, key |-> NoKey]
Inner == [password : Passwords, salt : SaltTerm]
Slot == [volume : 1 .. MaxVolumes, inner : Inner, outer : Seq(Layer)]
Junk == [volume |-> 0]
AllJunk == [i \in Slots |-> Junk]
NoVolume == [volume |-> 0]
Setup == [volume : 1 .. MaxVolumes, password : Passwords]

HiddenInit ==
  /\ base = 0 /\ magic = FALSE /\ salt = 0 /\ slots = AllJunk
  /\ card = "off"
  /\ active = FALSE /\ key = Zero /\ ramSalt = NoSalt /\ ramSlots = AllJunk
  /\ pc = "idle" /\ op = "none" /\ opened = NoVolume
  /\ drawn = 0 /\ volumes = 0 /\ latest = [i \in Slots |-> NoVolume]

-----------------------------------------------------------------------------
(* Layers *)

\* AES_StorageKeyEncryption: undoes the last layer, or is one more.
Through(layers, layer, undone) ==
  IF layers # <<>> /\ layers[Len(layers)] = undone
  THEN SubSeq(layers, 1, Len(layers) - 1) ELSE Append(layers, layer)

Decipher(s, k) == IF s = Junk THEN Junk ELSE [s EXCEPT !.outer = Through(@, TakenOff(k), PutOn(k))]
Encipher(s, k) == IF s = Junk THEN Junk ELSE [s EXCEPT !.outer = Through(@, PutOn(k), TakenOff(k))]
DecipherAll(all, k) == [i \in Slots |-> Decipher(all[i], k)]
EncipherAll(all, k) == [i \in Slots |-> Encipher(all[i], k)]

\* CRC32 of a slot under the key made from a password
FitsSlot(s, password, saltTerm) ==
  s # Junk /\ s.outer = <<>> /\ s.inner = [password |-> password, salt |-> saltTerm]

-----------------------------------------------------------------------------
(* DecryptedHiddenVolumeSlotsData *)

\* The card deciphers only with the user PIN.
LoadSlots ==
  /\ card = "open"
  /\ active' = TRUE /\ key' = Deciphered(base)
  /\ ramSalt' = [n |-> salt, key |-> key'] /\ ramSlots' = DecipherAll(slots, key')

\* The key of the flash is left, or zeros where the card has refused it.
LoadFails ==
  /\ active' = FALSE /\ key' \in {Raw(base), Zero}
  /\ UNCHANGED <<ramSalt, ramSlots>>

-----------------------------------------------------------------------------
(* The user PIN *)

Stay == UNCHANGED <<pc, op>>

\* HTML_CMD_ENABLE_AES_LUN with the right PIN, DecryptedHiddenVolumeSlotsData included.
Unlock ==
  /\ pc = "idle" /\ card' = "open" /\ Stay
  /\ IF active THEN UNCHANGED ram
     ELSE \/ active' = TRUE /\ key' = Deciphered(base) /\ ramSalt' = [n |-> salt, key |-> key']
             /\ ramSlots' = DecipherAll(slots, key')
          \/ LoadFails
  /\ opened' = NoVolume /\ UNCHANGED <<flash, history>>

\* The PIN is verified, rightly or wrongly, for another command, or the card fails before the slots.
VerifyPin ==
  /\ pc = "idle" /\ card' \in {"on", "open"} /\ Stay
  /\ opened' \in {opened, NoVolume} /\ UNCHANGED <<flash, ram, history>>

LockDevice ==
  /\ pc = "idle" /\ card' = "off" /\ opened' = NoVolume /\ Stay
  /\ UNCHANGED <<flash, ram, history>>

\* Through CCID the host powers the card on or off: the PIN is forgotten.
HostPowersCard ==
  /\ pc = "idle" /\ card' \in {"on", "off"} /\ Stay
  /\ UNCHANGED <<flash, ram, opened, history>>

-----------------------------------------------------------------------------
(* InitHiddenSlots: a new slots key, a new salt and random slots *)

AfterInit == IF op = "generate" THEN "idle" ELSE IF active THEN "set" ELSE "decrypt"
\* SetupUpHiddenVolumeSlot does not look at whether InitHiddenSlots succeeded.
Proceed == pc' = AfterInit /\ op' = IF op = "generate" THEN "none" ELSE op

\* InitRamdomBaseForHiddenKey, which starts the card when it is off
NewBase ==
  /\ pc = "base" /\ card' \in IF card = "off" THEN {"off", "on"} ELSE {card}
  /\ \/ /\ card' # "off" /\ drawn < MaxDraws
        /\ drawn' = drawn + 1 /\ base' = drawn' /\ active' = FALSE
        /\ pc' = "draw" /\ UNCHANGED op
     \/ UNCHANGED <<base, active, drawn>> /\ Proceed
  /\ UNCHANGED <<magic, salt, slots, key, ramSalt, ramSlots, opened, volumes, latest>>

\* HV_InitAllSlotData fills the copy in RAM and writes the magic number ...
DrawSlots ==
  /\ pc = "draw" /\ ramSalt' = NoSalt /\ ramSlots' = AllJunk
  /\ \/ card # "off" /\ drawn < MaxDraws /\ drawn' = drawn + 1 /\ magic' = TRUE
        /\ pc' = "fill" /\ UNCHANGED op
     \/ UNCHANGED <<drawn, magic>> /\ Proceed
  /\ UNCHANGED <<base, salt, slots, card, active, key, opened, volumes, latest>>

\* ... and then salt and slots.
FillSlots ==
  /\ pc = "fill" /\ salt' = drawn /\ slots' = AllJunk /\ Proceed
  /\ latest' = [i \in Slots |-> NoVolume]
  /\ UNCHANGED <<base, magic, card, ram, opened, drawn, volumes>>

-----------------------------------------------------------------------------
(* SetupUpHiddenVolumeSlot *)

BeginSetup ==
  /\ pc = "idle" /\ op' = "setup"
  /\ pc' = IF ~magic THEN "base" ELSE IF active THEN "set" ELSE "decrypt"
  /\ UNCHANGED <<flash, card, ram, opened, history>>

DecryptSlots ==
  /\ pc = "decrypt"
  /\ \/ LoadSlots /\ pc' = "set" /\ UNCHANGED op
     \/ LoadFails /\ pc' = "idle" /\ op' = "none"
  /\ UNCHANGED <<flash, card, opened, history>>

\* A wrong slot number, range or password, or no random number for the key of the volume
SetupRefused ==
  /\ pc = "set" /\ pc' = "idle" /\ op' = "none"
  /\ UNCHANGED <<flash, card, ram, opened, history>>

\* Mutant: the layer of the password is left out.
NoPasswordLayer(i, password, open) ==
  EncipherAll([open EXCEPT ![i] = [volume |-> volumes + 1, outer |-> <<>>, inner |-> ramSalt]], key')

NewSlot(i, password, open) ==
  EncipherAll([open EXCEPT ![i] = [volume |-> volumes + 1, outer |-> <<>>,
                                   inner |-> [password |-> password, salt |-> ramSalt]]], key')

Answered(i, password) ==
  /\ volumes < MaxVolumes /\ volumes' = volumes + 1
  /\ latest' = [latest EXCEPT ![i] = [volume |-> volumes', password |-> password]]
  /\ pc' = "idle" /\ op' = "none"
  /\ UNCHANGED <<base, magic, salt, card, opened, drawn>>

\* Mutant: the slots are not read again, though writing has enciphered the copy in RAM.
WithoutLoad(i, password) ==
  /\ pc = "set" /\ card = "open" /\ active' = TRUE /\ key' = Deciphered(base) /\ ramSalt' = ramSalt
  /\ ramSlots' = NewSlot(i, password, ramSlots)
  /\ slots' = ramSlots' /\ Answered(i, password)

\* HV_WriteSlot_u8: the slots are loaded anew, enciphered in place and written.
WriteSlot(i, password) ==
  /\ pc = "set" /\ card = "open"
  /\ active' = TRUE /\ key' = Deciphered(base) /\ ramSalt' = [n |-> salt, key |-> key']
  /\ ramSlots' = NewSlot(i, password, DecipherAll(slots, key'))
  /\ slots' = ramSlots' /\ Answered(i, password)

\* HV_WriteSlot_u8 does not look at whether the slots could be loaded: when the card has
\* forgotten the PIN, or fails, it puts the copy that is in RAM under the key that is left.
WriteSlotUnloaded(i, password) ==
  /\ pc = "set" /\ card # "off"
  /\ active' = FALSE /\ key' \in {Raw(base), Zero} /\ ramSalt' = ramSalt
  /\ ramSlots' = NewSlot(i, password, ramSlots)
  /\ slots' = ramSlots' /\ Answered(i, password)

-----------------------------------------------------------------------------
(* HTML_CMD_ENABLE_HIDDEN_AES_LUN: GetHiddenVolumeDataKeyFromUserpassword *)

\* Mutant: the CRC is not looked at.
AnyFits(all, password) == {i \in Slots : all[i] # Junk}
Fitting(all, password) == {i \in Slots : FitsSlot(all[i], password, ramSalt)}

\* HV_ReadSlot_u8 loads the slots for each number up to the first that fits.
OpenVolume(password) ==
  /\ pc = "idle" /\ active /\ LoadSlots
  /\ LET fit == Fitting(ramSlots', password)
     IN opened' = IF fit = {} THEN opened
                  ELSE [volume |-> ramSlots'[CHOOSE i \in fit : \A j \in fit : i <= j].volume,
                        password |-> password]
  /\ Stay /\ UNCHANGED <<flash, card, history>>

\* The card does not decipher for number k.  HV_ReadSlot_u8 does not look at that and takes
\* the slot through the key that is left; the numbers after k find the slots not active.
OpenUnloaded(k, password) ==
  /\ pc = "idle" /\ active
  /\ \A j \in Slots :
       j < k => card = "open" /\ ~FitsSlot(Decipher(slots[j], Deciphered(base)), password, ramSalt)
  /\ active' = FALSE /\ key' \in {Raw(base), Zero}
  /\ ramSalt' = IF \E j \in Slots : j < k THEN [n |-> salt, key |-> Deciphered(base)] ELSE ramSalt
  /\ ramSlots' = DecipherAll(slots, key')
  /\ opened' = IF FitsSlot(ramSlots'[k], password, ramSalt)
               THEN [volume |-> ramSlots'[k].volume, password |-> password] ELSE opened
  /\ Stay /\ UNCHANGED <<flash, card, history>>

\* HTML_CMD_DISABLE_HIDDEN_AES_LUN
CloseVolume ==
  /\ pc = "idle" /\ opened # NoVolume /\ opened' = NoVolume
  /\ Stay /\ UNCHANGED <<flash, card, ram, history>>

-----------------------------------------------------------------------------
(* Other commands, loss of power *)

\* EraseLocalFlashKeyValues_u32
EraseFlash == base' = 0 /\ magic' = FALSE /\ salt' = 0 /\ slots' = AllJunk

\* HTML_CMD_GENERATE_NEW_KEYS: InitHiddenSlots follows when the card has taken the other keys.
GenerateNewKeys ==
  /\ pc = "idle" /\ card # "off" /\ EraseFlash
  /\ \/ pc' = "base" /\ op' = "generate" /\ opened' = NoVolume
     \/ Stay /\ UNCHANGED opened
  /\ UNCHANGED <<card, ram, history>>

FactoryReset ==
  /\ pc = "idle" /\ card # "off" /\ card' = "on" /\ EraseFlash
  /\ Stay /\ UNCHANGED <<ram, opened, history>>

\* Every write rewrites its page: a cut leaves the old page, the new one or an erased one.  A command
\* that writes once is one step, a cut within it a cut before or after it that erases the page.
PowerCut ==
  /\ \/ UNCHANGED flash
     \/ base' = 0 /\ UNCHANGED <<magic, salt, slots>>
     \/ magic' = FALSE /\ salt' = 0 /\ slots' = AllJunk /\ UNCHANGED base
  /\ card' = "off" /\ active' = FALSE /\ key' = Zero /\ ramSalt' = NoSalt /\ ramSlots' = AllJunk
  /\ pc' = "idle" /\ op' = "none" /\ opened' = NoVolume
  /\ UNCHANGED history

HiddenNext ==
  \/ Unlock \/ VerifyPin \/ LockDevice \/ HostPowersCard
  \/ NewBase \/ DrawSlots \/ FillSlots
  \/ BeginSetup \/ DecryptSlots \/ SetupRefused
  \/ \E i \in Slots, p \in Passwords : WriteSlot(i, p) \/ WriteSlotUnloaded(i, p)
  \/ \E p \in Passwords : OpenVolume(p) \/ \E k \in Slots : OpenUnloaded(k, p)
  \/ CloseVolume
  \/ GenerateNewKeys \/ FactoryReset \/ PowerCut

HiddenSpec == HiddenInit /\ [][HiddenNext]_hiddenVars

-----------------------------------------------------------------------------
(* Properties *)

\* Every variable keeps its type.
HiddenTypeOK ==
  /\ base \in Draw /\ magic \in BOOLEAN /\ salt \in Draw
  /\ slots \in [Slots -> Slot \union {Junk}] /\ ramSlots \in [Slots -> Slot \union {Junk}]
  /\ card \in {"off", "on", "open"} /\ active \in BOOLEAN /\ key \in Keys /\ ramSalt \in SaltTerm
  /\ pc \in {"idle", "base", "draw", "fill", "decrypt", "set"} /\ op \in {"none", "setup", "generate"}
  /\ opened \in Setup \union {NoVolume} /\ latest \in [Slots -> Setup \union {NoVolume}]
  /\ drawn \in Draw /\ volumes \in 0 .. MaxVolumes

\* A password opens a volume that a slot was last set up with under this very password
\* (GetHiddenVolumeDataKeyFromUserpassword), also when the card fails on the way and the slot is
\* taken through another key: none that was replaced, none from before new keys were made to the
\* end (InitHiddenSlots), and none by chance.
OpensWhatWasSet ==
  [][opened' # opened /\ opened' # NoVolume => \E i \in Slots : latest[i] = opened']_hiddenVars

\* The volume a slot was last set up with is there for its password, once the card has taken the
\* user PIN.
Kept(i) ==
  /\ magic /\ latest[i] # NoVolume
  /\ slots[i] = [volume |-> latest[i].volume, outer |-> <<PutOn(Deciphered(base))>>,
                 inner |-> [password |-> latest[i].password,
                            salt |-> [n |-> salt, key |-> Deciphered(base)]]]

\* What takes volumes away: new keys, a factory reset, a cut of power, and a setup that could not
\* load the slots, which is answered OK all the same.
TakesVolumes ==
  \/ GenerateNewKeys \/ FactoryReset \/ PowerCut
  \/ \E i \in Slots, p \in Passwords : WriteSlotUnloaded(i, p)

\* A setup that is answered OK leaves its volume to be opened, and a volume that can be opened
\* stays so until its slot is set up again, however many other slots are set up, opened and closed
\* (SetupUpHiddenVolumeSlot, HV_WriteSlot_u8).  Not promised: what TakesVolumes names, a setup after
\* the card has forgotten the PIN among it, and what is set up although InitHiddenSlots has failed
\* (~magic).
VolumesAreKept ==
  [][~TakesVolumes =>
       \A i \in Slots :
         /\ magic /\ latest'[i] # latest[i] /\ latest'[i] # NoVolume => Kept(i)'
         /\ Kept(i) /\ latest'[i] = latest[i] => Kept(i)']_hiddenVars

\* While the slots count as decrypted, the key and the salt in RAM are those of the flash.
ActiveFitsFlash ==
  active /\ magic => key = Deciphered(base) /\ ramSalt = [n |-> salt, key |-> key]
=============================================================================
