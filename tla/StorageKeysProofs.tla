------------------------- MODULE StorageKeysProofs -------------------------
(***************************************************************************)
(* What StorageKeys keeps, for any numbers of keys, update PINs and salts. *)
(* The stored hash guards the confirmed key (HashGuards): where the page   *)
(* still has a storage key that differs from it, the hash does not fit.    *)
(* The parts of a key agree (PartsAgree) because BuildStorageKeys_u32      *)
(* erases the storage key first and writes it last: as long as pattern and *)
(* master key change there is none (NoCipher).  PinIsKept says where the   *)
(* owner's update PIN is: on the page, or, while the page is made anew, in *)
(* the copy that EraseLocalFlashKeyValues_u32 has taken of it.             *)
(***************************************************************************)
EXTENDS StorageKeys, TLAPS

\* Steps of the making of keys before the storage key is written, after the page was erased.
Erased ==
  {"config", "defaultSalt", "defaultHash", "oldSalt", "oldHash", "xor", "master", "flag", "unhash", "cipher"}

\* Steps of BuildStorageKeys_u32 and of what HID_ExcuteCmd does after it
Making == {"xor", "master", "flag", "unhash", "cipher", "off", "restore", "base", "slots", "safe"}

\* Steps of InitStickConfigurationToUserPage_u8 and of EraseLocalFlashKeyValues_u32
Defaulting == {"config", "defaultSalt", "defaultHash"}
Saving == {"shred", "erase", "config", "defaultSalt", "defaultHash", "oldSalt", "oldHash"}

\* Each step belongs to commands of certain kinds.
Shape ==
  /\ pc \in {"boot", "startup"} => op = "boot"
  /\ pc = "idle" => op = "none"
  /\ pc \in Making => op = "generate"
  /\ pc \in {"shred", "erase", "oldSalt", "oldHash"} => op \in {"generate", "reset"}
  /\ pc = "config" => op \in {"boot", "generate", "reset"}
  /\ pc \in {"defaultSalt", "defaultHash"} => op # "none"
  /\ pc = "compare" => op \in {"change", "update"}
  /\ pc = "newHash" => op = "change"
  /\ op = "generate" => made \in Number
  /\ op = "change" => arg.new \in Pins
  /\ pc \notin {"boot", "erase", "config"} => page.config

\* While the flash is made anew there is no storage key in it.
NoCipher == pc \in Erased /\ op \in {"generate", "reset"} => page.cipher = Blank

\* The hash keeps the confirmed key where any other could be deciphered.
HashGuards ==
  /\ confirmed # NoKey => page.hash \in {confirmed, RandomKey} \/ page.cipher = Blank
  /\ confirmed # NoKey => confirmed.c \in Number
  /\ page.cipher = Random => page.hash = RandomKey

\* Pattern and master key go with the storage key.
PartsAgree == ~swapped /\ page.cipher \in Number => page.xor = page.cipher /\ card \in {0, page.cipher}

\* How far the making of keys has come
Progress ==
  /\ pc = "oldHash" => page.pin.salt = saved.salt
  /\ pc \in Making \ {"restore"} => page.pin = saved
  /\ pc \in Making \ {"restore", "xor"} => page.xor = made
  /\ pc \in Making \ {"restore", "xor", "master"} => card = made
  /\ pc \in Making \ {"restore", "xor", "master", "flag"} => ~page.fresh
  /\ pc \in {"cipher", "off", "base", "slots", "safe"} => page.hash = ZeroKey
  /\ pc \in {"off", "base", "slots", "safe"} => page.cipher = made
  /\ pc \in {"base", "slots", "safe"} => volume = NoKey
  /\ pc \in {"slots", "safe"} => page.base = made /\ slotsKey = NoKey
  /\ pc = "safe" => magic
  /\ pc = "restore" /\ answer = "ok" =>
       /\ page.pin = saved /\ page.xor = made /\ card = made /\ ~page.fresh /\ page.hash = ZeroKey
       /\ page.cipher = made /\ volume = NoKey

\* No update PIN is about but the owner's and the default one.
PinsKnown ==
  /\ page.pin.hash.pin \in {userPin, Default, NoPin}
  /\ saved.hash.pin \in {userPin, Default, NoPin}

\* A salt and the hash of the owner's PIN with it
Owned(record) == record.salt \in Salts /\ record.hash = [pin |-> userPin, salt |-> record.salt]

\* Where the owner's update PIN is, as long as power is not lost
PinIsKept ==
  /\ pc \in {"defaultHash", "newHash"} => page.pin.salt \in Salts
  /\ ~cut =>
       /\ pc = "boot" => IF page.config THEN Owned(page.pin) ELSE userPin = Default
       /\ pc \in Defaulting => IF op = "boot" THEN userPin = Default ELSE op \in {"generate", "reset"}
       /\ pc \in {"startup", "idle", "compare"} \union Making => Owned(page.pin)
       /\ pc \in Saving /\ op \in {"generate", "reset"} => Owned(saved)

IInv ==
  /\ TypeOK /\ Shape /\ NoCipher
  /\ HashGuards /\ PartsAgree /\ VolumeKeyIsBuilt
  /\ Progress /\ PinsKnown /\ PinIsKept

-----------------------------------------------------------------------------
(* Terms and fields of the page *)

LEMMA Terms ==
  /\ NoKey \in Key /\ ZeroKey \in Key /\ RandomKey \in Key
  /\ BlankPage \in Page /\ RandomPage \in Page /\ BlankPage.pin \in PinRecord
  /\ BlankPage.pin.hash.pin = NoPin
  /\ NoArg \in [old : Pins \union {NoPin}, new : Pins \union {NoPin}]
<1>1. NoKey \in Key /\ ZeroKey \in Key /\ RandomKey \in Key
  BY DEF NoKey, ZeroKey, RandomKey, Key, Field, Blank, Random
<1>2. BlankPage.pin \in PinRecord /\ RandomPage.pin \in PinRecord /\ BlankPage.pin.hash.pin = NoPin
  BY DEF BlankPage, RandomPage, Filled, PinRecord, PinHash, Salt
<1>3. BlankPage \in Page /\ RandomPage \in Page
  BY <1>1, <1>2 DEF BlankPage, RandomPage, Filled, Page, Field
<1> QED BY <1>1, <1>2, <1>3 DEF NoArg

LEMMA PageField ==
  ASSUME NEW p \in Page
  PROVE  /\ \A v \in Field : [p EXCEPT !.cipher = v] \in Page
         /\ \A v \in Field : [p EXCEPT !.base = v] \in Page
         /\ \A v \in Field : [p EXCEPT !.xor = v] \in Page
         /\ \A v \in Field : [p EXCEPT !.safe = v] \in Page
         /\ \A k \in Key : [p EXCEPT !.hash = k] \in Page
         /\ \A a, b \in BOOLEAN : [p EXCEPT !.config = a, !.fresh = b] \in Page
         /\ \A s \in Salt : [p EXCEPT !.pin.salt = s] \in Page
         /\ \A s \in PinHash : [p EXCEPT !.pin.hash = s] \in Page
<1>1. \A s \in Salt : [p EXCEPT !.pin.salt = s] \in Page
  BY DEF Page, PinRecord
<1>2. \A s \in PinHash : [p EXCEPT !.pin.hash = s] \in Page
  BY DEF Page, PinRecord
<1> QED BY <1>1, <1>2 DEF Page

LEMMA DerivedTerm ==
  ASSUME TypeOK, NEW c \in Field
  PROVE  /\ Derived(c) \in Key
         /\ \A held \in Key, ok \in BOOLEAN : Decrypted(held, c, ok) \in Key
<1>1. page.xor \in Field /\ card \in Field \union {0}
  BY DEF TypeOK, Page, Field, Number
<1>2. Derived(c) \in Key
  BY <1>1 DEF Derived, Key
<1> QED BY <1>2, Terms DEF Decrypted

LEMMA PageParts ==
  ASSUME TypeOK
  PROVE  /\ page.base \in Field /\ page.safe \in Field /\ page.cipher \in Field /\ page.pin \in PinRecord
         /\ page.pin.salt \in Salt /\ page.pin.hash \in PinHash
BY DEF TypeOK, Page, PinRecord

-----------------------------------------------------------------------------
(* EraseLocalFlashKeyValues_u32 *)

LEMMA GenerateNewKeysKeeps ==
  ASSUME IInv, GenerateNewKeys
  PROVE  IInv'
<1> USE DEF GenerateNewKeys, Begin, At, SavePin, memory, ram
<1>1. made' \in 0 .. MaxKeys /\ made' \in Number
  BY KeysAssumption DEF IInv, TypeOK, Number
<1>2. TypeOK'
  BY <1>1, Terms, PageParts DEF IInv, TypeOK, Page
<1>3. Shape' /\ NoCipher'
  BY KeysAssumption DEF IInv, Shape, NoCipher, TypeOK, Number, Erased
<1>4. HashGuards' /\ PartsAgree' /\ VolumeKeyIsBuilt'
  BY DEF IInv, HashGuards, PartsAgree, VolumeKeyIsBuilt
<1>5. Progress'
  BY DEF IInv, Progress, Making
<1>6. PinsKnown'
  BY DEF IInv, PinsKnown
<1>7. PinIsKept'
  BY DEF IInv, PinIsKept, Owned
<1> QED
  BY <1>2, <1>3, <1>4, <1>5, <1>6, <1>7 DEF IInv

LEMMA FactoryResetKeeps ==
  ASSUME IInv, FactoryReset
  PROVE  IInv'
<1> USE DEF FactoryReset, Begin, At, SavePin, ram, history
<1>1. TypeOK'
  BY Terms, PageParts, KeysAssumption DEF IInv, TypeOK
<1>2. Shape' /\ NoCipher'
  BY DEF IInv, Shape, NoCipher, Erased, Making
<1>3. HashGuards' /\ PartsAgree' /\ VolumeKeyIsBuilt'
  BY DEF IInv, HashGuards, PartsAgree, VolumeKeyIsBuilt
<1>4. Progress'
  BY DEF IInv, Progress, Making
<1>5. PinsKnown'
  BY DEF IInv, PinsKnown
<1>6. PinIsKept'
  BY DEF IInv, PinIsKept, Owned
<1> QED
  BY <1>1, <1>2, <1>3, <1>4, <1>5, <1>6 DEF IInv

LEMMA ShredKeeps ==
  ASSUME IInv, Shred
  PROVE  IInv'
<1> USE DEF Shred, At, Write, OnlyPage, ram, history, Go
<1>1. TypeOK'
  BY Terms DEF IInv, TypeOK
<1>2. Shape' /\ NoCipher'
  BY DEF IInv, Shape, NoCipher, Erased, Making
<1>3. HashGuards' /\ PartsAgree' /\ VolumeKeyIsBuilt'
  BY DEF IInv, HashGuards, PartsAgree, VolumeKeyIsBuilt, Number, RandomPage, Filled, Random,
      RandomKey
<1>4. Progress'
  BY DEF IInv, Progress, Making
<1>5. PinsKnown'
  BY DEF IInv, PinsKnown, RandomPage, Filled, Random, RandomKey
<1>6. PinIsKept'
  BY DEF IInv, PinIsKept, Saving, Defaulting, Making, Owned
<1> QED
  BY <1>1, <1>2, <1>3, <1>4, <1>5, <1>6 DEF IInv

LEMMA ErasePageKeeps ==
  ASSUME IInv, ErasePage
  PROVE  IInv'
<1> USE DEF ErasePage, At, Write, OnlyPage, ram, history, Go
<1>1. TypeOK'
  BY Terms DEF IInv, TypeOK
<1>2. Shape' /\ NoCipher'
  BY DEF IInv, Shape, NoCipher, Making, BlankPage, Filled, Blank, NoKey
<1>3. HashGuards'
  BY DEF IInv, HashGuards, Blank, Random, Field, BlankPage, Filled, NoKey, RandomKey
<1>4. PartsAgree'
  BY DEF IInv, HashGuards, PartsAgree, Blank, Random, Number, Field, BlankPage, Filled, NoKey,
      RandomKey
<1>5. VolumeKeyIsBuilt'
  BY DEF IInv, VolumeKeyIsBuilt
<1>6. Progress'
  BY KeysAssumption DEF IInv, Progress, Shape, NoCipher, TypeOK, Page, PinRecord, Making,
      BlankPage, Filled, Blank, NoKey
<1>7. PinsKnown'
  BY DEF IInv, PinsKnown, BlankPage, Filled, Blank, NoKey
<1>8. PinIsKept'
  BY DEF IInv, PinIsKept, Shape, Saving, Defaulting, Making, Owned
<1> QED
  BY <1>1, <1>2, <1>3, <1>6, <1>7, <1>8, <1>4, <1>5 DEF IInv

LEMMA InitConfigKeeps ==
  ASSUME IInv, InitConfig
  PROVE  IInv'
<1> USE DEF InitConfig, At, Write, OnlyPage, ram, history, Go
<1>1. TypeOK'
  <2>1. TypeOK /\ Shape
    BY DEF IInv
  <2>2. page' \in Page
    BY <2>1, Terms, PageParts, PageField, KeysAssumption DEF TypeOK, Shape, Number, Field, Salt, PinHash, Making
  <2>3. volume' \in Key /\ slotsKey' \in Key /\ safeKey' \in Key /\ confirmed' \in Key
    BY <2>1, Terms, PageParts, DerivedTerm DEF TypeOK
  <2> QED
    BY <2>1, <2>2, <2>3 DEF TypeOK
<1>2. Shape' /\ NoCipher'
  BY DEF IInv, Shape, NoCipher, Erased, Making
<1>3. HashGuards' /\ PartsAgree' /\ VolumeKeyIsBuilt'
  BY DEF IInv, HashGuards, PartsAgree, VolumeKeyIsBuilt
<1>4. Progress'
  BY DEF IInv, Progress, Making
<1>5. PinsKnown'
  BY DEF IInv, PinsKnown
<1>6. PinIsKept'
  BY DEF IInv, PinIsKept, Saving, Defaulting, Making, Owned
<1> QED
  BY <1>1, <1>2, <1>3, <1>4, <1>5, <1>6 DEF IInv

LEMMA DefaultSaltKeeps ==
  ASSUME IInv, DefaultSalt
  PROVE  IInv'
<1> USE DEF DefaultSalt, At, Fresh, Write, Go, OnlyPage, ram, history
<1>1. PICK s \in Salts : Fresh(s) /\ page' = [page EXCEPT !.pin.salt = s]
  OBVIOUS
<1>2. TypeOK'
  <2>1. TypeOK /\ Shape
    BY DEF IInv
  <2>2. page' \in Page
    BY <1>1, <2>1, Terms, PageParts, PageField, KeysAssumption DEF TypeOK, PinRecord, Salt, PinHash
  <2>3. volume' \in Key /\ slotsKey' \in Key /\ safeKey' \in Key /\ confirmed' \in Key
    BY <2>1, Terms, PageParts, DerivedTerm DEF TypeOK
  <2> QED
    BY <2>1, <2>2, <2>3 DEF TypeOK
<1>3. page'.pin = [page.pin EXCEPT !.salt = s] /\ page'.config = page.config
  BY <1>1 DEF IInv, TypeOK, Page, PinRecord
<1>4. Shape' /\ NoCipher'
  BY DEF IInv, Shape, NoCipher, Erased, Making
<1>5. HashGuards' /\ PartsAgree' /\ VolumeKeyIsBuilt'
  BY DEF IInv, HashGuards, PartsAgree, VolumeKeyIsBuilt
<1>6. Progress'
  BY DEF IInv, Progress, Making
<1>7. PinsKnown'
  BY <1>3, PageParts DEF IInv, PinsKnown, PinRecord, PinHash
<1>8. PinIsKept'
  BY <1>1, <1>3, PageParts DEF IInv, PinIsKept, Owned, Saving, Defaulting, Making, PinHash,
      PinRecord
<1> QED
  BY <1>2, <1>4, <1>5, <1>6, <1>7, <1>8 DEF IInv

LEMMA DefaultHashKeeps ==
  ASSUME IInv, DefaultHash
  PROVE  IInv'
<1> USE DEF DefaultHash, At, Write, OnlyPage, ram, history, Go
<1>1. TypeOK'
  <2>1. TypeOK /\ Shape
    BY DEF IInv
  <2>2. page' \in Page
    BY <2>1, Terms, PageParts, PageField, KeysAssumption DEF TypeOK, PinRecord, Salt, PinHash
  <2>3. volume' \in Key /\ slotsKey' \in Key /\ safeKey' \in Key /\ confirmed' \in Key
    BY <2>1, Terms, PageParts, DerivedTerm DEF TypeOK
  <2> QED
    BY <2>1, <2>2, <2>3 DEF TypeOK
<1>2. /\ page'.pin = [page.pin EXCEPT !.hash = [pin |-> Default, salt |-> page.pin.salt]]
      /\ page'.config = page.config
  BY DEF IInv
<1>3. Shape' /\ NoCipher'
  BY DEF IInv, Shape, NoCipher, TypeOK, Erased, Making
<1>4. HashGuards' /\ PartsAgree' /\ VolumeKeyIsBuilt'
  BY DEF IInv, HashGuards, PartsAgree, VolumeKeyIsBuilt
<1>5. Progress'
  BY DEF IInv, Progress, Making
<1>6. PinsKnown'
  BY <1>2, PageParts DEF IInv, PinsKnown, PinRecord, PinHash
<1>7. PinIsKept'
  BY <1>2, PageParts DEF IInv, PinIsKept, Owned, Saving, Defaulting, Making, PinHash, PinRecord
<1> QED
  BY <1>1, <1>3, <1>4, <1>5, <1>6, <1>7 DEF IInv

LEMMA OldSaltKeeps ==
  ASSUME IInv, OldSalt
  PROVE  IInv'
<1> USE DEF OldSalt, At, Go, OnlyPage, ram, history
<1>1. TypeOK'
  <2>1. TypeOK /\ Shape
    BY DEF IInv
  <2>2. page' \in Page
    BY <2>1, Terms, PageParts, PageField, KeysAssumption DEF TypeOK, PinRecord, Salt, PinHash
  <2>3. volume' \in Key /\ slotsKey' \in Key /\ safeKey' \in Key /\ confirmed' \in Key
    BY <2>1, Terms, PageParts, DerivedTerm DEF TypeOK
  <2> QED
    BY <2>1, <2>2, <2>3 DEF TypeOK
<1>2. page'.pin = [page.pin EXCEPT !.salt = saved.salt] /\ page'.config = page.config
  BY DEF IInv
<1>3. Shape' /\ NoCipher'
  BY DEF IInv, Shape, NoCipher, Erased, Making
<1>4. HashGuards' /\ PartsAgree' /\ VolumeKeyIsBuilt'
  BY DEF IInv, HashGuards, PartsAgree, VolumeKeyIsBuilt
<1>5. Progress'
  BY DEF IInv, Progress, TypeOK, Page, PinRecord, Making
<1>6. PinsKnown'
  BY <1>2, PageParts DEF IInv, PinsKnown, PinRecord, PinHash
<1>7. PinIsKept'
  BY <1>2 DEF IInv, PinIsKept, Owned, Saving, Defaulting, Making
<1> QED
  BY <1>1, <1>3, <1>4, <1>5, <1>6, <1>7 DEF IInv

LEMMA OldHashKeeps ==
  ASSUME IInv, OldHash
  PROVE  IInv'
<1> USE DEF OldHash, At, Write, OnlyPage, ram, history, Go, Done, Rest
<1>1. TypeOK'
  <2>1. TypeOK /\ Shape
    BY DEF IInv
  <2>2. page' \in Page
    BY <2>1, Terms, PageParts, PageField, KeysAssumption DEF TypeOK, PinRecord, Salt, PinHash
  <2>3. volume' \in Key /\ slotsKey' \in Key /\ safeKey' \in Key /\ confirmed' \in Key
    BY <2>1, Terms, PageParts, DerivedTerm DEF TypeOK
  <2> QED
    BY <2>1, <2>2, <2>3, Terms DEF TypeOK
<1>2. page'.pin = [page.pin EXCEPT !.hash = saved.hash] /\ page'.config = page.config
  BY DEF IInv
<1>3. Shape' /\ NoCipher'
  BY DEF IInv, Shape, NoCipher, Erased, Making
<1>4. HashGuards' /\ PartsAgree' /\ VolumeKeyIsBuilt'
  BY DEF IInv, HashGuards, PartsAgree, VolumeKeyIsBuilt
<1>5. Progress'
  BY DEF IInv, Progress, TypeOK, Page, PinRecord, Making
<1>6. PinsKnown'
  BY <1>2, Terms, PageParts DEF IInv, PinsKnown, PinRecord, PinHash
<1>7. PinIsKept'
  BY <1>2, PageParts DEF IInv, Shape, Progress, PinIsKept, Owned, Saving, Defaulting, PinHash,
      PinRecord
<1> QED
  BY <1>1, <1>3, <1>4, <1>5, <1>6, <1>7 DEF IInv

-----------------------------------------------------------------------------
(* BuildStorageKeys_u32 *)

\* BuildStorageKeys_u32 and what follows it stop where the card fails.
LEMMA MakingStops ==
  ASSUME IInv, pc \in Making \ {"restore", "off"},
         UNCHANGED <<page, magic, ram, history>>,
         card' = card \/ (pc = "master" /\ card' = made),
         BuildFails \/ Done("error")
  PROVE  IInv'
<1> USE DEF BuildFails, Done, Rest, ram, history
<1>1. TypeOK /\ made \in 0 .. MaxKeys
  BY DEF IInv, TypeOK
<1>2. card' \in 0 .. MaxKeys
  BY <1>1 DEF TypeOK
<1>3. TypeOK'
  BY <1>1, <1>2, Terms DEF TypeOK
<1>4. Shape' /\ NoCipher'
  BY DEF IInv, Shape, NoCipher, Erased, Making
<1>5. HashGuards' /\ VolumeKeyIsBuilt'
  BY DEF IInv, HashGuards, VolumeKeyIsBuilt
<1>6. PartsAgree'
  BY DEF IInv, Shape, NoCipher, PartsAgree, Erased, Blank, Number
<1>7. Progress'
  BY DEF IInv, Progress, Making
<1>8. PinsKnown' /\ PinIsKept'
  BY Terms DEF IInv, PinsKnown, PinIsKept, Owned, Making, Saving, Defaulting
<1> QED
  BY <1>3, <1>4, <1>5, <1>6, <1>7, <1>8 DEF IInv

LEMMA NewXorPatternKeeps ==
  ASSUME IInv, NewXorPattern
  PROVE  IInv'
<1> USE DEF At, Go, Write, OnlyPage, BuildFails, memory, ram, history
<1>1. CASE pc' # "master"
  BY <1>1, MakingStops DEF NewXorPattern, Making
<1>2. CASE pc' = "master"
  <2>1. pc = "xor" /\ page' = [page EXCEPT !.xor = made]
        /\ UNCHANGED <<magic, card, ram, history, op, arg, saved, wasFresh, answer>>
    BY <1>2 DEF NewXorPattern
  <2>2. TypeOK /\ Shape
    BY DEF IInv
  <2>3. page'.pin = page.pin /\ page'.config = page.config /\ page'.fresh = page.fresh
        /\ page'.xor = made /\ page'.cipher = page.cipher /\ page'.hash = page.hash
    BY <2>1, <2>2 DEF TypeOK, Page
  <2>4. page' \in Page
    BY <2>1, <2>2, PageField DEF TypeOK, Shape, Field, Making
  <2>5. TypeOK'
    BY <1>2, <2>4, <2>1, <2>2, Terms DEF TypeOK
  <2>6. Shape' /\ NoCipher'
    BY <1>2, <2>1, <2>3 DEF IInv, Shape, NoCipher, Erased, Making
  <2>7. HashGuards' /\ PartsAgree' /\ VolumeKeyIsBuilt'
    BY <1>2, <2>1, <2>3 DEF IInv, Shape, NoCipher, HashGuards, PartsAgree, VolumeKeyIsBuilt, Erased,
        Making, Blank, Random, Number, RandomKey
  <2>8. Progress'
    BY <1>2, <2>1, <2>3 DEF IInv, Progress, Making
  <2>9. PinsKnown' /\ PinIsKept'
    BY <1>2, <2>1, <2>3 DEF IInv, PinsKnown, PinIsKept, Owned, Making, Saving, Defaulting
  <2> QED
    BY <2>5, <2>6, <2>7, <2>8, <2>9 DEF IInv
<1> QED
  BY <1>1, <1>2

LEMMA NewMasterKeyKeeps ==
  ASSUME IInv, NewMasterKey
  PROVE  IInv'
<1> USE DEF NewMasterKey, At, OnlyPage, ram, history, Go, BuildFails
<1>1. TypeOK'
  <2>1. TypeOK /\ Shape
    BY DEF IInv
  <2>2. page' \in Page
    BY <2>1, Terms, PageParts, PageField, KeysAssumption DEF TypeOK, Shape, Number, Field, Salt, PinHash, Making
  <2>3. volume' \in Key /\ slotsKey' \in Key /\ safeKey' \in Key /\ confirmed' \in Key
    BY <2>1, Terms, PageParts, DerivedTerm DEF TypeOK
  <2> QED
    BY <2>1, <2>2, <2>3 DEF TypeOK
<1>2. Shape' /\ NoCipher'
  BY DEF IInv, Shape, NoCipher, Erased, Making
<1>3. HashGuards'
  BY DEF IInv, HashGuards
<1>4. PartsAgree'
  BY DEF IInv, HashGuards, PartsAgree, Progress, Making
<1>5. VolumeKeyIsBuilt'
  BY DEF IInv, VolumeKeyIsBuilt
<1>6. Progress'
  BY KeysAssumption DEF IInv, Progress, Shape, NoCipher, TypeOK, Page, PinRecord, Making
<1>7. PinsKnown'
  BY DEF IInv, PinsKnown
<1>8. PinIsKept'
  BY DEF IInv, PinIsKept, Saving, Defaulting, Making, Owned
<1> QED
  BY <1>1, <1>2, <1>3, <1>6, <1>7, <1>8, <1>4, <1>5 DEF IInv

LEMMA ClearNotInitiatedKeeps ==
  ASSUME IInv, ClearNotInitiated
  PROVE  IInv'
<1> USE DEF ClearNotInitiated, At, Write, OnlyPage, ram, history, Go
<1>1. TypeOK'
  <2>1. TypeOK /\ Shape
    BY DEF IInv
  <2>2. page' \in Page
    BY <2>1, Terms, PageParts, PageField, KeysAssumption DEF TypeOK, Shape, Number, Field, Salt, PinHash, Making
  <2>3. volume' \in Key /\ slotsKey' \in Key /\ safeKey' \in Key /\ confirmed' \in Key
    BY <2>1, Terms, PageParts, DerivedTerm DEF TypeOK
  <2> QED
    BY <2>1, <2>2, <2>3 DEF TypeOK
<1>2. Shape' /\ NoCipher'
  BY DEF IInv, Shape, NoCipher, Erased, Making
<1>3. HashGuards' /\ PartsAgree' /\ VolumeKeyIsBuilt'
  BY DEF IInv, HashGuards, PartsAgree, VolumeKeyIsBuilt
<1>4. Progress'
  BY DEF IInv, Progress, Making
<1>5. PinsKnown'
  BY DEF IInv, PinsKnown
<1>6. PinIsKept'
  BY DEF IInv, PinIsKept, Saving, Defaulting, Making, Owned
<1> QED
  BY <1>1, <1>2, <1>3, <1>4, <1>5, <1>6 DEF IInv

LEMMA ClearStorageKeyHashKeeps ==
  ASSUME IInv, ClearStorageKeyHash
  PROVE  IInv'
<1> USE DEF At, Go, Write, OnlyPage, BuildFails, memory, ram, history
<1>1. CASE pc' # "cipher"
  BY <1>1, MakingStops DEF ClearStorageKeyHash, Making
<1>2. CASE pc' = "cipher"
  <2>1. pc = "unhash" /\ page' = [page EXCEPT !.hash = ZeroKey]
        /\ UNCHANGED <<magic, card, ram, history, op, arg, saved, wasFresh, answer>>
    BY <1>2 DEF ClearStorageKeyHash
  <2>2. TypeOK /\ Shape
    BY DEF IInv
  <2>3. page'.pin = page.pin /\ page'.config = page.config /\ page'.fresh = page.fresh
        /\ page'.hash = ZeroKey /\ page'.cipher = page.cipher /\ page'.xor = page.xor
    BY <2>1, <2>2 DEF TypeOK, Page
  <2>4. page' \in Page
    BY <2>1, <2>2, Terms, PageField DEF TypeOK
  <2>5. TypeOK'
    BY <1>2, <2>4, <2>1, <2>2, Terms DEF TypeOK
  <2>6. Shape' /\ NoCipher'
    BY <1>2, <2>1, <2>3 DEF IInv, Shape, NoCipher, Erased, Making
  <2>7. HashGuards' /\ PartsAgree' /\ VolumeKeyIsBuilt'
    BY <1>2, <2>1, <2>3 DEF IInv, Shape, NoCipher, HashGuards, PartsAgree, VolumeKeyIsBuilt, Erased,
        Making, Blank, Random, RandomKey
  <2>8. Progress'
    BY <1>2, <2>1, <2>3 DEF IInv, Progress, Making
  <2>9. PinsKnown' /\ PinIsKept'
    BY <1>2, <2>1, <2>3 DEF IInv, PinsKnown, PinIsKept, Owned, Making, Saving, Defaulting
  <2> QED
    BY <2>5, <2>6, <2>7, <2>8, <2>9 DEF IInv
<1> QED
  BY <1>1, <1>2

LEMMA NewStorageKeyKeeps ==
  ASSUME IInv, NewStorageKey
  PROVE  IInv'
<1> USE DEF NewStorageKey, At, Write, Go, ram
<1>1. TypeOK'
  <2>1. TypeOK /\ Shape
    BY DEF IInv
  <2>2. page' \in Page
    BY <2>1, Terms, PageParts, PageField, KeysAssumption DEF TypeOK, Shape, Number, Field, Salt, PinHash, Making
  <2>3. volume' \in Key /\ slotsKey' \in Key /\ safeKey' \in Key /\ confirmed' \in Key
    BY <2>1, Terms, PageParts, DerivedTerm DEF TypeOK
  <2> QED
    BY <2>1, <2>2, <2>3 DEF TypeOK
<1>2. Shape' /\ NoCipher'
  BY DEF IInv, Shape, NoCipher, Erased, Making
<1>3. HashGuards'
  BY DEF IInv, TypeOK, HashGuards, Blank, Random, Field, BlankPage, Filled, NoKey, RandomKey
<1>4. PartsAgree'
  BY DEF IInv, HashGuards, PartsAgree, Progress, Making
<1>5. VolumeKeyIsBuilt'
  BY DEF IInv, VolumeKeyIsBuilt
<1>6. Progress'
  BY KeysAssumption DEF IInv, Progress, Shape, NoCipher, TypeOK, Page, PinRecord, Making, NoKey,
      Blank
<1>7. PinsKnown'
  BY DEF IInv, PinsKnown
<1>8. PinIsKept'
  BY DEF IInv, PinIsKept, Saving, Defaulting, Making, Owned
<1> QED
  BY <1>1, <1>2, <1>3, <1>6, <1>7, <1>8, <1>4, <1>5 DEF IInv

LEMMA DisableOldKeeps ==
  ASSUME IInv, DisableOld
  PROVE  IInv'
<1> USE DEF DisableOld, At, memory, history
<1>1. TypeOK'
  BY Terms DEF IInv, TypeOK
<1>2. Shape' /\ NoCipher'
  BY DEF IInv, Shape, NoCipher, Erased, Making
<1>3. HashGuards' /\ PartsAgree' /\ VolumeKeyIsBuilt'
  BY DEF IInv, HashGuards, PartsAgree, VolumeKeyIsBuilt
<1>4. Progress'
  BY DEF IInv, Progress, Making
<1>5. PinsKnown'
  BY DEF IInv, PinsKnown
<1>6. PinIsKept'
  BY DEF IInv, PinIsKept, Saving, Defaulting, Making, Owned
<1> QED
  BY <1>1, <1>2, <1>3, <1>4, <1>5, <1>6 DEF IInv

LEMMA RestoreFlagsKeeps ==
  ASSUME IInv, RestoreFlags
  PROVE  IInv'
<1> USE DEF RestoreFlags, At, OnlyPage, ram, history, Write, Go, Done, Rest
<1>1. TypeOK'
  <2>1. TypeOK /\ Shape
    BY DEF IInv
  <2>2. page' \in Page
    BY <2>1, Terms, PageParts, PageField, KeysAssumption DEF TypeOK, Shape, Number, Field, Salt, PinHash, Making
  <2>3. volume' \in Key /\ slotsKey' \in Key /\ safeKey' \in Key /\ confirmed' \in Key
    BY <2>1, Terms, PageParts, DerivedTerm DEF TypeOK
  <2> QED
    BY <2>1, <2>2, <2>3, Terms DEF TypeOK
<1>2. page'.pin = page.pin /\ page'.config
  BY DEF IInv, TypeOK, Page
<1>3. Shape' /\ NoCipher'
  BY KeysAssumption DEF IInv, Shape, NoCipher, TypeOK, Number, Erased, Making, NoArg, BlankPage,
      Filled, Blank, NoKey
<1>4. HashGuards' /\ PartsAgree' /\ VolumeKeyIsBuilt'
  BY DEF IInv, HashGuards, PartsAgree, VolumeKeyIsBuilt
<1>5. Progress'
  BY DEF IInv, Progress, TypeOK, Page, PinRecord, Making
<1>6. PinsKnown'
  BY DEF IInv, PinsKnown, NoArg, BlankPage, Filled, Blank, NoKey
<1>7. PinIsKept'
  BY <1>2 DEF IInv, PinIsKept, Owned, Saving, Defaulting, Making
<1> QED
  BY <1>1, <1>3, <1>4, <1>5, <1>6, <1>7 DEF IInv

LEMMA NewSlotsKeyKeeps ==
  ASSUME IInv, NewSlotsKey
  PROVE  IInv'
<1> USE DEF At, Go, Write, memory, ram, history
<1>1. CASE pc' # "slots"
  BY <1>1, MakingStops DEF NewSlotsKey, Making
<1>2. CASE pc' = "slots"
  <2>1. pc = "base" /\ page' = [page EXCEPT !.base = made] /\ slotsKey' = NoKey
        /\ UNCHANGED <<magic, card, volume, safeKey, history, op, arg, saved, wasFresh, answer>>
    BY <1>2 DEF NewSlotsKey, Done, Rest
  <2>2. TypeOK /\ Shape
    BY DEF IInv
  <2>3. page'.pin = page.pin /\ page'.config = page.config /\ page'.fresh = page.fresh
        /\ page'.base = made /\ page'.hash = page.hash /\ page'.cipher = page.cipher /\ page'.xor = page.xor
    BY <2>1, <2>2 DEF TypeOK, Page
  <2>4. page' \in Page
    BY <2>1, <2>2, PageField DEF TypeOK, Shape, Field, Making
  <2>5. TypeOK'
    BY <1>2, <2>4, <2>1, <2>2, Terms DEF TypeOK
  <2>6. Shape' /\ NoCipher'
    BY <1>2, <2>1, <2>3 DEF IInv, Shape, NoCipher, Erased, Making
  <2>7. HashGuards' /\ PartsAgree' /\ VolumeKeyIsBuilt'
    BY <1>2, <2>1, <2>3 DEF IInv, HashGuards, PartsAgree, VolumeKeyIsBuilt
  <2>8. Progress'
    BY <1>2, <2>1, <2>3 DEF IInv, Progress, Making
  <2>9. PinsKnown' /\ PinIsKept'
    BY <1>2, <2>1, <2>3 DEF IInv, PinsKnown, PinIsKept, Owned, Making, Saving, Defaulting
  <2> QED
    BY <2>5, <2>6, <2>7, <2>8, <2>9 DEF IInv
<1> QED
  BY <1>1, <1>2

LEMMA NewSlotsKeeps ==
  ASSUME IInv, NewSlots
  PROVE  IInv'
<1> USE DEF NewSlots, At, OnlyPage, ram, history, Go, Done, Rest
<1>1. TypeOK'
  <2>1. TypeOK /\ Shape
    BY DEF IInv
  <2>2. page' \in Page
    BY <2>1, Terms, PageParts, PageField, KeysAssumption DEF TypeOK, Shape, Number, Field, Salt, PinHash, Making
  <2>3. volume' \in Key /\ slotsKey' \in Key /\ safeKey' \in Key /\ confirmed' \in Key
    BY <2>1, Terms, PageParts, DerivedTerm DEF TypeOK
  <2> QED
    BY <2>1, <2>2, <2>3, Terms DEF TypeOK
<1>2. Shape' /\ NoCipher'
  BY DEF IInv, Shape, NoCipher, Erased, Making
<1>3. HashGuards' /\ PartsAgree' /\ VolumeKeyIsBuilt'
  BY DEF IInv, HashGuards, PartsAgree, VolumeKeyIsBuilt
<1>4. Progress'
  BY DEF IInv, Progress, Making
<1>5. PinsKnown'
  BY DEF IInv, PinsKnown, NoArg, BlankPage, Filled, Blank, NoKey
<1>6. PinIsKept'
  BY DEF IInv, PinIsKept, Saving, Defaulting, Making, Owned
<1> QED
  BY <1>1, <1>2, <1>3, <1>4, <1>5, <1>6 DEF IInv

LEMMA NewSafeKeyKeeps ==
  ASSUME IInv, NewSafeKey
  PROVE  IInv'
<1> USE DEF At, Write, memory, ram, history, Done, Rest
<1>1. CASE answer' # "ok"
  BY <1>1, MakingStops DEF NewSafeKey, Making
<1>2. CASE answer' = "ok"
  <2>1. pc = "safe" /\ page' = [page EXCEPT !.safe = made] /\ safeKey' = NoKey /\ Done("ok")
        /\ UNCHANGED <<magic, card, volume, slotsKey, history>>
    BY <1>2 DEF NewSafeKey
  <2>2. TypeOK /\ Shape
    BY DEF IInv
  <2>3. page'.pin = page.pin /\ page'.config = page.config /\ page'.fresh = page.fresh
        /\ page'.hash = page.hash /\ page'.cipher = page.cipher /\ page'.xor = page.xor
    BY <2>1, <2>2 DEF TypeOK, Page
  <2>4. page' \in Page
    BY <2>1, <2>2, PageField DEF TypeOK, Shape, Field, Making
  <2>5. TypeOK'
    BY <1>2, <2>4, <2>1, <2>2, Terms DEF TypeOK
  <2>6. Shape' /\ NoCipher'
    BY <1>2, <2>1, <2>3 DEF IInv, Shape, NoCipher, Making
  <2>7. HashGuards' /\ PartsAgree' /\ VolumeKeyIsBuilt'
    BY <1>2, <2>1, <2>3 DEF IInv, HashGuards, PartsAgree, VolumeKeyIsBuilt
  <2>8. Progress'
    BY <1>2, <2>1, <2>3 DEF IInv, Progress, Making
  <2>9. PinsKnown' /\ PinIsKept'
    BY <2>1, <2>3, Terms DEF IInv, PinsKnown, PinIsKept, Owned, Making, Saving, Defaulting
  <2> QED
    BY <2>5, <2>6, <2>7, <2>8, <2>9 DEF IInv
<1> QED
  BY <1>1, <1>2

-----------------------------------------------------------------------------
(* Using the keys *)

\* A command that changes nothing but the keys in RAM, and puts none into the AES unit.
LEMMA UsingKeeps ==
  ASSUME IInv, NEW a \in {"none", "ok", "error"}, pc \in {"idle", "compare", "startup"}, Done(a),
         UNCHANGED <<page, magic, card, history>>,
         volume' \in {volume, NoKey}, slotsKey' \in Key, safeKey' \in Key
  PROVE  IInv'
<1> USE DEF Done, Rest, history
<1>1. TypeOK'
  BY Terms DEF IInv, TypeOK
<1>2. Shape' /\ NoCipher'
  BY DEF IInv, Shape, NoCipher, Making
<1>3. HashGuards' /\ PartsAgree' /\ VolumeKeyIsBuilt'
  BY DEF IInv, HashGuards, PartsAgree, VolumeKeyIsBuilt
<1>4. Progress' /\ PinsKnown' /\ PinIsKept'
  BY Terms DEF IInv, Progress, PinsKnown, PinIsKept, Owned, Making, Saving, Defaulting
<1> QED
  BY <1>1, <1>2, <1>3, <1>4 DEF IInv

LEMMA WrongPinKeeps ==
  ASSUME IInv, WrongPin
  PROVE  IInv'
BY UsingKeeps DEF WrongPin, Commanded, At, memory, ram, IInv, TypeOK

LEMMA EnableVolumeKeeps ==
  ASSUME IInv, EnableVolume
  PROVE  IInv'
<1> USE DEF memory, history, Rest, Done, Commanded, Write, At
<1>1. TypeOK /\ Shape /\ HashGuards
  BY DEF IInv
<1>2. PICK ok, ok2, ok3 \in BOOLEAN :
        LET key == StorageKey(ok)
        IN IF key = NoKey
           THEN /\ Commanded("error") /\ volume' = NoKey
                /\ UNCHANGED <<memory, slotsKey, safeKey, history>>
           ELSE /\ Commanded("ok") /\ volume' = key /\ confirmed' = key
                /\ Write(IF NoHash THEN [page EXCEPT !.hash = key] ELSE page)
                /\ slotsKey' = Decrypted(slotsKey, page.base, ok2)
                /\ safeKey' = Decrypted(safeKey, page.safe, ok3)
                /\ UNCHANGED <<made, swapped, userPin, cut>>
  BY DEF EnableVolume
<1>3. CASE StorageKey(ok) = NoKey
  <2>1. /\ pc = "idle" /\ pc' = "idle" /\ op' = "none" /\ arg' = NoArg /\ saved' = BlankPage.pin
        /\ wasFresh' = FALSE /\ answer' = "error" /\ volume' = NoKey
        /\ UNCHANGED <<page, magic, card, slotsKey, safeKey, history>>
    BY <1>2, <1>3
  <2>2. TypeOK'
    BY <1>1, <2>1, Terms DEF TypeOK
  <2>3. Shape' /\ NoCipher' /\ HashGuards' /\ PartsAgree' /\ VolumeKeyIsBuilt'
    BY <2>1 DEF IInv, Shape, NoCipher, HashGuards, PartsAgree, VolumeKeyIsBuilt
  <2>4. Progress' /\ PinsKnown' /\ PinIsKept'
    BY <2>1, Terms DEF IInv, Progress, PinsKnown, PinIsKept, Owned, Making, Saving, Defaulting
  <2> QED
    BY <2>2, <2>3, <2>4 DEF IInv
<1>4. CASE StorageKey(ok) # NoKey
  <2> DEFINE key == Derived(page.cipher)
  <2>1. /\ StorageKey(ok) = key /\ page.cipher # Blank /\ card # 0 /\ HashFits(key)
        /\ key = [c |-> page.cipher, m |-> card, x |-> page.xor]
    BY <1>4 DEF StorageKey, Derived
  <2>2. /\ pc = "idle" /\ pc' = "idle" /\ op' = "none" /\ arg' = NoArg /\ saved' = BlankPage.pin
        /\ wasFresh' = FALSE /\ answer' = "ok" /\ volume' = key /\ confirmed' = key
        /\ page' = (IF NoHash THEN [page EXCEPT !.hash = key] ELSE page)
        /\ slotsKey' = Decrypted(slotsKey, page.base, ok2)
        /\ safeKey' = Decrypted(safeKey, page.safe, ok3)
        /\ UNCHANGED <<magic, card, made, swapped, userPin, cut>>
    BY <1>2, <1>4, <2>1
  <2>3. page.cipher \in Number /\ key \in Key /\ key # ZeroKey /\ key # NoKey
    <3>1. page.cipher # Random
      BY <1>1, <2>1 DEF TypeOK, HashGuards, HashFits, NoHash, RandomKey, NoKey, ZeroKey, Random, Blank
    <3>2. key \in Key
      BY <1>1, PageParts, DerivedTerm
    <3>3. page.cipher \in Number
      BY <1>1, <2>1, <3>1, PageParts DEF Field
    <3> QED
      BY <2>1, <3>2, <3>3 DEF NoKey, ZeroKey, Blank
  <2>4. /\ page' \in Page /\ page'.hash = key /\ page'.pin = page.pin /\ page'.config = page.config
        /\ page'.cipher = page.cipher /\ page'.xor = page.xor /\ page'.fresh = page.fresh
    <3>1. page \in Page
      BY <1>1 DEF TypeOK
    <3>2. CASE NoHash
      BY <2>2, <2>3, <3>1, <3>2, PageField DEF Page
    <3>3. CASE ~NoHash
      BY <2>1, <2>2, <3>1, <3>3 DEF HashFits
    <3> QED
      BY <3>2, <3>3
  <2>5. TypeOK'
    BY <1>1, <2>2, <2>3, <2>4, Terms, PageParts, DerivedTerm DEF TypeOK
  <2>6. Shape' /\ NoCipher'
    BY <2>2, <2>4 DEF IInv, Shape, NoCipher
  <2>7. HashGuards' /\ PartsAgree' /\ VolumeKeyIsBuilt'
    BY <2>1, <2>2, <2>3, <2>4 DEF IInv, PartsAgree, VolumeKeyIsBuilt, HashGuards, Number, Random
  <2>8. Progress' /\ PinsKnown' /\ PinIsKept'
    BY <2>2, <2>4, Terms DEF IInv, Progress, PinsKnown, PinIsKept, Owned, Making, Saving, Defaulting
  <2> QED
    BY <2>5, <2>6, <2>7, <2>8 DEF IInv
<1> QED
  BY <1>3, <1>4

LEMMA EnableSafeKeeps ==
  ASSUME IInv, EnableSafe
  PROVE  IInv'
<1>1. safeKey' \in Key
  BY PageParts, DerivedTerm DEF IInv, TypeOK, EnableSafe
<1> QED
  BY <1>1, UsingKeeps DEF EnableSafe, Commanded, At, memory, IInv, TypeOK

LEMMA DisableVolumeKeeps ==
  ASSUME IInv, DisableVolume
  PROVE  IInv'
BY UsingKeeps DEF DisableVolume, Commanded, At, memory, IInv, TypeOK

LEMMA LockDeviceKeeps ==
  ASSUME IInv, LockDevice
  PROVE  IInv'
BY UsingKeeps, Terms DEF LockDevice, Commanded, At, memory, IInv, TypeOK

LEMMA SetupHiddenKeeps ==
  ASSUME IInv, SetupHidden
  PROVE  IInv'
<1> USE DEF Rest, Done, Commanded, At
<1>1. TypeOK /\ Shape
  BY DEF IInv
<1>2. PICK ok, ok2 \in BOOLEAN, stage \in {"none", "base", "all"}, a \in {"ok", "error"} :
        /\ made' = IF stage = "none" THEN made ELSE made + 1
        /\ stage # "none" => made < MaxKeys
        /\ page' = IF stage = "none" THEN page ELSE [page EXCEPT !.base = made']
        /\ magic' = (magic \/ stage = "all")
        /\ LET held == Decrypted(IF stage = "none" THEN slotsKey ELSE NoKey, page'.base, ok)
           IN slotsKey' \in {held, IF held = NoKey THEN NoKey ELSE Decrypted(NoKey, page'.base, ok2)}
        /\ Commanded(a)
        /\ UNCHANGED <<card, volume, safeKey, confirmed, swapped, userPin, cut>>
  BY DEF SetupHidden
<1>3. made' \in 0 .. MaxKeys /\ (stage # "none" => made' \in Number)
  BY <1>1, <1>2, KeysAssumption DEF TypeOK, Number
<1>4. page' \in Page
  BY <1>1, <1>2, <1>3, PageField DEF TypeOK, Field
<1>5. /\ page'.pin = page.pin /\ page'.config = page.config /\ page'.hash = page.hash
      /\ page'.cipher = page.cipher /\ page'.xor = page.xor
  BY <1>1, <1>2 DEF TypeOK, Page
<1>6. slotsKey' \in Key
  <2> DEFINE before == IF stage = "none" THEN slotsKey ELSE NoKey
  <2>1. before \in Key /\ page'.base \in Field
    BY <1>1, <1>4, Terms DEF TypeOK, Page
  <2>2. Decrypted(before, page'.base, ok) \in Key /\ Decrypted(NoKey, page'.base, ok2) \in Key
    BY <1>1, <2>1, Terms, DerivedTerm
  <2>3. slotsKey' \in {Decrypted(before, page'.base, ok), NoKey, Decrypted(NoKey, page'.base, ok2)}
    BY <1>2
  <2> QED
    BY <2>2, <2>3, Terms
<1>7. TypeOK'
  BY <1>1, <1>2, <1>3, <1>4, <1>6, Terms DEF TypeOK
<1>8. Shape' /\ NoCipher' /\ HashGuards' /\ PartsAgree' /\ VolumeKeyIsBuilt'
  BY <1>2, <1>3, <1>5 DEF IInv, Shape, NoCipher, HashGuards, PartsAgree, VolumeKeyIsBuilt,
    Erased, Making, NoArg
<1>9. Progress' /\ PinsKnown' /\ PinIsKept'
  BY <1>2, <1>5, Terms DEF IInv, Progress, PinsKnown, PinIsKept, Owned, Making, Saving, Defaulting
<1> QED
  BY <1>7, <1>8, <1>9 DEF IInv

LEMMA EnableHiddenKeeps ==
  ASSUME IInv, EnableHidden
  PROVE  IInv'
<1>1. PICK ok \in BOOLEAN : slotsKey' = Decrypted(NoKey, page.base, ok)
  BY DEF EnableHidden
<1>2. slotsKey' \in Key
  BY <1>1, Terms, PageParts, DerivedTerm DEF IInv
<1> QED
  BY <1>2, UsingKeeps DEF EnableHidden, Commanded, At, memory, IInv, TypeOK

LEMMA HostSetsCardKeyKeeps ==
  ASSUME IInv, HostSetsCardKey
  PROVE  IInv'
<1> USE DEF HostSetsCardKey, At, ram, command
<1>1. TypeOK'
  <2>1. TypeOK /\ Shape
    BY DEF IInv
  <2>2. page' \in Page
    BY <2>1, Terms, PageParts, PageField, KeysAssumption DEF TypeOK, Shape, Number, Field, Salt, PinHash, Making
  <2>3. volume' \in Key /\ slotsKey' \in Key /\ safeKey' \in Key /\ confirmed' \in Key
    BY <2>1, Terms, PageParts, DerivedTerm DEF TypeOK
  <2> QED
    BY <2>1, <2>2, <2>3, KeysAssumption DEF TypeOK
<1>2. Shape' /\ NoCipher'
  BY DEF IInv, Shape, NoCipher
<1>3. HashGuards' /\ PartsAgree' /\ VolumeKeyIsBuilt'
  BY DEF IInv, HashGuards, PartsAgree, VolumeKeyIsBuilt
<1>4. Progress'
  BY DEF IInv, Progress, Making
<1>5. PinsKnown'
  BY DEF IInv, PinsKnown
<1>6. PinIsKept'
  BY DEF IInv, PinIsKept, Owned
<1> QED
  BY <1>1, <1>2, <1>3, <1>4, <1>5, <1>6 DEF IInv

-----------------------------------------------------------------------------
(* Update PIN, start and loss of power *)

LEMMA ChangeUpdatePinKeeps ==
  ASSUME IInv, NEW p \in Pins, NEW q \in Pins, ChangeUpdatePin(p, q)
  PROVE  IInv'
<1> USE DEF ChangeUpdatePin, CheckUpdatePin, Begin, At, memory, ram, history
<1>1. TypeOK'
  BY DEF IInv, TypeOK
<1>2. Shape' /\ NoCipher'
  BY DEF IInv, Shape, NoCipher, Making
<1>3. HashGuards' /\ PartsAgree' /\ VolumeKeyIsBuilt'
  BY DEF IInv, HashGuards, PartsAgree, VolumeKeyIsBuilt
<1>4. Progress'
  BY DEF IInv, Progress, Making
<1>5. PinsKnown'
  BY DEF IInv, PinsKnown
<1>6. PinIsKept'
  BY KeysAssumption DEF IInv, PinIsKept, Saving, Defaulting, Owned, Salt, Blank
<1> QED
  BY <1>1, <1>2, <1>3, <1>4, <1>5, <1>6 DEF IInv

LEMMA EnableFirmwareUpdateKeeps ==
  ASSUME IInv, NEW p \in Pins, EnableFirmwareUpdate(p)
  PROVE  IInv'
<1> USE DEF EnableFirmwareUpdate, CheckUpdatePin, Begin, At, memory, ram, history
<1>1. TypeOK'
  BY DEF IInv, TypeOK
<1>2. Shape' /\ NoCipher'
  BY DEF IInv, Shape, NoCipher, Making
<1>3. HashGuards' /\ PartsAgree' /\ VolumeKeyIsBuilt'
  BY DEF IInv, HashGuards, PartsAgree, VolumeKeyIsBuilt
<1>4. Progress'
  BY DEF IInv, Progress, Making
<1>5. PinsKnown'
  BY DEF IInv, PinsKnown
<1>6. PinIsKept'
  BY KeysAssumption DEF IInv, PinIsKept, Saving, Defaulting, Owned, Salt, Blank
<1> QED
  BY <1>1, <1>2, <1>3, <1>4, <1>5, <1>6 DEF IInv

LEMMA PinIsWrongKeeps ==
  ASSUME IInv, PinIsWrong
  PROVE  IInv'
BY UsingKeeps DEF PinIsWrong, At, memory, ram, IInv, TypeOK

LEMMA NewSaltKeeps ==
  ASSUME IInv, NewSalt
  PROVE  IInv'
<1> USE DEF NewSalt, At, Works, Fresh, Write, Go, OnlyPage, ram, history
<1>1. PICK s \in Salts : Fresh(s) /\ page' = [page EXCEPT !.pin.salt = s]
  OBVIOUS
<1>2. TypeOK'
  <2>1. TypeOK /\ Shape
    BY DEF IInv
  <2>2. page' \in Page
    BY <1>1, <2>1, Terms, PageParts, PageField, KeysAssumption DEF TypeOK, PinRecord, Salt, PinHash
  <2>3. volume' \in Key /\ slotsKey' \in Key /\ safeKey' \in Key /\ confirmed' \in Key
    BY <2>1, Terms, PageParts, DerivedTerm DEF TypeOK
  <2> QED
    BY <2>1, <2>2, <2>3 DEF TypeOK
<1>3. page'.pin = [page.pin EXCEPT !.salt = s] /\ page'.config = page.config
  BY <1>1 DEF IInv, TypeOK, Page, PinRecord
<1>4. Shape' /\ NoCipher'
  BY DEF IInv, Shape, NoCipher, Making
<1>5. HashGuards' /\ PartsAgree' /\ VolumeKeyIsBuilt'
  BY DEF IInv, HashGuards, PartsAgree, VolumeKeyIsBuilt
<1>6. Progress'
  BY DEF IInv, Progress, Making
<1>7. PinsKnown'
  BY <1>3, PageParts DEF IInv, PinsKnown, PinRecord, PinHash
<1>8. PinIsKept'
  BY <1>1, <1>3, PageParts DEF IInv, PinIsKept, Owned, Saving, Defaulting, Making, PinHash,
      PinRecord
<1> QED
  BY <1>2, <1>4, <1>5, <1>6, <1>7, <1>8 DEF IInv

LEMMA NewHashKeeps ==
  ASSUME IInv, NewHash
  PROVE  IInv'
<1> USE DEF NewHash, At, Write, Done, Rest, ram
<1>1. TypeOK'
  <2>1. TypeOK /\ Shape
    BY DEF IInv
  <2>2. page' \in Page
    BY <2>1, Terms, PageParts, PageField, KeysAssumption DEF TypeOK, PinRecord, Salt, PinHash
  <2>3. volume' \in Key /\ slotsKey' \in Key /\ safeKey' \in Key /\ confirmed' \in Key
    BY <2>1, Terms, PageParts, DerivedTerm DEF TypeOK
  <2> QED
    BY <2>1, <2>2, <2>3, Terms DEF TypeOK, Shape
<1>2. /\ page'.pin = [page.pin EXCEPT !.hash = [pin |-> arg.new, salt |-> page.pin.salt]]
      /\ page'.config = page.config
  BY DEF IInv
<1>3. Shape' /\ NoCipher'
  BY DEF IInv, Shape, NoCipher, Making
<1>4. HashGuards' /\ PartsAgree' /\ VolumeKeyIsBuilt'
  BY DEF IInv, HashGuards, PartsAgree, VolumeKeyIsBuilt
<1>5. Progress'
  BY DEF IInv, Progress, Making
<1>6. PinsKnown'
  BY <1>2, Terms, PageParts DEF IInv, PinsKnown, PinRecord, PinHash
<1>7. PinIsKept'
  BY <1>2, PageParts DEF IInv, PinIsKept, Owned, Saving, Defaulting, PinHash, PinRecord
<1> QED
  BY <1>1, <1>3, <1>4, <1>5, <1>6, <1>7 DEF IInv

LEMMA StartBootloaderKeeps ==
  ASSUME IInv, StartBootloader
  PROVE  IInv'
<1> USE DEF StartBootloader, At, Works, Restart, memory, history
<1>1. TypeOK'
  <2>1. TypeOK /\ Shape
    BY DEF IInv
  <2>2. page' \in Page
    BY <2>1, Terms, PageParts, PageField, KeysAssumption DEF TypeOK, Shape, Number, Field, Salt, PinHash, Making
  <2>3. volume' \in Key /\ slotsKey' \in Key /\ safeKey' \in Key /\ confirmed' \in Key
    BY <2>1, Terms, PageParts, DerivedTerm DEF TypeOK
  <2> QED
    BY <2>1, <2>2, <2>3, Terms DEF TypeOK
<1>2. Shape' /\ NoCipher'
  BY DEF IInv, Shape, NoCipher, Making
<1>3. HashGuards' /\ PartsAgree' /\ VolumeKeyIsBuilt'
  BY DEF IInv, HashGuards, PartsAgree, VolumeKeyIsBuilt
<1>4. Progress'
  BY DEF IInv, Progress, Making
<1>5. PinsKnown'
  BY DEF IInv, PinsKnown, NoKey, Blank, NoArg, BlankPage, Filled
<1>6. PinIsKept'
  BY DEF IInv, PinIsKept, Shape, Saving, Defaulting, Owned
<1> QED
  BY <1>1, <1>2, <1>3, <1>4, <1>5, <1>6 DEF IInv

LEMMA BootKeeps ==
  ASSUME IInv, Boot
  PROVE  IInv'
<1> USE DEF Boot, At, memory, ram, history, Go
<1>1. TypeOK'
  BY DEF IInv, TypeOK
<1>2. Shape' /\ NoCipher'
  BY DEF IInv, Shape, NoCipher, Making
<1>3. HashGuards' /\ PartsAgree' /\ VolumeKeyIsBuilt'
  BY DEF IInv, HashGuards, PartsAgree, VolumeKeyIsBuilt
<1>4. Progress'
  BY DEF IInv, Progress, Making
<1>5. PinsKnown'
  BY DEF IInv, PinsKnown
<1>6. PinIsKept'
  BY DEF IInv, PinIsKept, Shape, Saving, Defaulting, Making, Owned
<1> QED
  BY <1>1, <1>2, <1>3, <1>4, <1>5, <1>6 DEF IInv

LEMMA StartupCheckKeeps ==
  ASSUME IInv, StartupCheck
  PROVE  IInv'
BY UsingKeeps DEF StartupCheck, At, memory, ram, IInv, TypeOK

LEMMA PowerCutKeeps ==
  ASSUME IInv, PowerCut
  PROVE  IInv'
<1> USE DEF PowerCut, Restart
<1>1. TypeOK'
  <2>1. TypeOK /\ Shape
    BY DEF IInv
  <2>2. page' \in Page
    BY <2>1, Terms, PageParts, PageField, KeysAssumption DEF TypeOK, Shape, Number, Field, Salt, PinHash, Making
  <2>3. volume' \in Key /\ slotsKey' \in Key /\ safeKey' \in Key /\ confirmed' \in Key
    BY <2>1, Terms, PageParts, DerivedTerm DEF TypeOK
  <2> QED
    BY <2>1, <2>2, <2>3, Terms DEF TypeOK
<1>2. Shape' /\ NoCipher'
  BY DEF IInv, Shape, NoCipher, Making
<1>3. HashGuards'
  BY DEF IInv, HashGuards, Blank, Random, Field, BlankPage, Filled, NoKey, RandomKey
<1>4. PartsAgree'
  BY DEF IInv, HashGuards, PartsAgree, Blank, Random, Number, Field, BlankPage, Filled, NoKey,
      RandomKey
<1>5. VolumeKeyIsBuilt'
  BY DEF IInv, VolumeKeyIsBuilt
<1>6. Progress'
  BY KeysAssumption DEF IInv, Progress, Shape, NoCipher, TypeOK, Page, PinRecord, Making,
      BlankPage, Filled, Blank, NoKey, NoArg
<1>7. PinsKnown'
  BY DEF IInv, PinsKnown, BlankPage, Filled, Blank, NoKey, NoArg
<1>8. PinIsKept'
  BY DEF IInv, PinIsKept, Owned
<1> QED
  BY <1>1, <1>2, <1>3, <1>6, <1>7, <1>8, <1>4, <1>5 DEF IInv

-----------------------------------------------------------------------------
(* Theorems *)

LEMMA InitInv == Init => IInv
<1> SUFFICES ASSUME Init PROVE IInv
  OBVIOUS
<1> USE DEF Init
<1>1. 0 \in 0 .. MaxKeys /\ Default \in Pins
  BY KeysAssumption
<1>2. TypeOK
  BY <1>1, Terms DEF TypeOK
<1>3. Shape /\ NoCipher
  BY DEF Shape, NoCipher, Making
<1>4. HashGuards /\ PartsAgree /\ VolumeKeyIsBuilt
  BY DEF HashGuards, PartsAgree, VolumeKeyIsBuilt, BlankPage, Filled, Blank, Random, Number
<1>5. Progress /\ PinsKnown /\ PinIsKept
  BY DEF Progress, PinsKnown, PinIsKept, Owned, Making, Saving, Defaulting, BlankPage, Filled
<1> QED
  BY <1>2, <1>3, <1>4, <1>5 DEF IInv

LEMMA NextKeeps ==
  ASSUME IInv, [Next]_vars
  PROVE  IInv'
<1>1. CASE UNCHANGED vars
  BY <1>1 DEF vars, IInv, TypeOK, Shape, NoCipher, HashGuards, PartsAgree, VolumeKeyIsBuilt,
      Progress, PinsKnown, PinIsKept, Works, Owned
<1>2. CASE Next
  <2>1. CASE GenerateNewKeys \/ FactoryReset
    BY <2>1, GenerateNewKeysKeeps, FactoryResetKeeps
  <2>2. CASE Shred \/ ErasePage \/ InitConfig \/ DefaultSalt \/ DefaultHash \/ OldSalt \/ OldHash
    BY <2>2, ShredKeeps, ErasePageKeeps, InitConfigKeeps, DefaultSaltKeeps, DefaultHashKeeps,
      OldSaltKeeps, OldHashKeeps
  <2>3. CASE \/ NewXorPattern \/ NewMasterKey \/ ClearNotInitiated \/ ClearStorageKeyHash
             \/ NewStorageKey \/ DisableOld \/ RestoreFlags \/ NewSlotsKey \/ NewSlots \/ NewSafeKey
    BY <2>3, NewXorPatternKeeps, NewMasterKeyKeeps, ClearNotInitiatedKeeps, ClearStorageKeyHashKeeps,
      NewStorageKeyKeeps, DisableOldKeeps, RestoreFlagsKeeps, NewSlotsKeyKeeps, NewSlotsKeeps,
      NewSafeKeyKeeps
  <2>4. CASE WrongPin \/ EnableVolume \/ EnableSafe \/ DisableVolume \/ LockDevice
             \/ SetupHidden \/ EnableHidden \/ HostSetsCardKey
    BY <2>4, WrongPinKeeps, EnableVolumeKeeps, EnableSafeKeeps, DisableVolumeKeeps, LockDeviceKeeps,
      SetupHiddenKeeps, EnableHiddenKeeps, HostSetsCardKeyKeeps
  <2>5. CASE \/ \E p, q \in Pins : ChangeUpdatePin(p, q)
             \/ \E p \in Pins : EnableFirmwareUpdate(p)
             \/ PinIsWrong \/ NewSalt \/ NewHash \/ StartBootloader
    BY <2>5, ChangeUpdatePinKeeps, EnableFirmwareUpdateKeeps, PinIsWrongKeeps, NewSaltKeeps,
      NewHashKeeps, StartBootloaderKeeps
  <2>6. CASE Boot \/ StartupCheck \/ PowerCut
    BY <2>6, BootKeeps, StartupCheckKeeps, PowerCutKeeps
  <2> QED
    BY <1>2, <2>1, <2>2, <2>3, <2>4, <2>5, <2>6 DEF Next
<1> QED
  BY <1>1, <1>2

\* The inductive invariant: from erased flash on, every step of HID_ExcuteCmd and every loss of power
\* keeps it.
THEOREM Invariance == Spec => []IInv
<1>1. IInv /\ [Next]_vars => IInv'
  BY NextKeeps
<1> QED
  BY InitInv, <1>1, PTL DEF Spec

\* Types, for any number of keys, update PINs and salts.
THEOREM TypeCorrect == Spec => []TypeOK
<1>1. IInv => TypeOK
  BY DEF IInv
<1> QED
  BY Invariance, <1>1, PTL

\* The update PIN that CheckUpdatePin accepts between two commands is its owner's, though
\* EraseLocalFlashKeyValues_u32 erases it and sets the default one in between; a loss of power brings
\* up no third one.
THEOREM UpdatePinKept == Spec => []UpdatePinIsKept
<1>1. IInv => UpdatePinIsKept
  <2> SUFFICES ASSUME IInv PROVE UpdatePinIsKept
    OBVIOUS
  <2>1. pc = "idle" /\ ~cut => Works(userPin)
    BY DEF IInv, PinIsKept, Owned, Works
  <2>2. ASSUME NEW p \in Pins, Works(p) PROVE p \in {userPin, Default}
    BY <2>2, KeysAssumption DEF IInv, PinsKnown, Works
  <2> QED
    BY <2>1, <2>2 DEF UpdatePinIsKept
<1> QED
  BY Invariance, <1>1, PTL

\* Only HTML_CMD_ENABLE_AES_LUN puts a key into the AES unit ...
LEMMA OnlyEnableVolume ==
  ASSUME Next, volume' # volume, volume' # NoKey
  PROVE  EnableVolume
<1>1. ~(Shred \/ ErasePage \/ InitConfig \/ DefaultSalt \/ DefaultHash \/ OldSalt \/ OldHash)
  BY DEF Shred, ErasePage, InitConfig, DefaultSalt, DefaultHash, OldSalt, OldHash, OnlyPage, ram
<1>2. ~(NewXorPattern \/ NewMasterKey \/ ClearNotInitiated \/ ClearStorageKeyHash \/ NewStorageKey
        \/ DisableOld \/ RestoreFlags \/ NewSlotsKey \/ NewSlots \/ NewSafeKey)
  BY DEF NewXorPattern, NewMasterKey, ClearNotInitiated, ClearStorageKeyHash, NewStorageKey, DisableOld,
    RestoreFlags, NewSlotsKey, NewSlots, NewSafeKey, OnlyPage, ram
<1>3. ~(GenerateNewKeys \/ FactoryReset \/ WrongPin \/ EnableSafe \/ DisableVolume \/ LockDevice
        \/ SetupHidden \/ EnableHidden \/ HostSetsCardKey)
  BY DEF GenerateNewKeys, FactoryReset, WrongPin, EnableSafe, DisableVolume, LockDevice, SetupHidden,
    EnableHidden, HostSetsCardKey, ram
<1>4. ~(\/ \E p, q \in Pins : ChangeUpdatePin(p, q)
        \/ \E p \in Pins : EnableFirmwareUpdate(p)
        \/ PinIsWrong \/ NewSalt \/ NewHash \/ StartBootloader \/ Boot \/ StartupCheck \/ PowerCut)
  BY DEF ChangeUpdatePin, EnableFirmwareUpdate, CheckUpdatePin, PinIsWrong, NewSalt, NewHash,
    StartBootloader, Boot, StartupCheck, PowerCut, OnlyPage, ram
<1> QED
  BY <1>1, <1>2, <1>3, <1>4 DEF Next

\* ... and the hash lets only the confirmed one pass.
LEMMA OnlyConfirmed ==
  ASSUME IInv, EnableVolume, volume' # volume, volume' # NoKey, confirmed # NoKey
  PROVE  volume' = confirmed
<1>1. PICK ok \in BOOLEAN : volume' = StorageKey(ok)
  BY DEF EnableVolume
<1>2. /\ volume' = [c |-> page.cipher, m |-> card, x |-> page.xor]
      /\ page.cipher # Blank /\ HashFits(volume')
  BY <1>1 DEF StorageKey, Derived
<1>3. page.hash \in {confirmed, RandomKey} /\ confirmed.c \in Number
  BY <1>2 DEF IInv, HashGuards
<1>4. page.hash # RandomKey
  <2>1. card # Random
    BY KeysAssumption DEF IInv, TypeOK, Random
  <2>2. volume' # RandomKey
    BY <1>2, <2>1 DEF RandomKey
  <2> QED
    BY <1>2, <2>2 DEF HashFits, NoHash, RandomKey, NoKey, ZeroKey, Random, Blank
<1>5. ~NoHash
  BY <1>3, <1>4 DEF NoHash, NoKey, ZeroKey, Blank, Number
<1> QED
  BY <1>2, <1>3, <1>4, <1>5 DEF HashFits

\* CheckStorageKeyHash_u32 lets the volume be opened with no key but the confirmed one, until
\* BuildStorageKeys_u32 has written a new storage key.
THEOREM ConfirmedKept == Spec => ConfirmedKeyIsKept
<1>1. IInv /\ [Next]_vars =>
        [volume' # volume /\ volume' # NoKey /\ confirmed # NoKey => volume' = confirmed]_vars
  BY OnlyEnableVolume, OnlyConfirmed
<1> QED
  BY Invariance, <1>1, PTL DEF Spec, ConfirmedKeyIsKept

\* Making keys answers OK at one place.
LEMMA OnlyNewSafeKey ==
  ASSUME IInv, Next, op = "generate", pc # "idle", pc' = "idle", answer' = "ok"
  PROVE  NewSafeKey
<1> USE DEF At, Go, Done, Begin, Commanded, Restart, BuildFails
<1>1. ~(Shred \/ ErasePage \/ InitConfig \/ DefaultSalt \/ DefaultHash \/ OldSalt \/ OldHash)
  BY DEF Shred, ErasePage, InitConfig, DefaultSalt, DefaultHash, OldSalt, OldHash
<1>2. ~(NewXorPattern \/ NewMasterKey \/ ClearNotInitiated \/ ClearStorageKeyHash \/ NewStorageKey
        \/ DisableOld \/ RestoreFlags \/ NewSlotsKey \/ NewSlots)
  BY DEF NewXorPattern, NewMasterKey, ClearNotInitiated, ClearStorageKeyHash, NewStorageKey, DisableOld,
    RestoreFlags, NewSlotsKey, NewSlots
<1>3. ~(GenerateNewKeys \/ FactoryReset \/ WrongPin \/ EnableVolume \/ EnableSafe \/ DisableVolume
        \/ LockDevice \/ SetupHidden \/ EnableHidden \/ HostSetsCardKey)
  BY DEF GenerateNewKeys, FactoryReset, WrongPin, EnableVolume, EnableSafe, DisableVolume, LockDevice,
    SetupHidden, EnableHidden, HostSetsCardKey
<1>4. ~(\/ \E p, q \in Pins : ChangeUpdatePin(p, q)
        \/ \E p \in Pins : EnableFirmwareUpdate(p)
        \/ PinIsWrong \/ NewSalt \/ NewHash \/ StartBootloader \/ Boot \/ StartupCheck \/ PowerCut)
  BY DEF ChangeUpdatePin, EnableFirmwareUpdate, CheckUpdatePin, PinIsWrong, NewSalt, NewHash,
    StartBootloader, Boot, StartupCheck, PowerCut, IInv, Shape
<1> QED
  BY <1>1, <1>2, <1>3, <1>4 DEF Next

LEMMA AllAreNew ==
  ASSUME IInv, NewSafeKey, answer' = "ok"
  PROVE  /\ page'.cipher = made /\ page'.base = made /\ page'.xor = made /\ page'.safe = made
         /\ card' = made /\ page'.hash = ZeroKey /\ ~page'.fresh /\ magic'
         /\ volume' = NoKey /\ slotsKey' = NoKey /\ safeKey' = NoKey
         /\ page'.pin = saved
<1>1. /\ pc = "safe" /\ page' = [page EXCEPT !.safe = made] /\ safeKey' = NoKey
      /\ UNCHANGED <<magic, card, volume, slotsKey>>
  BY DEF NewSafeKey, At, Write, Done
<1>2. page \in Page
  BY DEF IInv, TypeOK
<1>3. /\ page'.cipher = page.cipher /\ page'.base = page.base /\ page'.xor = page.xor
      /\ page'.safe = made /\ page'.hash = page.hash /\ page'.fresh = page.fresh /\ page'.pin = page.pin
  BY <1>1, <1>2 DEF Page
<1> QED
  BY <1>1, <1>3 DEF IInv, Progress, Making

\* BuildStorageKeys_u32 never leaves a mixture of old and new parts that is taken for a key, and an OK
\* to HTML_CMD_GENERATE_NEW_KEYS says that everything is new, wherever an earlier making stopped.
THEOREM Together == Spec => KeysComeTogether
<1>1. IInv => VolumeKeyIsBuilt
  BY DEF IInv
<1>2. IInv /\ [Next]_vars =>
        [op = "generate" /\ pc # "idle" /\ pc' = "idle" /\ answer' = "ok"
         => /\ page'.cipher = made /\ page'.base = made /\ page'.xor = made /\ page'.safe = made
            /\ card' = made /\ page'.hash = ZeroKey /\ ~page'.fresh /\ magic'
            /\ volume' = NoKey /\ slotsKey' = NoKey /\ safeKey' = NoKey
            /\ page'.pin = saved]_vars
  BY OnlyNewSafeKey, AllAreNew
<1> QED
  BY Invariance, <1>1, <1>2, PTL DEF Spec, KeysComeTogether, NewKeysAreComplete
=============================================================================
