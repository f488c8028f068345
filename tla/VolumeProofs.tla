---------------------------- MODULE VolumeProofs ----------------------------
(***************************************************************************)
(* What HiddenSlots, VolumeAccess and SectorPipeline keep, for any number  *)
(* of slots, setups, hidden volumes, commands, restarts, sectors and late  *)
(* stages.  Each of the three parts below states an inductive invariant:   *)
(*                                                                         *)
(* - HiddenInv: a slot, in flash or in RAM, whatever layers it has, is the *)
(*   one that was set up last (Genuine), and key and salt in RAM are those *)
(*   of flash while the slots count as loaded (ActiveFitsFlash).           *)
(* - AccessInv: what is left of a command is the end of its program        *)
(*   (OfProgram), and which calls are still to come tells which units are  *)
(*   off, what the AES unit holds and what the host has noticed.           *)
(* - PipelineInv: where the stages may be at each place of the loop        *)
(*   (Staged), however late they are, and how far the source, the buffers  *)
(*   and the destination are when none was late (Flow).                    *)
(***************************************************************************)
EXTENDS HiddenSlots, VolumeAccess, SectorPipeline, SequenceTheorems, WellFoundedInduction, TLAPS

-----------------------------------------------------------------------------
(* HiddenSlots *)

\* A slot, in flash or in RAM and whatever layers it has, is the one that was set up last.
Genuine ==
  \A i \in Slots : \A s \in {slots[i], ramSlots[i]} :
    s # Junk => latest[i] = [volume |-> s.volume, password |-> s.inner.password]

Initialising ==
  /\ pc \in {"base", "draw"} => ~magic
  /\ pc \in {"draw", "fill"} => ~active
  /\ pc = "fill" => ramSlots = AllJunk
  /\ pc \in {"base", "draw", "fill"} => op \in {"setup", "generate"}
  /\ pc = "set" => active

HiddenInv == HiddenTypeOK /\ Genuine /\ ActiveFitsFlash /\ Initialising

LEMMA KeyTypes ==
  /\ Zero \in Keys /\ \A n \in Draw : Deciphered(n) \in Keys /\ Raw(n) \in Keys
  /\ \A k \in Keys : PutOn(k) \in Layer /\ TakenOff(k) \in Layer
  /\ NoSalt \in SaltTerm /\ \A n \in Draw, k \in Keys : [n |-> n, key |-> k] \in SaltTerm
<1>1. 0 \in Draw
  BY HiddenAssumption DEF Draw
<1>2. Zero \in Keys /\ NoKey \in Keys /\ \A n \in Draw : Deciphered(n) \in Keys /\ Raw(n) \in Keys
  BY <1>1 DEF Keys, Zero, NoKey, Deciphered, Raw
<1>3. \A k \in Keys : PutOn(k) \in Layer /\ TakenOff(k) \in Layer
  BY DEF Layer, PutOn, TakenOff
<1> QED BY <1>1, <1>2, <1>3 DEF NoSalt, SaltTerm

LEMMA JunkIsNoSlot == Junk \notin Slot
BY DEF Junk, Slot

\* Layers
LEMMA ThroughType ==
  ASSUME NEW w \in Seq(Layer), NEW a \in Layer, NEW b \in Layer
  PROVE  Through(w, a, b) \in Seq(Layer)
<1>1. CASE w # <<>> /\ w[Len(w)] = b
  <2>1. Len(w) \in Nat /\ Len(w) >= 1
    BY <1>1, EmptySeq, LenProperties
  <2>2. SubSeq(w, 1, Len(w) - 1) \in Seq(Layer)
    BY <2>1, SubSeqProperties
  <2> QED BY <1>1, <2>2 DEF Through
<1>2. CASE ~(w # <<>> /\ w[Len(w)] = b)
  BY <1>2, AppendProperties DEF Through
<1> QED BY <1>1, <1>2

LEMMA LayerOffAndOn ==
  ASSUME NEW a \in Layer, NEW b \in Layer
  PROVE  Through(<<b>>, a, b) = <<>> /\ Through(<<>>, a, b) = <<a>>
<1>1. <<b>> # <<>> /\ Len(<<b>>) = 1 /\ <<b>>[1] = b /\ SubSeq(<<b>>, 1, 0) = <<>>
  OBVIOUS
<1>2. Append(<<>>, a) = <<a>>
  OBVIOUS
<1> QED BY <1>1, <1>2 DEF Through

LEMMA DecipherIs ==
  ASSUME NEW s \in Slot \union {Junk}, NEW k \in Keys
  PROVE  /\ Decipher(s, k) \in Slot \union {Junk}
         /\ s = Junk => Decipher(s, k) = Junk
         /\ s # Junk => /\ Decipher(s, k) \in Slot
                        /\ Decipher(s, k).inner = s.inner /\ Decipher(s, k).volume = s.volume
                        /\ Decipher(s, k).outer = Through(s.outer, TakenOff(k), PutOn(k))
<1>1. CASE s = Junk
  BY <1>1, JunkIsNoSlot DEF Decipher
<1>2. CASE s # Junk
  <2>1. s \in [volume : 1 .. MaxVolumes, inner : Inner, outer : Seq(Layer)]
    BY <1>2 DEF Slot
  <2>2. Through(s.outer, TakenOff(k), PutOn(k)) \in Seq(Layer)
    BY <2>1, KeyTypes, ThroughType
  <2>3. Decipher(s, k) = [s EXCEPT !.outer = Through(s.outer, TakenOff(k), PutOn(k))]
    BY <1>2 DEF Decipher
  <2> QED BY <1>2, <2>1, <2>2, <2>3 DEF Slot
<1> QED BY <1>1, <1>2

LEMMA EncipherIs ==
  ASSUME NEW s \in Slot \union {Junk}, NEW k \in Keys
  PROVE  /\ Encipher(s, k) \in Slot \union {Junk}
         /\ s = Junk => Encipher(s, k) = Junk
         /\ s # Junk => /\ Encipher(s, k) \in Slot
                        /\ Encipher(s, k).inner = s.inner /\ Encipher(s, k).volume = s.volume
                        /\ Encipher(s, k).outer = Through(s.outer, PutOn(k), TakenOff(k))
<1>1. CASE s = Junk
  BY <1>1, JunkIsNoSlot DEF Encipher
<1>2. CASE s # Junk
  <2>1. s \in [volume : 1 .. MaxVolumes, inner : Inner, outer : Seq(Layer)]
    BY <1>2 DEF Slot
  <2>2. Through(s.outer, PutOn(k), TakenOff(k)) \in Seq(Layer)
    BY <2>1, KeyTypes, ThroughType
  <2>3. Encipher(s, k) = [s EXCEPT !.outer = Through(s.outer, PutOn(k), TakenOff(k))]
    BY <1>2 DEF Encipher
  <2> QED BY <1>2, <2>1, <2>2, <2>3 DEF Slot
<1> QED BY <1>1, <1>2

\* A slot under one layer, of k, comes back as it was.
LEMMA EncipheredAgain ==
  ASSUME NEW s \in Slot, NEW k \in Keys, s.outer = <<PutOn(k)>>
  PROVE  Encipher(Decipher(s, k), k) = s
<1> DEFINE d == Decipher(s, k)
           e == Encipher(d, k)
<1>1. d \in Slot /\ d.inner = s.inner /\ d.volume = s.volume /\ d.outer = <<>>
  <2>1. s # Junk /\ PutOn(k) \in Layer /\ TakenOff(k) \in Layer
    BY JunkIsNoSlot, KeyTypes
  <2>2. Through(s.outer, TakenOff(k), PutOn(k)) = <<>>
    BY <2>1, LayerOffAndOn
  <2> QED BY <2>1, <2>2, DecipherIs
<1>2. e \in Slot /\ e.inner = d.inner /\ e.volume = d.volume /\ e.outer = <<PutOn(k)>>
  <2> HIDE DEF d
  <2>1. d # Junk /\ PutOn(k) \in Layer /\ TakenOff(k) \in Layer
    BY <1>1, JunkIsNoSlot, KeyTypes
  <2>2. Through(d.outer, PutOn(k), TakenOff(k)) = <<PutOn(k)>>
    BY <1>1, <2>1, LayerOffAndOn
  <2> QED BY <1>1, <2>1, <2>2, EncipherIs
<1> HIDE DEF d, e
<1>3. e \in [volume : 1 .. MaxVolumes, inner : Inner, outer : Seq(Layer)]
  BY <1>2 DEF Slot
<1>4. s \in [volume : 1 .. MaxVolumes, inner : Inner, outer : Seq(Layer)]
  BY DEF Slot
<1>5. e = s
  BY <1>1, <1>2, <1>3, <1>4
<1> QED BY <1>5 DEF d, e

LEMMA DecipherAllType ==
  ASSUME NEW all \in [Slots -> Slot \union {Junk}], NEW k \in Keys
  PROVE  /\ DecipherAll(all, k) \in [Slots -> Slot \union {Junk}]
         /\ \A i \in Slots : DecipherAll(all, k)[i] = Decipher(all[i], k)
BY DecipherIs DEF DecipherAll

LEMMA AllJunkType == AllJunk \in [Slots -> Slot \union {Junk}]
BY DEF AllJunk

\* What a setup writes
LEMMA NewSlotIs ==
  ASSUME HiddenTypeOK, volumes < MaxVolumes, key' \in Keys, NEW i \in Slots, NEW p \in Passwords,
         NEW all \in [Slots -> Slot \union {Junk}]
  PROVE  /\ NewSlot(i, p, all) \in [Slots -> Slot \union {Junk}]
         /\ NewSlot(i, p, all)[i] =
              [volume |-> volumes + 1, outer |-> <<PutOn(key')>>, inner |-> [password |-> p, salt |-> ramSalt]]
         /\ \A j \in Slots \ {i} : NewSlot(i, p, all)[j] = Encipher(all[j], key')
<1> DEFINE new == [volume |-> volumes + 1, outer |-> <<>>, inner |-> [password |-> p, salt |-> ramSalt]]
           open == [all EXCEPT ![i] = new]
<1>1. new \in Slot
  <2>1. volumes + 1 \in 1 .. MaxVolumes /\ ramSalt \in SaltTerm /\ <<>> \in Seq(Layer)
    BY HiddenAssumption DEF HiddenTypeOK
  <2> QED BY <2>1 DEF Slot, Inner
<1>2. open \in [Slots -> Slot \union {Junk}]
  BY <1>1
<1>3. NewSlot(i, p, all) = [j \in Slots |-> Encipher(open[j], key')]
  BY DEF NewSlot, EncipherAll
<1>4. Encipher(new, key') = [volume |-> volumes + 1, outer |-> <<PutOn(key')>>,
                             inner |-> [password |-> p, salt |-> ramSalt]]
  <2>1. Encipher(new, key') = [new EXCEPT !.outer = Through(<<>>, PutOn(key'), TakenOff(key'))]
    BY <1>1, JunkIsNoSlot DEF Encipher
  <2> QED BY <2>1, LayerOffAndOn, KeyTypes
<1> HIDE DEF new
<1>5. NewSlot(i, p, all) \in [Slots -> Slot \union {Junk}]
  <2>1. \A j \in Slots : Encipher(open[j], key') \in Slot \union {Junk}
    BY <1>2, EncipherIs
  <2> QED BY <1>3, <2>1
<1> QED BY <1>2, <1>3, <1>4, <1>5

\* The first of the slots that fit: what CHOOSE stands for
LEMMA LessOnNat == \E Less : IsWellFoundedOn(Less, Nat) /\ \A x, y \in Nat : <<y, x>> \in Less <=> y < x
<1>1. IsWellFoundedOn(OpToRel(<, Nat), Nat)
  BY NatLessThanWellFounded
<1>2. \A x, y \in Nat : <<y, x>> \in OpToRel(<, Nat) <=> y < x
  BY DEF OpToRel
<1> QED BY <1>1, <1>2

LEMMA LeastOf == ASSUME NEW T, T \subseteq Nat, T # {} PROVE \E x \in T : \A y \in T : x <= y
<1>1. PICK Less : IsWellFoundedOn(Less, Nat) /\ \A x, y \in Nat : <<y, x>> \in Less <=> y < x
  BY LessOnNat
<1>2. \E x \in T : \A y \in T : <<y, x>> \notin Less
  BY <1>1, WFMin
<1>3. PICK x \in T : \A y \in T : <<y, x>> \notin Less
  BY <1>2
<1>4. ASSUME NEW y \in T PROVE x <= y
  <2>1. x \in Nat /\ y \in Nat /\ ~(y < x)
    BY <1>1, <1>3
  <2> QED BY <2>1
<1> QED BY <1>4

\* Slots that are deciphered from flash are as genuine as those.
LEMMA DecipheredIsGenuine ==
  ASSUME HiddenInv, NEW k \in Keys, ramSlots' = DecipherAll(slots, k), UNCHANGED <<slots, latest>>
  PROVE  Genuine' /\ ramSlots' \in [Slots -> Slot \union {Junk}]
<1>1. slots \in [Slots -> Slot \union {Junk}] /\ Genuine
  BY DEF HiddenInv, HiddenTypeOK
<1>2. ramSlots' \in [Slots -> Slot \union {Junk}] /\ \A i \in Slots : ramSlots'[i] = Decipher(slots[i], k)
  BY <1>1, DecipherAllType
<1>3. ASSUME NEW i \in Slots, NEW s \in {slots'[i], ramSlots'[i]}, s # Junk
      PROVE  latest'[i] = [volume |-> s.volume, password |-> s.inner.password]
  <2>1. slots[i] \in Slot \union {Junk}
    BY <1>1
  <2>2. slots[i] # Junk /\ s.volume = slots[i].volume /\ s.inner = slots[i].inner
    BY <1>2, <1>3, <2>1, DecipherIs
  <2> QED BY <1>1, <2>2 DEF Genuine
<1> QED BY <1>2, <1>3 DEF Genuine

LEMMA UnlockKeeps ==
  ASSUME HiddenInv, Unlock
  PROVE  HiddenInv'
<1>1. /\ HiddenTypeOK /\ pc = "idle" /\ card' = "open" /\ opened' = NoVolume
      /\ UNCHANGED <<pc, op, base, magic, salt, slots, drawn, volumes, latest>>
  BY DEF HiddenInv, Unlock, Stay, flash, history
<1>2. CASE UNCHANGED ram
  BY <1>1, <1>2 DEF HiddenInv, HiddenTypeOK, Genuine, ActiveFitsFlash, Initialising, ram
<1>3. CASE /\ active' = TRUE /\ key' = Deciphered(base) /\ ramSalt' = [n |-> salt, key |-> key']
           /\ ramSlots' = DecipherAll(slots, key')
  <2>1. key' \in Keys /\ ramSalt' \in SaltTerm
    BY <1>1, <1>3, KeyTypes DEF HiddenTypeOK
  <2>2. Genuine' /\ ramSlots' \in [Slots -> Slot \union {Junk}]
    BY <1>1, <1>3, <2>1, DecipheredIsGenuine
  <2>3. HiddenTypeOK'
    BY <1>1, <1>3, <2>1, <2>2 DEF HiddenTypeOK
  <2> QED BY <1>1, <1>3, <2>2, <2>3 DEF HiddenInv, ActiveFitsFlash, Initialising
<1>4. CASE LoadFails
  <2>1. HiddenTypeOK'
    BY <1>1, <1>4, KeyTypes DEF LoadFails, HiddenTypeOK
  <2>2. Genuine'
    BY <1>1, <1>4 DEF LoadFails, HiddenInv, Genuine
  <2> QED BY <1>1, <1>4, <2>1, <2>2 DEF LoadFails, HiddenInv, ActiveFitsFlash, Initialising
<1> QED BY <1>2, <1>3, <1>4 DEF Unlock

LEMMA VerifyPinKeeps ==
  ASSUME HiddenInv, VerifyPin
  PROVE  HiddenInv'
<1> USE DEF VerifyPin, Stay, flash, ram, history
<1>1. HiddenTypeOK'
  BY DEF HiddenInv, HiddenTypeOK
<1>2. Genuine'
  BY DEF HiddenInv, Genuine
<1>3. ActiveFitsFlash'
  BY DEF HiddenInv, ActiveFitsFlash
<1>4. Initialising'
  BY DEF HiddenInv, Initialising
<1> QED BY <1>1, <1>2, <1>3, <1>4 DEF HiddenInv

LEMMA LockDeviceKeeps ==
  ASSUME HiddenInv, LockDevice
  PROVE  HiddenInv'
<1> USE DEF LockDevice, Stay, flash, ram, history
<1>1. HiddenTypeOK'
  BY DEF HiddenInv, HiddenTypeOK
<1>2. Genuine'
  BY DEF HiddenInv, Genuine
<1>3. ActiveFitsFlash'
  BY DEF HiddenInv, ActiveFitsFlash
<1>4. Initialising'
  BY DEF HiddenInv, Initialising
<1> QED BY <1>1, <1>2, <1>3, <1>4 DEF HiddenInv

LEMMA HostPowersCardKeeps ==
  ASSUME HiddenInv, HostPowersCard
  PROVE  HiddenInv'
<1> USE DEF HostPowersCard, Stay, flash, ram, history
<1>1. HiddenTypeOK'
  BY DEF HiddenInv, HiddenTypeOK
<1>2. Genuine'
  BY DEF HiddenInv, Genuine
<1>3. ActiveFitsFlash'
  BY DEF HiddenInv, ActiveFitsFlash
<1>4. Initialising'
  BY DEF HiddenInv, Initialising
<1> QED BY <1>1, <1>2, <1>3, <1>4 DEF HiddenInv

\* How a step of InitHiddenSlots goes on, or ends
LEMMA ProceedTo ==
  ASSUME HiddenTypeOK, Initialising, Proceed, pc \in {"base", "draw", "fill"}
  PROVE  /\ pc' \in {"idle", "set", "decrypt"} /\ op' \in {"none", "setup", "generate"}
         /\ pc' = "set" => active
<1>1. CASE op = "setup"
  BY <1>1 DEF Proceed, AfterInit
<1>2. CASE op = "generate"
  BY <1>2 DEF Proceed, AfterInit
<1> QED BY <1>1, <1>2 DEF Initialising

LEMMA NewBaseKeeps ==
  ASSUME HiddenInv, NewBase
  PROVE  HiddenInv'
<1>1. /\ UNCHANGED <<magic, salt, slots, key, ramSalt, ramSlots, opened, volumes, latest>>
      /\ pc = "base" /\ card' \in {"off", "on", "open"} /\ HiddenTypeOK /\ Initialising /\ ~magic
  BY DEF HiddenInv, HiddenTypeOK, Initialising, NewBase
<1>2. Genuine'
  BY <1>1 DEF HiddenInv, Genuine
<1>3. CASE /\ drawn < MaxDraws /\ drawn' = drawn + 1 /\ base' = drawn'
           /\ active' = FALSE /\ pc' = "draw" /\ UNCHANGED op
  <2>1. drawn' \in Draw
    BY <1>1, <1>3, HiddenAssumption DEF HiddenTypeOK, Draw
  <2>2. HiddenTypeOK'
    BY <1>1, <1>3, <2>1 DEF HiddenTypeOK
  <2> QED BY <1>1, <1>2, <1>3, <2>2 DEF HiddenInv, ActiveFitsFlash, Initialising
<1>4. CASE UNCHANGED <<base, active, drawn>> /\ Proceed
  <2>1. /\ pc' \in {"idle", "set", "decrypt"} /\ op' \in {"none", "setup", "generate"}
        /\ pc' = "set" => active
    BY <1>1, <1>4, ProceedTo
  <2>2. HiddenTypeOK'
    BY <1>1, <1>4, <2>1 DEF HiddenTypeOK
  <2> QED BY <1>1, <1>2, <1>4, <2>1, <2>2 DEF HiddenInv, ActiveFitsFlash, Initialising
<1> QED BY <1>3, <1>4 DEF NewBase

LEMMA DrawSlotsKeeps ==
  ASSUME HiddenInv, DrawSlots
  PROVE  HiddenInv'
<1>1. /\ UNCHANGED <<base, salt, slots, card, active, key, opened, volumes, latest>>
      /\ pc = "draw" /\ ramSalt' = NoSalt /\ ramSlots' = AllJunk /\ HiddenTypeOK /\ Initialising
      /\ ~active /\ ~magic
  BY DEF HiddenInv, Initialising, DrawSlots
<1>2. Genuine'
  BY <1>1 DEF HiddenInv, Genuine, AllJunk
<1>3. CASE drawn < MaxDraws /\ drawn' = drawn + 1 /\ magic' = TRUE /\ pc' = "fill" /\ UNCHANGED op
  <2>1. drawn' \in Draw
    BY <1>1, <1>3, HiddenAssumption DEF HiddenTypeOK, Draw
  <2>2. HiddenTypeOK'
    BY <1>1, <1>3, <2>1, KeyTypes, AllJunkType DEF HiddenTypeOK
  <2> QED BY <1>1, <1>2, <1>3, <2>2 DEF HiddenInv, ActiveFitsFlash, Initialising
<1>4. CASE UNCHANGED <<drawn, magic>> /\ Proceed
  <2>1. /\ pc' \in {"idle", "set", "decrypt"} /\ op' \in {"none", "setup", "generate"}
        /\ pc' = "set" => active
    BY <1>1, <1>4, ProceedTo
  <2>2. HiddenTypeOK'
    BY <1>1, <1>4, <2>1, KeyTypes, AllJunkType DEF HiddenTypeOK
  <2> QED BY <1>1, <1>2, <1>4, <2>1, <2>2 DEF HiddenInv, ActiveFitsFlash, Initialising
<1> QED BY <1>3, <1>4 DEF DrawSlots

LEMMA FillSlotsKeeps ==
  ASSUME HiddenInv, FillSlots
  PROVE  HiddenInv'
<1>1. /\ UNCHANGED <<base, magic, card, ram, opened, drawn, volumes>> /\ latest' = [i \in Slots |-> NoVolume]
      /\ pc = "fill" /\ salt' = drawn /\ slots' = AllJunk /\ Proceed
      /\ HiddenTypeOK /\ Initialising /\ ~active /\ ramSlots = AllJunk
  BY DEF HiddenInv, Initialising, FillSlots
<1>2. /\ pc' \in {"idle", "set", "decrypt"} /\ op' \in {"none", "setup", "generate"}
      /\ pc' = "set" => active
  BY <1>1, ProceedTo
<1>3. HiddenTypeOK'
  BY <1>1, <1>2, AllJunkType DEF HiddenTypeOK, ram
<1>4. Genuine'
  BY <1>1 DEF Genuine, AllJunk, ram
<1> QED BY <1>1, <1>2, <1>3, <1>4 DEF HiddenInv, ActiveFitsFlash, Initialising, ram

LEMMA BeginSetupKeeps ==
  ASSUME HiddenInv, BeginSetup
  PROVE  HiddenInv'
<1> USE DEF BeginSetup, flash, ram, history
<1>1. HiddenTypeOK'
  BY DEF HiddenInv, HiddenTypeOK
<1>2. Genuine'
  BY DEF HiddenInv, Genuine
<1>3. ActiveFitsFlash'
  BY DEF HiddenInv, ActiveFitsFlash
<1>4. Initialising'
  BY DEF HiddenInv, Initialising
<1> QED BY <1>1, <1>2, <1>3, <1>4 DEF HiddenInv

LEMMA DecryptSlotsKeeps ==
  ASSUME HiddenInv, DecryptSlots
  PROVE  HiddenInv'
<1>1. /\ HiddenTypeOK /\ pc = "decrypt"
      /\ UNCHANGED <<base, magic, salt, slots, card, opened, drawn, volumes, latest>>
  BY DEF HiddenInv, DecryptSlots, flash, history
<1>2. CASE LoadSlots /\ pc' = "set" /\ UNCHANGED op
  <2>1. key' \in Keys /\ ramSalt' \in SaltTerm
    BY <1>1, <1>2, KeyTypes DEF HiddenTypeOK, LoadSlots
  <2>2. Genuine' /\ ramSlots' \in [Slots -> Slot \union {Junk}]
    BY <1>1, <1>2, <2>1, DecipheredIsGenuine DEF LoadSlots
  <2>3. HiddenTypeOK'
    BY <1>1, <1>2, <2>1, <2>2 DEF HiddenTypeOK, LoadSlots
  <2> QED BY <1>1, <1>2, <2>2, <2>3 DEF HiddenInv, ActiveFitsFlash, Initialising, LoadSlots
<1>3. CASE LoadFails /\ pc' = "idle" /\ op' = "none"
  <2>1. HiddenTypeOK'
    BY <1>1, <1>3, KeyTypes DEF LoadFails, HiddenTypeOK
  <2>2. Genuine'
    BY <1>1, <1>3 DEF LoadFails, HiddenInv, Genuine
  <2> QED BY <1>1, <1>3, <2>1, <2>2 DEF LoadFails, HiddenInv, ActiveFitsFlash, Initialising
<1> QED BY <1>2, <1>3 DEF DecryptSlots

LEMMA SetupRefusedKeeps ==
  ASSUME HiddenInv, SetupRefused
  PROVE  HiddenInv'
<1> USE DEF SetupRefused, flash, ram, history
<1>1. HiddenTypeOK'
  BY DEF HiddenInv, HiddenTypeOK
<1>2. Genuine'
  BY DEF HiddenInv, Genuine
<1>3. ActiveFitsFlash'
  BY DEF HiddenInv, ActiveFitsFlash
<1>4. Initialising'
  BY DEF HiddenInv, Initialising
<1> QED BY <1>1, <1>2, <1>3, <1>4 DEF HiddenInv

\* What fits a password in RAM after the slots have been deciphered with k is what the slot was
\* last set up with.
LEMMA FitsWhatWasSet ==
  ASSUME HiddenInv, NEW k \in Keys, NEW i \in Slots, NEW p \in Passwords, ramSlots' = DecipherAll(slots, k),
         FitsSlot(ramSlots'[i], p, ramSalt)
  PROVE  /\ latest[i] = [volume |-> ramSlots'[i].volume, password |-> p]
         /\ latest[i] \in Setup
<1>1. slots \in [Slots -> Slot \union {Junk}] /\ Genuine /\ latest \in [Slots -> Setup \union {NoVolume}]
  BY DEF HiddenInv, HiddenTypeOK
<1>2. ramSlots'[i] = Decipher(slots[i], k) /\ slots[i] \in Slot \union {Junk}
  BY <1>1, DecipherAllType
<1>3. ramSlots'[i] # Junk /\ ramSlots'[i].inner.password = p
  BY DEF FitsSlot
<1>4. slots[i] # Junk /\ ramSlots'[i].volume = slots[i].volume /\ ramSlots'[i].inner = slots[i].inner
  BY <1>2, <1>3, DecipherIs
<1>5. latest[i] = [volume |-> slots[i].volume, password |-> slots[i].inner.password]
  BY <1>1, <1>4 DEF Genuine
<1>6. slots[i].volume \in 1 .. MaxVolumes
  BY <1>2, <1>4 DEF Slot
<1> QED BY <1>3, <1>4, <1>5, <1>6 DEF Setup

\* What HTML_CMD_ENABLE_HIDDEN_AES_LUN opens: the first slot in flash that fits
LEMMA OpensFitting ==
  ASSUME HiddenInv, NEW p \in Passwords, OpenVolume(p), opened' # opened
  PROVE  opened' \in Setup /\ \E i \in Slots : latest[i] = opened'
<1> DEFINE fit == Fitting(ramSlots', p)
           i == CHOOSE i \in fit : \A j \in fit : i <= j
<1>1. fit # {} /\ opened' = [volume |-> ramSlots'[i].volume, password |-> p]
  BY DEF OpenVolume
<1>2. i \in fit
  <2>1. fit \subseteq Nat
    BY HiddenAssumption DEF Fitting
  <2>2. \E k \in fit : \A j \in fit : k <= j
    BY <1>1, <2>1, LeastOf
  <2> HIDE DEF fit
  <2> QED BY <2>2
<1> HIDE DEF i
<1>3. ramSlots' = DecipherAll(slots, key') /\ key' \in Keys
  BY KeyTypes DEF OpenVolume, LoadSlots, HiddenInv, HiddenTypeOK
<1>4. i \in Slots /\ FitsSlot(ramSlots'[i], p, ramSalt)
  BY <1>2 DEF Fitting
<1>5. latest[i] = [volume |-> ramSlots'[i].volume, password |-> p] /\ latest[i] \in Setup
  BY <1>3, <1>4, FitsWhatWasSet
<1> QED BY <1>1, <1>4, <1>5

\* ... and what it opens when the card fails at number k
LEMMA OpensUnloaded ==
  ASSUME HiddenInv, NEW p \in Passwords, NEW k \in Slots, OpenUnloaded(k, p), opened' # opened
  PROVE  opened' \in Setup /\ \E i \in Slots : latest[i] = opened'
<1>1. /\ ramSlots' = DecipherAll(slots, key') /\ key' \in Keys
      /\ FitsSlot(ramSlots'[k], p, ramSalt) /\ opened' = [volume |-> ramSlots'[k].volume, password |-> p]
  BY KeyTypes DEF OpenUnloaded, HiddenInv, HiddenTypeOK
<1>2. latest[k] = [volume |-> ramSlots'[k].volume, password |-> p] /\ latest[k] \in Setup
  BY <1>1, FitsWhatWasSet
<1> QED BY <1>1, <1>2

LEMMA OpenVolumeKeeps ==
  ASSUME HiddenInv, NEW p \in Passwords, OpenVolume(p)
  PROVE  HiddenInv'
<1>1. /\ HiddenTypeOK /\ active' = TRUE /\ key' = Deciphered(base) /\ ramSalt' = [n |-> salt, key |-> key']
      /\ ramSlots' = DecipherAll(slots, key') /\ pc = "idle"
      /\ UNCHANGED <<base, magic, salt, slots, card, pc, op, drawn, volumes, latest>>
  BY DEF HiddenInv, OpenVolume, LoadSlots, Stay, flash, history
<1>2. key' \in Keys /\ ramSalt' \in SaltTerm
  BY <1>1, KeyTypes DEF HiddenTypeOK
<1>3. Genuine' /\ ramSlots' \in [Slots -> Slot \union {Junk}]
  BY <1>1, <1>2, DecipheredIsGenuine
<1>4. opened' \in Setup \union {NoVolume}
  BY <1>1, OpensFitting DEF HiddenTypeOK
<1>5. HiddenTypeOK'
  BY <1>1, <1>2, <1>3, <1>4 DEF HiddenTypeOK
<1> QED BY <1>1, <1>3, <1>5 DEF HiddenInv, ActiveFitsFlash, Initialising

LEMMA OpenUnloadedKeeps ==
  ASSUME HiddenInv, NEW p \in Passwords, NEW k \in Slots, OpenUnloaded(k, p)
  PROVE  HiddenInv'
<1>1. /\ HiddenTypeOK /\ active' = FALSE /\ key' \in {Raw(base), Zero} /\ pc = "idle"
      /\ ramSalt' \in {ramSalt, [n |-> salt, key |-> Deciphered(base)]} /\ ramSlots' = DecipherAll(slots, key')
      /\ UNCHANGED <<base, magic, salt, slots, card, pc, op, drawn, volumes, latest>>
  BY DEF HiddenInv, OpenUnloaded, Stay, flash, history
<1>2. key' \in Keys /\ ramSalt' \in SaltTerm
  BY <1>1, KeyTypes DEF HiddenTypeOK
<1>3. Genuine' /\ ramSlots' \in [Slots -> Slot \union {Junk}]
  BY <1>1, <1>2, DecipheredIsGenuine
<1>4. opened' \in Setup \union {NoVolume}
  BY <1>1, OpensUnloaded DEF HiddenTypeOK
<1>5. HiddenTypeOK'
  BY <1>1, <1>2, <1>3, <1>4 DEF HiddenTypeOK
<1> QED BY <1>1, <1>3, <1>5 DEF HiddenInv, ActiveFitsFlash, Initialising

LEMMA CloseVolumeKeeps ==
  ASSUME HiddenInv, CloseVolume
  PROVE  HiddenInv'
<1> USE DEF CloseVolume, Stay, flash, ram, history
<1>1. HiddenTypeOK'
  BY DEF HiddenInv, HiddenTypeOK
<1>2. Genuine'
  BY DEF HiddenInv, Genuine
<1>3. ActiveFitsFlash'
  BY DEF HiddenInv, ActiveFitsFlash
<1>4. Initialising'
  BY DEF HiddenInv, Initialising
<1> QED BY <1>1, <1>2, <1>3, <1>4 DEF HiddenInv

\* EraseLocalFlashKeyValues_u32
LEMMA Erased ==
  ASSUME EraseFlash, HiddenInv, UNCHANGED <<active, key, ramSalt, ramSlots, latest>>
  PROVE  /\ base' \in Draw /\ magic' \in BOOLEAN /\ salt' \in Draw /\ slots' \in [Slots -> Slot \union {Junk}]
         /\ ~magic' /\ Genuine' /\ ActiveFitsFlash'
<1>1. 0 \in Draw
  BY HiddenAssumption DEF Draw
<1>2. magic' = FALSE /\ slots' = AllJunk /\ slots' \in [Slots -> Slot \union {Junk}]
  BY AllJunkType DEF EraseFlash
<1> QED BY <1>1, <1>2 DEF EraseFlash, HiddenInv, Genuine, AllJunk, ActiveFitsFlash

LEMMA GenerateNewKeysKeeps ==
  ASSUME HiddenInv, GenerateNewKeys
  PROVE  HiddenInv'
<1>1. /\ HiddenTypeOK /\ EraseFlash /\ pc = "idle"
      /\ UNCHANGED <<card, active, key, ramSalt, ramSlots, drawn, volumes, latest>>
      /\ \/ pc' = "base" /\ op' = "generate" /\ opened' = NoVolume
         \/ UNCHANGED <<pc, op, opened>>
  BY DEF HiddenInv, GenerateNewKeys, Stay, ram, history
<1>2. HiddenTypeOK'
  BY <1>1, Erased DEF HiddenTypeOK
<1>3. Initialising'
  BY <1>1, Erased DEF Initialising
<1> QED BY <1>1, <1>2, <1>3, Erased DEF HiddenInv

LEMMA FactoryResetKeeps ==
  ASSUME HiddenInv, FactoryReset
  PROVE  HiddenInv'
<1>1. /\ HiddenTypeOK /\ EraseFlash /\ pc = "idle" /\ card' = "on"
      /\ UNCHANGED <<pc, op, active, key, ramSalt, ramSlots, opened, drawn, volumes, latest>>
  BY DEF HiddenInv, FactoryReset, Stay, ram, history
<1>2. HiddenTypeOK'
  BY <1>1, Erased DEF HiddenTypeOK
<1>3. Initialising'
  BY <1>1, Erased DEF Initialising
<1> QED BY <1>1, <1>2, <1>3, Erased DEF HiddenInv

LEMMA PowerCutKeeps ==
  ASSUME HiddenInv, PowerCut
  PROVE  HiddenInv'
<1>1. /\ active' = FALSE /\ pc' = "idle" /\ UNCHANGED <<drawn, volumes, latest>>
      /\ slots' \in {slots, AllJunk} /\ ramSlots' = AllJunk
  BY DEF PowerCut, flash, history
<1>2. HiddenTypeOK'
  <2>1. 0 \in Draw
    BY HiddenAssumption DEF Draw
  <2>2. base' \in Draw /\ magic' \in BOOLEAN /\ salt' \in Draw /\ slots' \in [Slots -> Slot \union {Junk}]
    BY <2>1, AllJunkType DEF HiddenInv, HiddenTypeOK, PowerCut, flash
  <2> QED BY <1>1, <2>2, KeyTypes, AllJunkType DEF HiddenInv, HiddenTypeOK, PowerCut
<1>3. ActiveFitsFlash' /\ Initialising'
  BY <1>1 DEF ActiveFitsFlash, Initialising
<1>4. Genuine'
  BY <1>1 DEF HiddenInv, Genuine, AllJunk
<1> QED BY <1>2, <1>3, <1>4 DEF HiddenInv

\* A setup writes what it set up to its slot, and to the others what it had of them.
LEMMA SetupIsGenuine ==
  ASSUME HiddenInv, NEW i \in Slots, NEW p \in Passwords, NEW all \in [Slots -> Slot \union {Junk}],
         \A j \in Slots : all[j] # Junk => latest[j] = [volume |-> all[j].volume, password |-> all[j].inner.password],
         key' \in Keys, ramSlots' = NewSlot(i, p, all), slots' = ramSlots', Answered(i, p)
  PROVE  /\ Genuine' /\ slots' \in [Slots -> Slot \union {Junk}]
         /\ slots'[i] = [volume |-> volumes + 1, outer |-> <<PutOn(key')>>,
                         inner |-> [password |-> p, salt |-> ramSalt]]
         /\ latest'[i] = [volume |-> volumes + 1, password |-> p]
         /\ \A j \in Slots \ {i} : slots'[j] = Encipher(all[j], key') /\ latest'[j] = latest[j]
         /\ volumes' \in 0 .. MaxVolumes /\ latest' \in [Slots -> Setup \union {NoVolume}]
<1>1. HiddenTypeOK /\ volumes < MaxVolumes /\ latest \in [Slots -> Setup \union {NoVolume}]
  BY DEF HiddenInv, HiddenTypeOK, Answered
<1>2. /\ slots' \in [Slots -> Slot \union {Junk}]
      /\ slots'[i] = [volume |-> volumes + 1, outer |-> <<PutOn(key')>>,
                      inner |-> [password |-> p, salt |-> ramSalt]]
      /\ \A j \in Slots \ {i} : slots'[j] = Encipher(all[j], key')
  BY <1>1, NewSlotIs
<1>3. volumes + 1 \in 1 .. MaxVolumes /\ volumes' = volumes + 1
  BY <1>1, HiddenAssumption DEF HiddenTypeOK, Answered
<1>4. /\ latest'[i] = [volume |-> volumes + 1, password |-> p]
      /\ \A j \in Slots \ {i} : latest'[j] = latest[j]
      /\ latest' \in [Slots -> Setup \union {NoVolume}]
  BY <1>1, <1>3 DEF Answered, Setup
<1>5. ASSUME NEW j \in Slots, slots'[j] # Junk
      PROVE  latest'[j] = [volume |-> slots'[j].volume, password |-> slots'[j].inner.password]
  <2>1. CASE j = i
    BY <1>2, <1>4, <2>1
  <2>2. CASE j # i
    <3>1. all[j] \in Slot \union {Junk} /\ slots'[j] = Encipher(all[j], key')
      BY <1>2, <2>2
    <3>2. all[j] # Junk /\ slots'[j].volume = all[j].volume /\ slots'[j].inner = all[j].inner
      BY <1>5, <3>1, EncipherIs
    <3> QED BY <1>4, <2>2, <3>2
  <2> QED BY <2>1, <2>2
<1>6. Genuine'
  BY <1>5 DEF Genuine
<1> QED BY <1>2, <1>3, <1>4, <1>6

\* What WriteSlot writes
LEMMA WriteSlotIs ==
  ASSUME HiddenInv, NEW i \in Slots, NEW p \in Passwords, WriteSlot(i, p)
  PROVE  /\ Genuine' /\ slots' \in [Slots -> Slot \union {Junk}] /\ key' \in Keys /\ key' = Deciphered(base)
         /\ slots'[i] = [volume |-> volumes + 1, outer |-> <<PutOn(key')>>,
                         inner |-> [password |-> p, salt |-> ramSalt]]
         /\ latest'[i] = [volume |-> volumes + 1, password |-> p]
         /\ \A j \in Slots \ {i} : /\ slots'[j] = Encipher(Decipher(slots[j], key'), key')
                                    /\ latest'[j] = latest[j]
         /\ volumes' \in 0 .. MaxVolumes /\ latest' \in [Slots -> Setup \union {NoVolume}]
<1> DEFINE all == DecipherAll(slots, key')
<1>1. /\ slots \in [Slots -> Slot \union {Junk}] /\ Genuine /\ key' = Deciphered(base) /\ key' \in Keys
      /\ ramSlots' = NewSlot(i, p, all) /\ slots' = ramSlots' /\ Answered(i, p)
  BY KeyTypes DEF HiddenInv, HiddenTypeOK, WriteSlot
<1>2. all \in [Slots -> Slot \union {Junk}] /\ \A j \in Slots : all[j] = Decipher(slots[j], key')
  BY <1>1, DecipherAllType
<1>3. ASSUME NEW j \in Slots, all[j] # Junk
      PROVE  latest[j] = [volume |-> all[j].volume, password |-> all[j].inner.password]
  <2>1. slots[j] \in Slot \union {Junk} /\ all[j] = Decipher(slots[j], key')
    BY <1>1, <1>2
  <2>2. slots[j] # Junk /\ all[j].volume = slots[j].volume /\ all[j].inner = slots[j].inner
    BY <1>1, <1>3, <2>1, DecipherIs
  <2> QED BY <1>1, <2>2 DEF Genuine
<1> HIDE DEF all
<1>4. /\ Genuine' /\ slots' \in [Slots -> Slot \union {Junk}]
      /\ slots'[i] = [volume |-> volumes + 1, outer |-> <<PutOn(key')>>,
                      inner |-> [password |-> p, salt |-> ramSalt]]
      /\ latest'[i] = [volume |-> volumes + 1, password |-> p]
      /\ \A j \in Slots \ {i} : slots'[j] = Encipher(all[j], key') /\ latest'[j] = latest[j]
      /\ volumes' \in 0 .. MaxVolumes /\ latest' \in [Slots -> Setup \union {NoVolume}]
  BY <1>1, <1>2, <1>3, SetupIsGenuine
<1> QED BY <1>1, <1>2, <1>4

LEMMA WriteSlotKeeps ==
  ASSUME HiddenInv, NEW i \in Slots, NEW p \in Passwords, WriteSlot(i, p)
  PROVE  HiddenInv'
<1>1. /\ HiddenTypeOK /\ active' = TRUE /\ key' = Deciphered(base) /\ ramSalt' = [n |-> salt, key |-> key']
      /\ ramSlots' = slots' /\ pc' = "idle" /\ op' = "none"
      /\ UNCHANGED <<base, magic, salt, card, opened, drawn>>
  BY DEF HiddenInv, WriteSlot, Answered
<1>2. key' \in Keys /\ ramSalt' \in SaltTerm
  BY <1>1, KeyTypes DEF HiddenTypeOK
<1>3. HiddenTypeOK'
  BY <1>1, <1>2, WriteSlotIs DEF HiddenTypeOK
<1> QED BY <1>1, <1>3, WriteSlotIs DEF HiddenInv, ActiveFitsFlash, Initialising

LEMMA WriteSlotUnloadedKeeps ==
  ASSUME HiddenInv, NEW i \in Slots, NEW p \in Passwords, WriteSlotUnloaded(i, p)
  PROVE  HiddenInv'
<1>1. /\ HiddenTypeOK /\ active' = FALSE /\ key' \in {Raw(base), Zero} /\ ramSalt' = ramSalt
      /\ ramSlots' = NewSlot(i, p, ramSlots) /\ slots' = ramSlots' /\ pc' = "idle" /\ op' = "none"
      /\ UNCHANGED <<base, magic, salt, card, opened, drawn>> /\ Answered(i, p)
  BY DEF HiddenInv, WriteSlotUnloaded, Answered
<1>2. key' \in Keys /\ ramSlots \in [Slots -> Slot \union {Junk}]
  BY <1>1, KeyTypes DEF HiddenTypeOK
<1>3. \A j \in Slots :
        ramSlots[j] # Junk => latest[j] = [volume |-> ramSlots[j].volume, password |-> ramSlots[j].inner.password]
  BY DEF HiddenInv, Genuine
<1>4. /\ Genuine' /\ slots' \in [Slots -> Slot \union {Junk}]
      /\ volumes' \in 0 .. MaxVolumes /\ latest' \in [Slots -> Setup \union {NoVolume}]
  BY <1>1, <1>2, <1>3, SetupIsGenuine
<1>5. HiddenTypeOK'
  BY <1>1, <1>2, <1>4 DEF HiddenTypeOK
<1> QED BY <1>1, <1>4, <1>5 DEF HiddenInv, ActiveFitsFlash, Initialising

LEMMA HiddenStarts == HiddenInit => HiddenInv
<1> SUFFICES ASSUME HiddenInit PROVE HiddenInv
  OBVIOUS
<1>1. HiddenTypeOK
  <2>1. 0 \in Draw /\ 0 \in 0 .. MaxVolumes
    BY HiddenAssumption DEF Draw
  <2> QED BY <2>1, KeyTypes, AllJunkType DEF HiddenInit, HiddenTypeOK
<1> QED BY <1>1 DEF HiddenInit, HiddenInv, Genuine, AllJunk, ActiveFitsFlash, Initialising

LEMMA HiddenSteps == HiddenInv /\ [HiddenNext]_hiddenVars => HiddenInv'
<1> SUFFICES ASSUME HiddenInv, [HiddenNext]_hiddenVars PROVE HiddenInv'
  OBVIOUS
<1>1. CASE Unlock \/ VerifyPin \/ LockDevice \/ HostPowersCard
  BY <1>1, UnlockKeeps, VerifyPinKeeps, LockDeviceKeeps, HostPowersCardKeeps
<1>2. CASE NewBase \/ DrawSlots \/ FillSlots
  BY <1>2, NewBaseKeeps, DrawSlotsKeeps, FillSlotsKeeps
<1>3. CASE BeginSetup \/ DecryptSlots \/ SetupRefused
  BY <1>3, BeginSetupKeeps, DecryptSlotsKeeps, SetupRefusedKeeps
<1>4. CASE \E i \in Slots, p \in Passwords : WriteSlot(i, p) \/ WriteSlotUnloaded(i, p)
  BY <1>4, WriteSlotKeeps, WriteSlotUnloadedKeeps
<1>5. CASE \E p \in Passwords : OpenVolume(p) \/ \E k \in Slots : OpenUnloaded(k, p)
  BY <1>5, OpenVolumeKeeps, OpenUnloadedKeeps
<1>6. CASE CloseVolume \/ GenerateNewKeys \/ FactoryReset \/ PowerCut
  BY <1>6, CloseVolumeKeeps, GenerateNewKeysKeeps, FactoryResetKeeps, PowerCutKeeps
<1>7. CASE UNCHANGED hiddenVars
  BY <1>7 DEF HiddenInv, HiddenTypeOK, Genuine, ActiveFitsFlash, Initialising, hiddenVars
<1> QED BY <1>1, <1>2, <1>3, <1>4, <1>5, <1>6, <1>7 DEF HiddenNext

\* The inductive invariant of the hidden slots holds of every behaviour.
THEOREM HiddenInvariant == HiddenSpec => []HiddenInv
BY HiddenStarts, HiddenSteps, PTL DEF HiddenSpec

\* The page of the slots, its copy in RAM and the command under way keep their types, for any number of
\* slots, passwords, setups and draws.
THEOREM HiddenTypeCorrect == HiddenSpec => []HiddenTypeOK
BY HiddenInvariant, PTL DEF HiddenInv

\* A loaded setup leaves every other volume as it was, and its own to be opened.
LEMMA WriteSlotKeepsVolumes ==
  ASSUME HiddenInv, NEW i \in Slots, NEW p \in Passwords, WriteSlot(i, p), NEW j \in Slots
  PROVE  /\ magic /\ latest'[j] # latest[j] => Kept(j)'
         /\ Kept(j) /\ latest'[j] = latest[j] => Kept(j)'
<1>1. active /\ UNCHANGED <<base, magic, salt>> /\ volumes + 1 # 0
  BY HiddenAssumption DEF HiddenInv, HiddenTypeOK, Initialising, WriteSlot, Answered
<1>2. CASE j = i
  <2> SUFFICES ASSUME magic PROVE Kept(j)'
    BY DEF Kept
  <2>1. ramSalt = [n |-> salt, key |-> Deciphered(base)]
    BY <1>1 DEF HiddenInv, ActiveFitsFlash
  <2>2. /\ slots'[j] = [volume |-> volumes + 1, outer |-> <<PutOn(Deciphered(base))>>,
                        inner |-> [password |-> p, salt |-> [n |-> salt, key |-> Deciphered(base)]]]
        /\ latest'[j] = [volume |-> volumes + 1, password |-> p]
    <3>1. key' = Deciphered(base)
      BY WriteSlotIs
    <3>2. slots'[i] = [volume |-> volumes + 1, outer |-> <<PutOn(key')>>,
                       inner |-> [password |-> p, salt |-> ramSalt]]
      BY WriteSlotIs
    <3>3. latest'[i] = [volume |-> volumes + 1, password |-> p]
      BY WriteSlotIs
    <3> QED BY <1>2, <2>1, <3>1, <3>2, <3>3
  <2>3. latest'[j].volume = volumes + 1 /\ latest'[j].password = p /\ latest'[j] # NoVolume
    BY <1>1, <2>2 DEF NoVolume
  <2> QED BY <1>1, <2>2, <2>3 DEF Kept
<1>3. CASE j # i
  <2>1. latest'[j] = latest[j] /\ slots'[j] = Encipher(Decipher(slots[j], key'), key') /\ key' = Deciphered(base)
        /\ key' \in Keys
    BY <1>3, WriteSlotIs
  <2> SUFFICES ASSUME Kept(j) PROVE Kept(j)'
    BY <2>1
  <2>2. slots[j] \in Slot
    <3>1. slots[j] \in Slot \union {Junk}
      BY DEF HiddenInv, HiddenTypeOK
    <3>2. slots[j] # Junk
      BY DEF Kept, Junk
    <3> QED BY <3>1, <3>2
  <2>3. slots[j].outer = <<PutOn(key')>>
    BY <2>1 DEF Kept
  <2>4. slots'[j] = slots[j]
    BY <2>1, <2>2, <2>3, EncipheredAgain
  <2> QED BY <1>1, <2>1, <2>4 DEF Kept
<1> QED BY <1>2, <1>3

\* HV_WriteSlot_u8 enciphers all slots again to set up one: each of the others still opens the volume it
\* was set up with, and so does the one set up; nothing else that a command does, a setup that could not
\* load the slots, new keys and a reset excepted, takes a volume away.
THEOREM SlotsKeepVolumes == HiddenSpec => VolumesAreKept
<1>1. HiddenInv /\ [HiddenNext]_hiddenVars =>
        [~TakesVolumes =>
           \A i \in Slots :
             /\ magic /\ latest'[i] # latest[i] /\ latest'[i] # NoVolume => Kept(i)'
             /\ Kept(i) /\ latest'[i] = latest[i] => Kept(i)']_hiddenVars
  <2> SUFFICES ASSUME HiddenInv, HiddenNext, ~TakesVolumes, NEW j \in Slots
               PROVE  /\ magic /\ latest'[j] # latest[j] /\ latest'[j] # NoVolume => Kept(j)'
                      /\ Kept(j) /\ latest'[j] = latest[j] => Kept(j)'
    OBVIOUS
  <2>1. CASE UNCHANGED <<base, magic, salt, slots, latest>>
    BY <2>1 DEF Kept
  <2>2. CASE NewBase \/ DrawSlots
    BY <2>2 DEF NewBase, DrawSlots, HiddenInv, Initialising, Kept
  <2>3. CASE FillSlots
    BY <2>3 DEF FillSlots, Kept
  <2>4. CASE \E i \in Slots, p \in Passwords : WriteSlot(i, p)
    BY <2>4, WriteSlotKeepsVolumes
  <2>5. CASE \/ Unlock \/ VerifyPin \/ LockDevice \/ HostPowersCard \/ BeginSetup \/ DecryptSlots \/ SetupRefused
             \/ \E p \in Passwords : OpenVolume(p) \/ \E k \in Slots : OpenUnloaded(k, p)
             \/ CloseVolume
    <3>1. UNCHANGED <<base, magic, salt, slots, latest>>
      BY <2>5 DEF Unlock, VerifyPin, LockDevice, HostPowersCard, BeginSetup, DecryptSlots, SetupRefused, OpenVolume,
        OpenUnloaded, CloseVolume, flash, history
    <3> QED BY <2>1, <3>1
  <2> QED BY <2>2, <2>3, <2>4, <2>5 DEF HiddenNext, TakesVolumes
<1> QED BY <1>1, HiddenInvariant, PTL DEF HiddenSpec, VolumesAreKept

\* While HV_DecryptedHiddenVolumeSlotsActive_u8 is set, key and salt in RAM are those that flash deciphers to.
THEOREM RamFitsFlash == HiddenSpec => []ActiveFitsFlash
BY HiddenInvariant, PTL DEF HiddenInv

\* The volume that a password opens, first slot that fits or not, is the one its slot was last set up with,
\* under this password: failures of the card, cuts of power and slots under any key make no other one open.
THEOREM OpensOnlyWhatWasSet == HiddenSpec => OpensWhatWasSet
<1>1. HiddenInv /\ [HiddenNext]_hiddenVars =>
        [opened' # opened /\ opened' # NoVolume => \E i \in Slots : latest[i] = opened']_hiddenVars
  <2> SUFFICES ASSUME HiddenInv, HiddenNext, opened' # opened, opened' # NoVolume
               PROVE  \E i \in Slots : latest[i] = opened'
    OBVIOUS
  <2>1. \E p \in Passwords : OpenVolume(p) \/ \E k \in Slots : OpenUnloaded(k, p)
    BY DEF HiddenNext, Unlock, VerifyPin, LockDevice, HostPowersCard, NewBase, DrawSlots, FillSlots, BeginSetup,
      DecryptSlots, SetupRefused, WriteSlot, WriteSlotUnloaded, Answered, CloseVolume, GenerateNewKeys,
      FactoryReset, PowerCut, Stay
  <2> QED BY <2>1, OpensFitting, OpensUnloaded
<1> QED BY <1>1, HiddenInvariant, PTL DEF HiddenSpec, OpensWhatWasSet

-----------------------------------------------------------------------------
(* VolumeAccess *)

USE AccessAssumption

\* Steps that the command under way has still to do
Left == Len(todo)
During(c, steps) == cmd = c /\ Left \in steps

\* What is left to do is the end of the program.
OfProgram ==
  IF cmd = "none" THEN todo = <<>>
  ELSE /\ Left <= Len(Program[cmd])
       /\ \A i \in 1 .. Left : todo[i] = Program[cmd][Len(Program[cmd]) - Left + i]

\* LUN 0 is off, LUN 1 is off
CryptedOff ==
  \/ During("open", 1 .. 5) \/ During("openHidden", 1 .. 8)
  \/ During("close", 0 .. 3) \/ During("closeHidden", 0 .. 4)
  \/ During("plainReadOnly", 0 .. 3) \/ During("plainReadWrite", 0 .. 3)
PlainOff ==
  \/ During("plainReadOnly", 1 .. 4) \/ During("plainReadWrite", 1 .. 4)
  \/ During("export", 1 .. 2)
LunsOff == (CryptedOff => ~lun[0]) /\ (PlainOff => ~lun[1])

\* What a command that opens a volume has set
Opening ==
  /\ During("open", 0 .. 6) => ~hidden
  /\ During("open", {2}) => cipherKey.low = Crypted
  /\ During("open", {1}) => cipherKey = Whole(Crypted)
  /\ cmd = "openHidden" => target \in HiddenSlots
  /\ During("openHidden", 0 .. 9) => range = target
  /\ During("openHidden", {3}) => cipherKey.low = target
  /\ During("openHidden", 1 .. 2) => cipherKey = Whole(target)
  /\ During("openHidden", {1}) => hidden

\* Between these two steps the volume or the key changes while LUN 0 may be on.
Turning == During("open", {6}) \/ During("openHidden", {9})
Filling == During("fill", {1, 2})

KeyFits == lun[0] /\ ~filled /\ ~Turning /\ ~Filling => cipherKey = Whole(Selected)

\* A host that tests its units has noticed that LUN 0 is off before it is switched on again.
HostFits ==
  /\ host[1] \in {Plain, "ready", None} /\ host[0] \in Volume \union {"ready", None}
  /\ HostPolls => 
     /\ During("open", 1 .. 4) \/ During("openHidden", 1 .. 4) => host[0] = None /\ (xfer # None => xfer.lun # 0)
     /\ lun[0] /\ ~Turning /\ host[0] \in Volume => host[0] = Selected
     /\ lun[0] /\ ~Turning /\ xfer # None /\ xfer.lun = 0 /\ xfer.calm =>
          xfer.mounted = Selected /\ xfer.place \in {None, Selected}
  /\ xfer # None /\ xfer.lun = 1 => xfer.mounted = Plain /\ xfer.place \in {None, Plain}

CalmIsIdle == xfer # None /\ xfer.calm => Idle

\* A write that has passed the test of write protection is not under way any more when the command ends.
NoLateWrite ==
  HostPolls /\ xfer # None /\ xfer.write /\ ~writable[xfer.lun] =>
    During("plainReadOnly", {2}) /\ xfer.lun = 1

AccessInv ==
  AccessTypeOK /\ OfProgram /\ LunsOff /\ Opening /\ KeyFits /\ HostFits /\ CalmIsIdle /\ NoLateWrite

\* The steps of each command
LEMMA Lengths ==
  /\ DOMAIN Program = {"open", "openHidden", "close", "closeHidden", "fill", "plainReadOnly", "plainReadWrite",
                       "export"}
  /\ Len(Program["open"]) = 7 /\ Len(Program["openHidden"]) = 10
  /\ Len(Program["close"]) = 4 /\ Len(Program["closeHidden"]) = 5 /\ Len(Program["fill"]) = 3
  /\ Len(Program["plainReadOnly"]) = 5 /\ Len(Program["plainReadWrite"]) = 5
  /\ Len(Program["export"]) = 3
BY DEF Program, OpenCrypted, OpenHidden, Close, CloseHidden, Fill, PlainMode, Export

LEMMA ProgramSteps == \A c \in DOMAIN Program : Program[c] \in Seq(Step) /\ Program[c] # <<>>
<1> SUFFICES ASSUME NEW c \in DOMAIN Program PROVE Program[c] \in Seq(Step) /\ Program[c] # <<>>
  OBVIOUS
<1>1. CASE c = "open"
  BY <1>1 DEF Program, OpenCrypted, Step
<1>2. CASE c = "openHidden"
  BY <1>2 DEF Program, OpenHidden, Step
<1>3. CASE c = "close"
  BY <1>3 DEF Program, Close, Step
<1>4. CASE c = "closeHidden"
  BY <1>4 DEF Program, CloseHidden, Step
<1>5. CASE c = "fill"
  BY <1>5 DEF Program, Fill, Step
<1>6. CASE c = "plainReadOnly"
  BY <1>6 DEF Program, PlainMode, Step
<1>7. CASE c = "plainReadWrite"
  BY <1>7 DEF Program, PlainMode, Step
<1>8. CASE c = "export"
  BY <1>8 DEF Program, Export, Step
<1> QED BY <1>1, <1>2, <1>3, <1>4, <1>5, <1>6, <1>7, <1>8, Lengths

\* Where a step stands: the last of a command is number 1.
From(c, n) == Program[c][Len(Program[c]) - n + 1]

LEMMA OpenSteps ==
  ASSUME NEW n \in 1 .. 7
  PROVE  From("open", n) = CASE n = 7 -> "show" [] n = 6 -> "off" [] n = 5 -> "wait" [] n = 4 -> "fetch"
                             [] n = 3 -> "keyLow" [] n = 2 -> "keyHigh" [] n = 1 -> "on"
BY Lengths DEF From, Program, OpenCrypted

LEMMA OpenHiddenSteps ==
  ASSUME NEW n \in 1 .. 10
  PROVE  From("openHidden", n) =
           CASE n = 10 -> "range" [] n = 9 -> "off" [] n = 8 -> "show" [] n = 7 -> "dummyLow" [] n = 6 -> "dummyHigh"
             [] n = 5 -> "wait" [] n = 4 -> "keyLow" [] n = 3 -> "keyHigh" [] n = 2 -> "hide" [] n = 1 -> "on"
BY Lengths DEF From, Program, OpenHidden

LEMMA CloseSteps ==
  /\ \A n \in 1 .. 4 : From("close", n) =
       CASE n = 4 -> "off" [] n = 3 -> "show" [] n = 2 -> "dummyLow" [] n = 1 -> "dummyHigh"
  /\ \A n \in 1 .. 5 : From("closeHidden", n) =
       CASE n = 5 -> "off" [] n = 4 -> "show" [] n = 3 -> "dummyLow" [] n = 2 -> "dummyHigh" [] n = 1 -> "wait"
  /\ \A n \in 1 .. 3 : From("fill", n) = CASE n = 3 -> "dummyLow" [] n = 2 -> "dummyHigh" [] n = 1 -> "fill"
BY Lengths DEF From, Program, Close, CloseHidden, Fill

LEMMA ModeSteps ==
  /\ \A c \in {"plainReadOnly", "plainReadWrite"}, n \in 1 .. 5 : From(c, n) =
       CASE n = 5 -> "plainOff" [] n = 4 -> "off" [] n = 3 -> c [] n = 2 -> "wait" [] n = 1 -> "plainOn"
  /\ \A n \in 1 .. 3 : From("export", n) = CASE n = 3 -> "plainOff" [] n = 2 -> "wait" [] n = 1 -> "plainOn"
BY Lengths DEF From, Program, PlainMode, Export

LEMMA NextStep ==
  ASSUME AccessTypeOK, OfProgram, ~Idle
  PROVE  /\ cmd \in DOMAIN Program /\ Left \in 1 .. Len(Program[cmd])
         /\ Head(todo) = From(cmd, Left)
         /\ Tail(todo) \in Seq(Step) /\ Len(Tail(todo)) = Left - 1
         /\ \A i \in 1 .. Left - 1 : Tail(todo)[i] = todo[i + 1]
<1>1. todo \in Seq(Step) /\ todo # <<>> /\ cmd \in DOMAIN Program
  BY DEF AccessTypeOK, OfProgram, Idle
<1>2. /\ Tail(todo) \in Seq(Step) /\ Len(Tail(todo)) = Left - 1
      /\ \A i \in 1 .. Left - 1 : Tail(todo)[i] = todo[i + 1]
  BY <1>1, HeadTailProperties DEF Left
<1>3. Left \in Nat \ {0} /\ Head(todo) = todo[1]
  BY <1>1 DEF Left
<1>4. cmd # "none"
  BY <1>1, Lengths
<1>5. Left <= Len(Program[cmd]) /\ todo[1] = Program[cmd][Len(Program[cmd]) - Left + 1]
  BY <1>3, <1>4 DEF OfProgram
<1>6. Len(Program[cmd]) \in Nat
  BY <1>1, ProgramSteps
<1> QED BY <1>1, <1>2, <1>3, <1>5, <1>6 DEF From

LEMMA AfterStep ==
  ASSUME AccessTypeOK, OfProgram, ~Idle, todo' = Tail(todo), cmd' = cmd
  PROVE  OfProgram' /\ Left' = Left - 1
<1>1. Left' = Left - 1
  BY NextStep DEF Left
<1>2. /\ cmd \in DOMAIN Program /\ cmd # "none" /\ Left \in 1 .. Len(Program[cmd]) /\ Len(Program[cmd]) \in Nat
  <2>1. cmd \in DOMAIN Program /\ Left \in 1 .. Len(Program[cmd])
    BY NextStep
  <2>2. cmd # "none"
    BY <2>1, Lengths
  <2>3. Len(Program[cmd]) \in Nat
    BY <2>1, ProgramSteps
  <2> QED BY <2>1, <2>2, <2>3
<1>3. ASSUME NEW i \in 1 .. Left - 1
      PROVE  todo'[i] = Program[cmd][Len(Program[cmd]) - (Left - 1) + i]
  <2>1. todo'[i] = todo[i + 1] /\ i + 1 \in 1 .. Left
    BY <1>2, NextStep
  <2>2. todo[i + 1] = Program[cmd][Len(Program[cmd]) - Left + (i + 1)]
    BY <1>2, <2>1 DEF OfProgram
  <2>3. Len(Program[cmd]) - Left + (i + 1) = Len(Program[cmd]) - (Left - 1) + i
    BY <1>2
  <2> QED BY <2>1, <2>2, <2>3
<1>4. Left' <= Len(Program[cmd']) /\ \A i \in 1 .. Left' : todo'[i] = Program[cmd'][Len(Program[cmd']) - Left' + i]
  <2>1. Left' \in Nat /\ Left' <= Len(Program[cmd])
    BY <1>1, <1>2
  <2>2. ASSUME NEW i \in 1 .. Left' PROVE todo'[i] = Program[cmd][Len(Program[cmd]) - Left' + i]
    <3>1. i \in 1 .. Left - 1
      BY <1>1
    <3> QED BY <1>1, <1>3, <3>1
  <2> QED BY <2>1, <2>2
<1>5. cmd' # "none"
  BY <1>2
<1> QED BY <1>1, <1>4, <1>5 DEF OfProgram

LEMMA Taken ==
  ASSUME AccessTypeOK, OfProgram, NEW s, Do(s)
  PROVE  OfProgram' /\ todo' \in Seq(Step) /\ Left \in Nat \ {0} /\ Left' = Left - 1 /\ ~Idle /\ Head(todo) = s
BY NextStep, AfterStep, ProgramSteps DEF Do

LEMMA Where ==
  ASSUME AccessTypeOK, OfProgram, ~Idle, NEW s, Head(todo) = s
  PROVE  /\ s = "off" => \/ During("open", {6}) \/ During("openHidden", {9}) \/ During("close", {4})
                         \/ During("closeHidden", {5}) \/ During("plainReadOnly", {4}) \/ During("plainReadWrite", {4})
         /\ s = "on" => During("open", {1}) \/ During("openHidden", {1})
         /\ s = "plainOff" => \/ During("plainReadOnly", {5}) \/ During("plainReadWrite", {5})
                              \/ During("export", {3})
         /\ s = "plainOn" => \/ During("plainReadOnly", {1}) \/ During("plainReadWrite", {1})
                             \/ During("export", {1})
         /\ s = "show" => \/ During("open", {7}) \/ During("openHidden", {8}) \/ During("close", {3})
                          \/ During("closeHidden", {4})
         /\ s = "hide" => During("openHidden", {2})
         /\ s = "range" => During("openHidden", {10})
         /\ s = "keyLow" => During("open", {3}) \/ During("openHidden", {4})
         /\ s = "keyHigh" => During("open", {2}) \/ During("openHidden", {3})
         /\ s = "dummyLow" => \/ During("openHidden", {7}) \/ During("close", {2}) \/ During("closeHidden", {3})
                              \/ During("fill", {3})
         /\ s = "dummyHigh" => \/ During("openHidden", {6}) \/ During("close", {1}) \/ During("closeHidden", {2})
                               \/ During("fill", {2})
         /\ s \in {"plainReadOnly", "plainReadWrite"} => During(s, {3})
         /\ s = "wait" => \/ During("open", {5}) \/ During("openHidden", {5}) \/ During("closeHidden", {1})
                          \/ During("plainReadOnly", {2}) \/ During("plainReadWrite", {2})
                          \/ During("export", {2})
         /\ s = "fetch" => During("open", {4})
         /\ s = "fill" => During("fill", {1})
<1>1. cmd \in DOMAIN Program /\ Left \in 1 .. Len(Program[cmd]) /\ s = From(cmd, Left)
  BY NextStep
<1>2. CASE cmd = "open"
  <2>1. Left \in 1 .. 7
    BY <1>1, <1>2, Lengths
  <2> QED BY <1>1, <1>2, <2>1, OpenSteps DEF During
<1>3. CASE cmd = "openHidden"
  <2>1. Left \in 1 .. 10
    BY <1>1, <1>3, Lengths
  <2> QED BY <1>1, <1>3, <2>1, OpenHiddenSteps DEF During
<1>4. CASE cmd \in {"close", "closeHidden", "fill"}
  <2>1. Left \in 1 .. IF cmd = "close" THEN 4 ELSE IF cmd = "closeHidden" THEN 5 ELSE 3
    BY <1>1, <1>4, Lengths
  <2> QED BY <1>1, <1>4, <2>1, CloseSteps DEF During
<1>5. CASE cmd \in {"plainReadOnly", "plainReadWrite"}
  <2>1. Left \in 1 .. 5
    BY <1>1, <1>5, Lengths
  <2> QED BY <1>1, <1>5, <2>1, ModeSteps DEF During
<1>6. CASE cmd = "export"
  <2>1. Left \in 1 .. 3
    BY <1>1, <1>6, Lengths
  <2> QED BY <1>1, <1>6, <2>1, ModeSteps DEF During
<1> QED BY <1>1, <1>2, <1>3, <1>4, <1>5, <1>6, Lengths

\* Nothing that a command does has begun.
Prepared == During("open", 0 .. 6) \/ During("openHidden", 0 .. 9)

\* A command that has begun, and has done nothing yet
Begun ==
  \/ cmd = "open" /\ Left = 7
  \/ cmd = "openHidden" /\ Left = 10
  \/ cmd = "close" /\ Left = 4
  \/ cmd = "closeHidden" /\ Left = 5
  \/ cmd \in {"fill", "export"} /\ Left = 3
  \/ cmd \in {"plainReadOnly", "plainReadWrite"} /\ Left = 5

LEMMA BegunDidNothing ==
  ASSUME Begun'
  PROVE  ~CryptedOff' /\ ~PlainOff' /\ ~Turning' /\ ~Filling' /\ ~Prepared'
<1>1. ~CryptedOff'
  BY DEF Begun, During, CryptedOff
<1>2. ~PlainOff'
  BY DEF Begun, During, PlainOff
<1>3. ~Turning' /\ ~Filling'
  BY DEF Begun, During, Turning, Filling
<1>4. ~Prepared'
  BY DEF Begun, During, Prepared
<1> QED BY <1>1, <1>2, <1>3, <1>4

LEMMA OpeningStarts ==
  ASSUME ~Prepared', cmd' = "openHidden" => target' \in HiddenSlots
  PROVE  Opening'
BY DEF Opening, Prepared, During

LEMMA Begins ==
  ASSUME NEW c \in DOMAIN Program, cmd' = c, Left' = Len(Program[c])
  PROVE  Begun'
<1>1. CASE c = "open"
  BY <1>1, Lengths DEF Begun
<1>2. CASE c = "openHidden"
  BY <1>2, Lengths DEF Begun
<1>3. CASE c = "close"
  BY <1>3, Lengths DEF Begun
<1>4. CASE c = "closeHidden"
  BY <1>4, Lengths DEF Begun
<1>5. CASE c \in {"fill", "export"}
  BY <1>5, Lengths DEF Begun
<1>6. CASE c \in {"plainReadOnly", "plainReadWrite"}
  BY <1>6, Lengths DEF Begun
<1> QED BY <1>1, <1>2, <1>3, <1>4, <1>5, <1>6, Lengths

LEMMA CommandKeeps ==
  ASSUME AccessInv, NEW c \in DOMAIN Program, NEW slot \in HiddenSlots \union {None}, Command(c, slot)
  PROVE  AccessInv'
<1>1. /\ UNCHANGED <<stick, host, filled>> /\ Idle
      /\ xfer' = IF xfer = None THEN None ELSE [xfer EXCEPT !.calm = FALSE]
      /\ cmd' = c /\ Left' = Len(Program[c]) /\ target' = slot /\ (c = "openHidden" => slot \in HiddenSlots)
  BY Lengths DEF Left, Command
<1>2. ~CryptedOff' /\ ~PlainOff' /\ ~Turning' /\ ~Filling' /\ ~Prepared'
  BY <1>1, Begins, BegunDidNothing
<1>3. AccessTypeOK'
  <2>1. todo' \in Seq(Step) /\ cmd' \in DOMAIN Program
    BY <1>1, ProgramSteps DEF Command
  <2>2. xfer' \in Xfer \union {None}
    BY <1>1 DEF AccessInv, AccessTypeOK, Xfer
  <2> QED BY <1>1, <2>1, <2>2 DEF AccessInv, AccessTypeOK, stick
<1>4. OfProgram'
  <2>1. todo' = Program[c] /\ Program[c] \in Seq(Step) /\ Program[c] # <<>> /\ c # "none"
    <3>1. c # "none"
      BY Lengths
    <3> QED BY <3>1, ProgramSteps DEF Command
  <2>2. Len(Program[c]) \in Nat \ {0}
    BY <2>1
  <2> QED BY <1>1, <2>1, <2>2 DEF OfProgram
<1>5. LunsOff'
  BY <1>2 DEF LunsOff
<1>6. Opening'
  BY <1>1, <1>2, OpeningStarts
<1>7. KeyFits'
  BY <1>1, <1>2 DEF AccessInv, KeyFits, Turning, Filling, Selected, During, stick, Idle, Left
<1>8. HostFits'
  <2>1. ~Turning /\ UNCHANGED Selected
    BY <1>1 DEF Turning, During, Idle, Left, Selected, stick
  <2>2. xfer' # None => xfer # None /\ xfer'.calm = FALSE /\ \A f \in {"lun", "place", "mounted"} : xfer'[f] = xfer[f]
    BY <1>1
  <2>3. ~During("open", 1 .. 4)' /\ ~During("openHidden", 1 .. 4)'
    BY <1>2 DEF Prepared, During
  <2> QED BY <1>1, <2>1, <2>2, <2>3 DEF AccessInv, HostFits, stick
<1>9. CalmIsIdle'
  BY <1>1 DEF CalmIsIdle
<1>10. NoLateWrite'
  BY <1>1 DEF AccessInv, NoLateWrite, During, stick, Idle, Left
<1> QED BY <1>3, <1>4, <1>5, <1>6, <1>7, <1>8, <1>9, <1>10 DEF AccessInv

LEMMA SwitchLunKeeps ==
  ASSUME AccessInv, SwitchLun
  PROVE  AccessInv'
<1>1. ASSUME Do("off"), lun' = [lun EXCEPT ![0] = FALSE], UNCHANGED <<hidden, range, cipherKey, writable, filled>>
      PROVE  AccessInv'
  <2> USE <1>1 DEF Do
  <2>1. /\ OfProgram' /\ todo' \in Seq(Step) /\ Left \in Nat \ {0} /\ Left' = Left - 1 /\ ~Idle
        /\ \/ During("open", {6}) \/ During("openHidden", {9}) \/ During("close", {4}) \/ During("closeHidden", {5})
           \/ During("plainReadOnly", {4}) \/ During("plainReadWrite", {4})
    BY Where, Taken DEF AccessInv
  <2>2. AccessTypeOK'
    BY <2>1 DEF AccessInv, AccessTypeOK
  <2>3. LunsOff'
    BY <2>1 DEF AccessInv, LunsOff, PlainOff, During, Luns, AccessTypeOK
  <2>4. Opening'
    BY <2>1 DEF AccessInv, Opening, During
  <2>5. KeyFits'
    BY <2>1 DEF AccessInv, KeyFits, AccessTypeOK, Luns
  <2>6. HostFits'
    BY <2>1 DEF AccessInv, HostFits, During, AccessTypeOK, Luns
  <2>7. CalmIsIdle'
    BY <2>1 DEF AccessInv, CalmIsIdle
  <2>8. NoLateWrite'
    BY <2>1 DEF AccessInv, NoLateWrite, During
  <2> QED BY <2>1, <2>2, <2>3, <2>4, <2>5, <2>6, <2>7, <2>8 DEF AccessInv
<1>2. ASSUME Do("on"), lun' = [lun EXCEPT ![0] = TRUE], filled' = FALSE,
             UNCHANGED <<hidden, range, cipherKey, writable>>
      PROVE  AccessInv'
  <2> USE <1>2 DEF Do
  <2>1. /\ OfProgram' /\ todo' \in Seq(Step) /\ Left \in Nat \ {0} /\ Left' = Left - 1 /\ ~Idle
        /\ During("open", {1}) \/ During("openHidden", {1})
    BY Where, Taken DEF AccessInv
  <2>2. AccessTypeOK'
    BY <2>1 DEF AccessInv, AccessTypeOK
  <2>3. LunsOff'
    BY <2>1 DEF LunsOff, CryptedOff, PlainOff, During
  <2>4. Opening'
    BY <2>1 DEF AccessInv, Opening, During
  <2>5. KeyFits'
    BY <2>1 DEF AccessInv, KeyFits, Selected, During, Opening
  <2>6. HostFits'
    BY <2>1 DEF AccessInv, HostFits, During, Volume
  <2>7. CalmIsIdle'
    BY <2>1 DEF AccessInv, CalmIsIdle
  <2>8. NoLateWrite'
    BY <2>1 DEF AccessInv, NoLateWrite, During
  <2> QED BY <2>1, <2>2, <2>3, <2>4, <2>5, <2>6, <2>7, <2>8 DEF AccessInv
<1>3. ASSUME Do("plainOff"), lun' = [lun EXCEPT ![1] = FALSE], UNCHANGED <<hidden, range, cipherKey, writable, filled>>
      PROVE  AccessInv'
  <2> USE <1>3 DEF Do
  <2>1. /\ OfProgram' /\ todo' \in Seq(Step) /\ Left \in Nat \ {0} /\ Left' = Left - 1 /\ ~Idle
        /\ \/ During("plainReadOnly", {5}) \/ During("plainReadWrite", {5}) \/ During("export", {3})
    BY Where, Taken DEF AccessInv
  <2>2. AccessTypeOK'
    BY <2>1 DEF AccessInv, AccessTypeOK
  <2>3. LunsOff'
    BY <2>1 DEF AccessInv, LunsOff, CryptedOff, During, Luns, AccessTypeOK
  <2>4. Opening'
    BY <2>1 DEF Opening, During
  <2>5. KeyFits'
    BY <2>1 DEF AccessInv, KeyFits, Turning, Filling, Selected, During
  <2>6. HostFits'
    BY <2>1 DEF AccessInv, HostFits, Turning, Selected, During
  <2>7. CalmIsIdle'
    BY <2>1 DEF AccessInv, CalmIsIdle
  <2>8. NoLateWrite'
    BY <2>1 DEF AccessInv, NoLateWrite, During
  <2> QED BY <2>1, <2>2, <2>3, <2>4, <2>5, <2>6, <2>7, <2>8 DEF AccessInv
<1>4. ASSUME Do("plainOn"), lun' = [lun EXCEPT ![1] = TRUE], UNCHANGED <<hidden, range, cipherKey, writable, filled>>
      PROVE  AccessInv'
  <2> USE <1>4 DEF Do
  <2>1. /\ OfProgram' /\ todo' \in Seq(Step) /\ Left \in Nat \ {0} /\ Left' = Left - 1 /\ ~Idle
        /\ During("plainReadOnly", {1}) \/ During("plainReadWrite", {1}) \/ During("export", {1})
    BY Where, Taken DEF AccessInv
  <2>2. AccessTypeOK'
    BY <2>1 DEF AccessInv, AccessTypeOK
  <2>3. LunsOff'
    BY <2>1 DEF AccessInv, LunsOff, CryptedOff, PlainOff, During
  <2>4. Opening'
    BY <2>1 DEF Opening, During
  <2>5. KeyFits'
    BY <2>1 DEF AccessInv, KeyFits, Turning, Filling, Selected, During
  <2>6. HostFits'
    BY <2>1 DEF AccessInv, HostFits, Turning, Selected, During
  <2>7. CalmIsIdle'
    BY <2>1 DEF AccessInv, CalmIsIdle
  <2>8. NoLateWrite'
    BY <2>1 DEF AccessInv, NoLateWrite, During
  <2> QED BY <2>1, <2>2, <2>3, <2>4, <2>5, <2>6, <2>7, <2>8 DEF AccessInv
<1> QED BY <1>1, <1>2, <1>3, <1>4 DEF SwitchLun

LEMMA SetHiddenKeeps ==
  ASSUME AccessInv, SetHidden
  PROVE  AccessInv'
<1>1. ASSUME Do("show"), hidden' = FALSE, UNCHANGED <<lun, range, cipherKey, writable, filled>>
      PROVE  AccessInv'
  <2> USE <1>1 DEF Do
  <2>1. /\ OfProgram' /\ todo' \in Seq(Step) /\ Left \in Nat \ {0} /\ Left' = Left - 1 /\ ~Idle
        /\ During("open", {7}) \/ During("openHidden", {8}) \/ During("close", {3}) \/ During("closeHidden", {4})
    BY Where, Taken DEF AccessInv
  <2>2. AccessTypeOK'
    BY <2>1 DEF AccessInv, AccessTypeOK
  <2>3. LunsOff'
    BY <2>1 DEF AccessInv, LunsOff, CryptedOff, PlainOff, During
  <2>4. Opening'
    BY <2>1 DEF AccessInv, Opening, During
  <2>5. KeyFits'
    BY <2>1 DEF AccessInv, KeyFits, Turning, During, LunsOff, CryptedOff
  <2>6. HostFits'
    BY <2>1 DEF AccessInv, HostFits, Turning, During, LunsOff, CryptedOff
  <2>7. CalmIsIdle'
    BY <2>1 DEF AccessInv, CalmIsIdle
  <2>8. NoLateWrite'
    BY <2>1 DEF AccessInv, NoLateWrite, During
  <2> QED BY <2>1, <2>2, <2>3, <2>4, <2>5, <2>6, <2>7, <2>8 DEF AccessInv
<1>2. ASSUME Do("hide"), hidden' = TRUE, UNCHANGED <<lun, range, cipherKey, writable, filled>>
      PROVE  AccessInv'
  <2> USE <1>2 DEF Do
  <2>1. /\ OfProgram' /\ todo' \in Seq(Step) /\ Left \in Nat \ {0} /\ Left' = Left - 1 /\ ~Idle
        /\ During("openHidden", {2})
    BY Where, Taken DEF AccessInv
  <2>2. AccessTypeOK'
    BY <2>1 DEF AccessInv, AccessTypeOK, Opening, During
  <2>3. LunsOff'
    BY <2>1 DEF AccessInv, LunsOff, CryptedOff, PlainOff, During
  <2>4. Opening'
    BY <2>1 DEF AccessInv, Opening, During
  <2>5. KeyFits'
    BY <2>1 DEF AccessInv, KeyFits, Selected, During, Opening
  <2>6. HostFits'
    BY <2>1 DEF AccessInv, HostFits, Turning, Selected, During
  <2>7. CalmIsIdle'
    BY <2>1 DEF AccessInv, CalmIsIdle
  <2>8. NoLateWrite'
    BY <2>1 DEF AccessInv, NoLateWrite, During
  <2> QED BY <2>1, <2>2, <2>3, <2>4, <2>5, <2>6, <2>7, <2>8 DEF AccessInv
<1> QED BY <1>1, <1>2 DEF SetHidden

LEMMA SetRangeKeeps ==
  ASSUME AccessInv, SetRange
  PROVE  AccessInv'
<1>1. ASSUME Do("range"), range' = target, UNCHANGED <<lun, hidden, cipherKey, writable, filled>>
      PROVE  AccessInv'
  <2> USE <1>1 DEF Do
  <2>1. /\ OfProgram' /\ todo' \in Seq(Step) /\ Left \in Nat \ {0} /\ Left' = Left - 1 /\ ~Idle
        /\ During("openHidden", {10})
    BY Where, Taken DEF AccessInv
  <2>2. AccessTypeOK'
    BY <2>1 DEF AccessInv, AccessTypeOK, Opening, During
  <2>3. LunsOff'
    BY <2>1 DEF LunsOff, CryptedOff, PlainOff, During
  <2>4. Opening'
    BY <2>1 DEF AccessInv, Opening, During
  <2>5. KeyFits'
    BY <2>1 DEF KeyFits, Turning, During
  <2>6. HostFits'
    BY <2>1 DEF AccessInv, HostFits, Turning, During
  <2>7. CalmIsIdle'
    BY <2>1 DEF AccessInv, CalmIsIdle
  <2>8. NoLateWrite'
    BY <2>1 DEF AccessInv, NoLateWrite, During
  <2> QED BY <2>1, <2>2, <2>3, <2>4, <2>5, <2>6, <2>7, <2>8 DEF AccessInv
<1> QED BY <1>1 DEF SetRange

LEMMA SetKeyKeeps ==
  ASSUME AccessInv, SetKey
  PROVE  AccessInv'
<1>1. ASSUME Do("keyLow"), cipherKey' = [cipherKey EXCEPT !.low = NewKeyOf],
             UNCHANGED <<lun, hidden, range, writable, filled>>
      PROVE  AccessInv'
  <2> USE <1>1 DEF Do
  <2>1. /\ OfProgram' /\ todo' \in Seq(Step) /\ Left \in Nat \ {0} /\ Left' = Left - 1 /\ ~Idle
        /\ During("open", {3}) \/ During("openHidden", {4})
    BY Where, Taken DEF AccessInv
  <2>2. AccessTypeOK'
    BY <2>1 DEF AccessInv, AccessTypeOK, Opening, Volume, NewKeyOf
  <2>3. LunsOff'
    BY <2>1 DEF AccessInv, LunsOff, CryptedOff, PlainOff, During
  <2>4. Opening'
    BY <2>1 DEF AccessInv, Opening, During, NewKeyOf
  <2>5. KeyFits'
    BY <2>1 DEF AccessInv, KeyFits, During, LunsOff, CryptedOff
  <2>6. HostFits'
    BY <2>1 DEF AccessInv, HostFits, Turning, Selected, During
  <2>7. CalmIsIdle'
    BY <2>1 DEF AccessInv, CalmIsIdle
  <2>8. NoLateWrite'
    BY <2>1 DEF AccessInv, NoLateWrite, During
  <2> QED BY <2>1, <2>2, <2>3, <2>4, <2>5, <2>6, <2>7, <2>8 DEF AccessInv
<1>2. ASSUME Do("keyHigh"), cipherKey' = [cipherKey EXCEPT !.high = NewKeyOf],
             UNCHANGED <<lun, hidden, range, writable, filled>>
      PROVE  AccessInv'
  <2> USE <1>2 DEF Do
  <2>1. /\ OfProgram' /\ todo' \in Seq(Step) /\ Left \in Nat \ {0} /\ Left' = Left - 1 /\ ~Idle
        /\ During("open", {2}) \/ During("openHidden", {3})
    BY Where, Taken DEF AccessInv
  <2>2. AccessTypeOK'
    BY <2>1 DEF AccessInv, AccessTypeOK, Opening, During, NewKeyOf
  <2>3. LunsOff'
    BY <2>1 DEF AccessInv, LunsOff, CryptedOff, PlainOff, During
  <2>4. Opening'
    <3>1. cipherKey' = [low |-> cipherKey.low, high |-> NewKeyOf]
      BY DEF AccessInv, AccessTypeOK
    <3>2. /\ cmd = "open" => cipherKey.low = Crypted /\ NewKeyOf = Crypted
          /\ cmd = "openHidden" => cipherKey.low = target /\ NewKeyOf = target
      BY <2>1 DEF AccessInv, Opening, During, NewKeyOf
    <3>3. /\ cmd = "open" => cipherKey' = Whole(Crypted)
          /\ cmd = "openHidden" => cipherKey' = Whole(target)
      BY <3>1, <3>2 DEF Whole
    <3> QED BY <2>1, <3>3 DEF AccessInv, Opening, During
  <2>5. KeyFits'
    BY <2>1 DEF AccessInv, KeyFits, During, LunsOff, CryptedOff
  <2>6. HostFits'
    BY <2>1 DEF AccessInv, HostFits, Turning, Selected, During
  <2>7. CalmIsIdle'
    BY <2>1 DEF AccessInv, CalmIsIdle
  <2>8. NoLateWrite'
    BY <2>1 DEF AccessInv, NoLateWrite, During
  <2> QED BY <2>1, <2>2, <2>3, <2>4, <2>5, <2>6, <2>7, <2>8 DEF AccessInv
<1>3. ASSUME Do("dummyLow"), cipherKey' = [cipherKey EXCEPT !.low = Dummy],
             UNCHANGED <<lun, hidden, range, writable, filled>>
      PROVE  AccessInv'
  <2> USE <1>3 DEF Do
  <2>1. /\ OfProgram' /\ todo' \in Seq(Step) /\ Left \in Nat \ {0} /\ Left' = Left - 1 /\ ~Idle
        /\ During("openHidden", {7}) \/ During("close", {2}) \/ During("closeHidden", {3}) \/ During("fill", {3})
    BY Where, Taken DEF AccessInv
  <2>2. AccessTypeOK'
    BY <2>1 DEF AccessInv, AccessTypeOK
  <2>3. LunsOff'
    BY <2>1 DEF AccessInv, LunsOff, CryptedOff, PlainOff, During
  <2>4. Opening'
    BY <2>1 DEF AccessInv, Opening, During
  <2>5. KeyFits'
    BY <2>1 DEF AccessInv, KeyFits, Filling, During, LunsOff, CryptedOff
  <2>6. HostFits'
    BY <2>1 DEF AccessInv, HostFits, Turning, Selected, During
  <2>7. CalmIsIdle'
    BY <2>1 DEF AccessInv, CalmIsIdle
  <2>8. NoLateWrite'
    BY <2>1 DEF AccessInv, NoLateWrite, During
  <2> QED BY <2>1, <2>2, <2>3, <2>4, <2>5, <2>6, <2>7, <2>8 DEF AccessInv
<1>4. ASSUME Do("dummyHigh"), cipherKey' = [cipherKey EXCEPT !.high = Dummy],
             UNCHANGED <<lun, hidden, range, writable, filled>>
      PROVE  AccessInv'
  <2> USE <1>4 DEF Do
  <2>1. /\ OfProgram' /\ todo' \in Seq(Step) /\ Left \in Nat \ {0} /\ Left' = Left - 1 /\ ~Idle
        /\ During("openHidden", {6}) \/ During("close", {1}) \/ During("closeHidden", {2}) \/ During("fill", {2})
    BY Where, Taken DEF AccessInv
  <2>2. AccessTypeOK'
    BY <2>1 DEF AccessInv, AccessTypeOK
  <2>3. LunsOff'
    BY <2>1 DEF AccessInv, LunsOff, CryptedOff, PlainOff, During
  <2>4. Opening'
    BY <2>1 DEF AccessInv, Opening, During
  <2>5. KeyFits'
    BY <2>1 DEF AccessInv, KeyFits, Filling, During, LunsOff, CryptedOff
  <2>6. HostFits'
    BY <2>1 DEF AccessInv, HostFits, Turning, Selected, During
  <2>7. CalmIsIdle'
    BY <2>1 DEF AccessInv, CalmIsIdle
  <2>8. NoLateWrite'
    BY <2>1 DEF AccessInv, NoLateWrite, During
  <2> QED BY <2>1, <2>2, <2>3, <2>4, <2>5, <2>6, <2>7, <2>8 DEF AccessInv
<1> QED BY <1>1, <1>2, <1>3, <1>4 DEF SetKey

LEMMA SetModeKeeps ==
  ASSUME AccessInv, SetMode
  PROVE  AccessInv'
<1>1. ASSUME Do("plainReadOnly"), writable' = [writable EXCEPT ![1] = FALSE],
             UNCHANGED <<lun, hidden, range, cipherKey, filled>>
      PROVE  AccessInv'
  <2> USE <1>1 DEF Do
  <2>1. /\ OfProgram' /\ todo' \in Seq(Step) /\ Left \in Nat \ {0} /\ Left' = Left - 1 /\ ~Idle
        /\ During("plainReadOnly", {3})
    BY Where, Taken DEF AccessInv
  <2>2. AccessTypeOK'
    BY <2>1 DEF AccessInv, AccessTypeOK
  <2>3. LunsOff'
    BY <2>1 DEF AccessInv, LunsOff, CryptedOff, PlainOff, During
  <2>4. Opening'
    BY <2>1 DEF Opening, During
  <2>5. KeyFits'
    BY <2>1 DEF AccessInv, KeyFits, Turning, Filling, Selected, During
  <2>6. HostFits'
    BY <2>1 DEF AccessInv, HostFits, Turning, Selected, During
  <2>7. CalmIsIdle'
    BY <2>1 DEF AccessInv, CalmIsIdle
  <2>8. NoLateWrite'
    BY <2>1 DEF AccessInv, NoLateWrite, During
  <2> QED BY <2>1, <2>2, <2>3, <2>4, <2>5, <2>6, <2>7, <2>8 DEF AccessInv
<1>2. ASSUME Do("plainReadWrite"), writable' = [writable EXCEPT ![1] = TRUE],
             UNCHANGED <<lun, hidden, range, cipherKey, filled>>
      PROVE  AccessInv'
  <2> USE <1>2 DEF Do
  <2>1. /\ OfProgram' /\ todo' \in Seq(Step) /\ Left \in Nat \ {0} /\ Left' = Left - 1 /\ ~Idle
        /\ During("plainReadWrite", {3})
    BY Where, Taken DEF AccessInv
  <2>2. AccessTypeOK'
    BY <2>1 DEF AccessInv, AccessTypeOK
  <2>3. LunsOff'
    BY <2>1 DEF AccessInv, LunsOff, CryptedOff, PlainOff, During
  <2>4. Opening'
    BY <2>1 DEF Opening, During
  <2>5. KeyFits'
    BY <2>1 DEF AccessInv, KeyFits, Turning, Filling, Selected, During
  <2>6. HostFits'
    BY <2>1 DEF AccessInv, HostFits, Turning, Selected, During
  <2>7. CalmIsIdle'
    BY <2>1 DEF AccessInv, CalmIsIdle
  <2>8. NoLateWrite'
    BY <2>1 DEF AccessInv, NoLateWrite, During
  <2> QED BY <2>1, <2>2, <2>3, <2>4, <2>5, <2>6, <2>7, <2>8 DEF AccessInv
<1> QED BY <1>1, <1>2 DEF SetMode

LEMMA WaitKeeps ==
  ASSUME AccessInv, Wait
  PROVE  AccessInv'
<1>1. ASSUME Do("wait"), (HostPolls => Noticed), UNCHANGED <<stick, filled>>
      PROVE  AccessInv'
  <2> USE <1>1 DEF Do
  <2>1. /\ OfProgram' /\ todo' \in Seq(Step) /\ Left \in Nat \ {0} /\ Left' = Left - 1 /\ ~Idle
        /\ \/ During("open", {5}) \/ During("openHidden", {5}) \/ During("closeHidden", {1})
           \/ During("plainReadOnly", {2}) \/ During("plainReadWrite", {2}) \/ During("export", {2})
    BY Where, Taken DEF AccessInv
  <2>2. AccessTypeOK'
    BY <2>1 DEF AccessInv, AccessTypeOK, stick
  <2>3. LunsOff'
    BY <2>1 DEF AccessInv, LunsOff, CryptedOff, PlainOff, During, stick
  <2>4. Opening'
    BY <2>1 DEF AccessInv, Opening, During, stick
  <2>5. KeyFits'
    BY <2>1 DEF AccessInv, KeyFits, Turning, Filling, Selected, During, stick
  <2>6. HostFits'
    BY <2>1 DEF AccessInv, HostFits, Turning, Selected, During, LunsOff, CryptedOff, Luns, stick, Noticed
  <2>7. CalmIsIdle'
    BY <2>1 DEF AccessInv, CalmIsIdle
  <2>8. NoLateWrite'
    BY <2>1 DEF AccessInv, NoLateWrite, During, LunsOff, CryptedOff, PlainOff, Luns, stick, Noticed
  <2> QED BY <2>1, <2>2, <2>3, <2>4, <2>5, <2>6, <2>7, <2>8 DEF AccessInv
<1> QED BY <1>1 DEF Wait

LEMMA FillCardKeeps ==
  ASSUME AccessInv, FillCard
  PROVE  AccessInv'
<1>1. ASSUME Do("fill"), filled' = TRUE, UNCHANGED stick PROVE AccessInv'
  <2> USE <1>1 DEF Do
  <2>1. /\ OfProgram' /\ todo' \in Seq(Step) /\ Left \in Nat \ {0} /\ Left' = Left - 1 /\ ~Idle
        /\ During("fill", {1})
    BY Where, Taken DEF AccessInv
  <2>2. AccessTypeOK'
    BY <2>1 DEF AccessInv, AccessTypeOK, stick
  <2>3. LunsOff'
    BY <2>1 DEF LunsOff, CryptedOff, PlainOff, During
  <2>4. Opening'
    BY <2>1 DEF Opening, During
  <2>5. KeyFits'
    BY <2>1 DEF KeyFits
  <2>6. HostFits'
    BY <2>1 DEF AccessInv, HostFits, Turning, Selected, During, stick
  <2>7. CalmIsIdle'
    BY <2>1 DEF AccessInv, CalmIsIdle
  <2>8. NoLateWrite'
    BY <2>1 DEF AccessInv, NoLateWrite, During, stick
  <2> QED BY <2>1, <2>2, <2>3, <2>4, <2>5, <2>6, <2>7, <2>8 DEF AccessInv
<1> QED BY <1>1 DEF FillCard

\* The mass storage leaves the command under way as it is.
LEMMA NoCallMade ==
  ASSUME UNCHANGED <<todo, cmd>>
  PROVE  Left' = Left /\ (Idle' <=> Idle) /\ Idle \in BOOLEAN /\ (OfProgram => OfProgram')
BY DEF Left, Idle, OfProgram

LEMMA UnitTypes ==
  ASSUME AccessTypeOK
  PROVE  /\ lun \in [Luns -> BOOLEAN] /\ writable \in [Luns -> BOOLEAN]
         /\ host \in [Luns -> Volume \union {Plain, "ready", None}] /\ xfer \in Xfer \union {None}
BY DEF AccessTypeOK

LEMMA TestUnitReadyKeeps ==
  ASSUME AccessInv, NEW l \in Luns, TestUnitReady(l)
  PROVE  AccessInv'
<1> USE DEF TestUnitReady
<1>1. UNCHANGED <<todo, cmd>> /\ Left' = Left /\ (Idle' <=> Idle) /\ Idle \in BOOLEAN /\ (OfProgram => OfProgram')
  BY NoCallMade DEF TestUnitReady
<1>2. AccessTypeOK'
  BY <1>1 DEF AccessInv, AccessTypeOK, stick
<1>3. OfProgram'
  BY <1>1 DEF AccessInv
<1>4. LunsOff'
  BY <1>1 DEF AccessInv, LunsOff, CryptedOff, PlainOff, During, stick
<1>5. Opening'
  BY <1>1 DEF AccessInv, Opening, During, stick
<1>6. KeyFits'
  BY <1>1 DEF AccessInv, KeyFits, Turning, Filling, Selected, During, stick
<1>7. HostFits'
  BY <1>1 DEF AccessInv, HostFits, Turning, Selected, During, LunsOff, CryptedOff, Volume, stick
<1>8. CalmIsIdle'
  BY <1>1 DEF CalmIsIdle
<1>9. NoLateWrite'
  BY <1>1 DEF NoLateWrite
<1> QED BY <1>2, <1>3, <1>4, <1>5, <1>6, <1>7, <1>8, <1>9 DEF AccessInv

LEMMA ReadCapacityKeeps ==
  ASSUME AccessInv, NEW l \in Luns, ReadCapacity(l)
  PROVE  AccessInv'
<1> USE DEF ReadCapacity
<1>1. UNCHANGED <<todo, cmd>> /\ Left' = Left /\ (Idle' <=> Idle) /\ Idle \in BOOLEAN /\ (OfProgram => OfProgram')
  BY NoCallMade DEF ReadCapacity
<1>2. AccessTypeOK'
  <2>1. host \in [Luns -> Volume \union {Plain, "ready", None}] /\ Selected \in Volume
    BY UnitTypes DEF AccessInv, AccessTypeOK, Selected, Volume
  <2>2. host' \in [Luns -> Volume \union {Plain, "ready", None}]
    BY <2>1
  <2> QED BY <1>1, <2>2 DEF AccessInv, AccessTypeOK, stick
<1>3. OfProgram'
  BY <1>1 DEF AccessInv
<1>4. LunsOff'
  BY <1>1 DEF AccessInv, LunsOff, CryptedOff, PlainOff, During, stick
<1>5. Opening'
  BY <1>1 DEF AccessInv, Opening, During, stick
<1>6. KeyFits'
  BY <1>1 DEF AccessInv, KeyFits, Turning, Filling, Selected, During, stick
<1>7. HostFits'
  <2>1. host \in [Luns -> Volume \union {Plain, "ready", None}]
    BY UnitTypes DEF AccessInv
  <2>2. Selected \in Volume
    BY DEF AccessInv, AccessTypeOK, Selected, Volume
  <2>3. /\ host'[0] = (IF l = 0 THEN Selected ELSE host[0]) /\ host'[1] = (IF l = 1 THEN Plain ELSE host[1])
        /\ l = 0 => host[0] = "ready"
    BY <2>1 DEF Luns
  <2>4. xfer' = None /\ UNCHANGED <<lun, hidden, range>>
    BY DEF stick
  <2>5. Plain \notin Volume /\ "ready" \notin Volume \union {None}
    BY DEF Volume
  <2> HIDE DEF ReadCapacity
  <2>6. l = 0 \/ l = 1
    BY DEF Luns
  <2>7. UNCHANGED <<Selected, Turning>>
    BY <1>1, <2>4 DEF Selected, Turning, During
  <2> QED BY <1>1, <2>2, <2>3, <2>4, <2>5, <2>6, <2>7 DEF AccessInv, HostFits, During
<1>8. CalmIsIdle'
  BY <1>1 DEF CalmIsIdle
<1>9. NoLateWrite'
  BY <1>1 DEF NoLateWrite
<1> QED BY <1>2, <1>3, <1>4, <1>5, <1>6, <1>7, <1>8, <1>9 DEF AccessInv

LEMMA BeginKeeps ==
  ASSUME AccessInv, NEW l \in Luns, NEW w \in BOOLEAN, Begin(l, w)
  PROVE  AccessInv'
<1> USE DEF Begin, Transfer
<1>1. UNCHANGED <<todo, cmd>> /\ Left' = Left /\ (Idle' <=> Idle) /\ Idle \in BOOLEAN /\ (OfProgram => OfProgram')
  BY NoCallMade DEF Begin
<1>2. AccessTypeOK'
  BY <1>1 DEF AccessInv, AccessTypeOK, stick, Xfer
<1>3. OfProgram'
  BY <1>1 DEF AccessInv
<1>4. LunsOff'
  BY <1>1 DEF AccessInv, LunsOff, CryptedOff, PlainOff, During, stick
<1>5. Opening'
  BY <1>1 DEF AccessInv, Opening, During, stick
<1>6. KeyFits'
  BY <1>1 DEF AccessInv, KeyFits, Turning, Filling, Selected, During, stick
<1>7. HostFits'
  <2>1. xfer'.lun = l /\ xfer'.mounted = host[l] /\ xfer'.place = None /\ host[l] \in Volume \union {Plain}
    OBVIOUS
  <2>2. l = 0 \/ l = 1
    BY DEF Luns
  <2>3. UNCHANGED <<host, lun, hidden, range>>
    BY DEF stick
  <2> HIDE DEF Begin
  <2> QED BY <1>1, <2>1, <2>2, <2>3 DEF AccessInv, HostFits, Turning, Selected, During, Volume
<1>8. CalmIsIdle'
  BY <1>1 DEF CalmIsIdle
<1>9. NoLateWrite'
  BY <1>1 DEF NoLateWrite, stick
<1> QED BY <1>2, <1>3, <1>4, <1>5, <1>6, <1>7, <1>8, <1>9 DEF AccessInv

LEMMA ChoosePlaceKeeps ==
  ASSUME AccessInv, ChoosePlace
  PROVE  AccessInv'
<1> USE DEF ChoosePlace
<1>1. UNCHANGED <<todo, cmd>> /\ Left' = Left /\ (Idle' <=> Idle) /\ Idle \in BOOLEAN /\ (OfProgram => OfProgram')
  BY NoCallMade DEF ChoosePlace
<1>2. AccessTypeOK'
  BY <1>1 DEF AccessInv, AccessTypeOK, Volume, stick, Selected, Xfer
<1>3. OfProgram'
  BY <1>1 DEF AccessInv
<1>4. LunsOff'
  BY <1>1 DEF AccessInv, LunsOff, CryptedOff, PlainOff, During, stick
<1>5. Opening'
  BY <1>1 DEF AccessInv, Opening, During, stick
<1>6. KeyFits'
  BY <1>1 DEF AccessInv, KeyFits, Turning, Filling, Selected, During, stick
<1>7. HostFits'
  BY <1>1 DEF AccessInv, HostFits, Turning, Selected, During, stick
<1>8. CalmIsIdle'
  BY <1>1 DEF AccessInv, CalmIsIdle
<1>9. NoLateWrite'
  BY <1>1 DEF AccessInv, NoLateWrite, During, stick
<1> QED BY <1>2, <1>3, <1>4, <1>5, <1>6, <1>7, <1>8, <1>9 DEF AccessInv

LEMMA SectorKeeps ==
  ASSUME AccessInv, Sector
  PROVE  AccessInv'
<1> USE DEF Sector
<1>1. UNCHANGED <<todo, cmd>> /\ Left' = Left /\ (Idle' <=> Idle) /\ Idle \in BOOLEAN /\ (OfProgram => OfProgram')
  BY NoCallMade DEF Sector
<1>2. AccessTypeOK'
  <2>1. xfer' \in Xfer \union {None}
    <3>1. xfer \in Xfer
      BY UnitTypes DEF AccessInv
    <3>2. xfer.left # 1 => xfer.left - 1 \in 1 .. MaxSectors
      BY <3>1 DEF Xfer
    <3> QED BY <3>1, <3>2 DEF Xfer
  <2> QED BY <1>1, <2>1 DEF AccessInv, AccessTypeOK, stick
<1>3. OfProgram'
  BY <1>1 DEF AccessInv
<1>4. LunsOff'
  BY <1>1 DEF AccessInv, LunsOff, CryptedOff, PlainOff, During, stick
<1>5. Opening'
  BY <1>1 DEF AccessInv, Opening, During, stick
<1>6. KeyFits'
  BY <1>1 DEF AccessInv, KeyFits, Turning, Filling, Selected, During, stick
<1>7. HostFits'
  BY <1>1 DEF AccessInv, HostFits, Turning, Selected, During, stick
<1>8. CalmIsIdle'
  BY <1>1 DEF AccessInv, CalmIsIdle
<1>9. NoLateWrite'
  BY <1>1 DEF AccessInv, NoLateWrite, During, stick
<1> QED BY <1>2, <1>3, <1>4, <1>5, <1>6, <1>7, <1>8, <1>9 DEF AccessInv

LEMMA RestartKeeps ==
  ASSUME AccessInv, Restart
  PROVE  AccessInv'
<1>1. cmd' = "none" /\ Left' = 0 /\ todo' \in Seq(Step) /\ cmd' \notin DOMAIN Program /\ OfProgram'
  BY Lengths DEF Restart, Left, OfProgram
<1>2. /\ lun' = [l \in Luns |-> l = 1] /\ hidden' = FALSE /\ range' = None /\ cipherKey' = Whole(Dummy)
      /\ target' = None /\ host' = [l \in Luns |-> None] /\ xfer' = None /\ filled' = FALSE /\ UNCHANGED writable
  BY DEF Restart
<1>3. ~lun'[0] /\ host'[0] = None /\ host'[1] = None
  <2>1. 0 \in Luns /\ 1 \in Luns
    BY DEF Luns
  <2>2. lun'[0] = (0 = 1) /\ host'[0] = None /\ host'[1] = None
    BY <1>2, <2>1
  <2>3. (0 = 1) = FALSE
    OBVIOUS
  <2> QED BY <2>2, <2>3
<1>4. AccessTypeOK'
  <2>1. lun' \in [Luns -> BOOLEAN] /\ host' \in [Luns -> Volume \union {Plain, "ready", None}]
    BY <1>2
  <2>2. cipherKey' \in [low : Volume \union {Dummy}, high : Volume \union {Dummy}]
    BY <1>2 DEF Whole
  <2> QED BY <1>1, <1>2, <2>1, <2>2 DEF AccessInv, AccessTypeOK
<1>5. LunsOff' /\ Opening'
  BY <1>1, Lengths DEF LunsOff, CryptedOff, PlainOff, Opening, During
<1>6. KeyFits'
  BY <1>3 DEF KeyFits
<1>7. HostFits'
  BY <1>2, <1>3 DEF HostFits
<1>8. CalmIsIdle' /\ NoLateWrite'
  BY <1>2 DEF CalmIsIdle, NoLateWrite
<1> QED BY <1>1, <1>4, <1>5, <1>6, <1>7, <1>8 DEF AccessInv

LEMMA FetchKeeps ==
  ASSUME AccessInv, Fetch
  PROVE  AccessInv'
<1>1. CASE Do("fetch") /\ UNCHANGED <<stick, filled>>
  <2> USE <1>1 DEF Do
  <2>1. /\ OfProgram' /\ todo' \in Seq(Step) /\ Left \in Nat \ {0} /\ Left' = Left - 1 /\ ~Idle
        /\ During("open", {4})
    BY Where, Taken DEF AccessInv
  <2>2. AccessTypeOK'
    BY <2>1 DEF AccessInv, AccessTypeOK, stick
  <2>3. LunsOff'
    BY <2>1 DEF AccessInv, LunsOff, CryptedOff, PlainOff, During, stick
  <2>4. Opening'
    BY <2>1 DEF AccessInv, Opening, During, stick
  <2>5. KeyFits'
    BY <2>1 DEF AccessInv, KeyFits, Turning, Filling, Selected, During, stick
  <2>6. HostFits'
    BY <2>1 DEF AccessInv, HostFits, During, Volume
  <2>7. CalmIsIdle'
    BY <2>1 DEF AccessInv, CalmIsIdle
  <2>8. NoLateWrite'
    BY <2>1 DEF AccessInv, NoLateWrite, During, stick
  <2> QED BY <2>1, <2>2, <2>3, <2>4, <2>5, <2>6, <2>7, <2>8 DEF AccessInv
<1>2. CASE /\ ~Idle /\ Head(todo) = "fetch" /\ todo' = <<>>
           /\ UNCHANGED <<stick, cmd, target, host, xfer, filled>>
  <2> USE <1>2
  <2>1. cmd = "open" /\ Left = 4 /\ Left' = 0
    BY Where DEF AccessInv, Left, During
  <2>2. AccessTypeOK'
    BY <2>1, Lengths DEF AccessInv, AccessTypeOK, stick
  <2>3. OfProgram'
    BY <2>1, Lengths DEF OfProgram
  <2>4. LunsOff'
    BY <2>1, Lengths DEF LunsOff, CryptedOff, PlainOff, During
  <2>5. Opening'
    BY <2>1, Lengths DEF AccessInv, Opening, During, stick
  <2>6. KeyFits'
    BY <2>1, Lengths DEF AccessInv, KeyFits, Turning, Filling, Selected, During, stick
  <2>7. HostFits'
    BY <2>1, Lengths DEF AccessInv, HostFits, During, Volume
  <2>8. CalmIsIdle'
    BY <2>1, Lengths DEF AccessInv, CalmIsIdle
  <2>9. NoLateWrite'
    BY <2>1, Lengths DEF AccessInv, NoLateWrite, During, stick
  <2> QED BY <2>1, <2>2, <2>3, <2>4, <2>5, <2>6, <2>7, <2>8, <2>9 DEF AccessInv
<1> QED BY <1>1, <1>2 DEF Fetch

LEMMA AccessStarts == AccessInit => AccessInv
<1> SUFFICES ASSUME AccessInit PROVE AccessInv
  OBVIOUS
<1>1. cmd = "none" /\ Left = 0 /\ todo \in Seq(Step) /\ cmd \notin DOMAIN Program /\ OfProgram
  BY Lengths DEF AccessInit, Left, OfProgram
<1>2. /\ lun = [l \in Luns |-> l = 1] /\ hidden = FALSE /\ range = None /\ cipherKey = Whole(Dummy)
      /\ writable = [l \in Luns |-> l = 0]
      /\ target = None /\ host = [l \in Luns |-> None] /\ xfer = None /\ filled = FALSE
  BY DEF AccessInit
<1>3. ~lun[0] /\ host[0] = None /\ host[1] = None
  <2>1. 0 \in Luns /\ 1 \in Luns
    BY DEF Luns
  <2>2. lun[0] = (0 = 1) /\ host[0] = None /\ host[1] = None
    BY <1>2, <2>1
  <2>3. (0 = 1) = FALSE
    OBVIOUS
  <2> QED BY <2>2, <2>3
<1>4. AccessTypeOK
  <2>1. /\ lun \in [Luns -> BOOLEAN] /\ writable \in [Luns -> BOOLEAN]
        /\ host \in [Luns -> Volume \union {Plain, "ready", None}]
    BY <1>2
  <2>2. cipherKey \in [low : Volume \union {Dummy}, high : Volume \union {Dummy}]
    BY <1>2 DEF Whole
  <2> QED BY <1>1, <1>2, <2>1, <2>2 DEF AccessTypeOK
<1>5. LunsOff /\ Opening
  BY <1>1, Lengths DEF LunsOff, CryptedOff, PlainOff, Opening, During
<1>6. KeyFits
  BY <1>3 DEF KeyFits
<1>7. HostFits
  BY <1>2, <1>3 DEF HostFits
<1>8. CalmIsIdle /\ NoLateWrite
  BY <1>2 DEF CalmIsIdle, NoLateWrite
<1> QED BY <1>1, <1>4, <1>5, <1>6, <1>7, <1>8 DEF AccessInv

LEMMA AccessSteps == AccessInv /\ [AccessNext]_accessVars => AccessInv'
<1> SUFFICES ASSUME AccessInv, [AccessNext]_accessVars PROVE AccessInv'
  OBVIOUS
<1>1. CASE \E c \in DOMAIN Program, s \in HiddenSlots \union {None} : Command(c, s)
  BY <1>1, CommandKeeps
<1>2. CASE IWTask
  BY <1>2, SwitchLunKeeps, SetHiddenKeeps, SetRangeKeeps, SetKeyKeeps, SetModeKeeps, WaitKeeps, FetchKeeps,
    FillCardKeeps DEF IWTask
<1>3. CASE \E l \in Luns : TestUnitReady(l) \/ ReadCapacity(l)
  BY <1>3, TestUnitReadyKeeps, ReadCapacityKeeps
<1>4. CASE \E l \in Luns, w \in BOOLEAN : Begin(l, w)
  BY <1>4, BeginKeeps
<1>5. CASE MassStorage
  BY <1>5, ChoosePlaceKeeps, SectorKeeps DEF MassStorage
<1>6. CASE Restart
  BY <1>6, RestartKeeps
<1>7. CASE UNCHANGED accessVars
  <2>1. AccessTypeOK' /\ OfProgram'
    BY <1>7 DEF AccessInv, AccessTypeOK, OfProgram, Left, accessVars
  <2>2. LunsOff' /\ Opening'
    BY <1>7 DEF AccessInv, LunsOff, CryptedOff, PlainOff, Opening, During, Left, accessVars
  <2>3. KeyFits' /\ CalmIsIdle'
    BY <1>7 DEF AccessInv, KeyFits, CalmIsIdle, Turning, Filling, Selected, Idle, During, Left, accessVars
  <2>4. HostFits'
    BY <1>7 DEF AccessInv, HostFits, Turning, Selected, During, Left, accessVars
  <2>5. NoLateWrite'
    BY <1>7 DEF AccessInv, NoLateWrite, During, Left, accessVars
  <2> QED BY <2>1, <2>2, <2>3, <2>4, <2>5 DEF AccessInv
<1> QED BY <1>1, <1>2, <1>3, <1>4, <1>5, <1>6, <1>7 DEF AccessNext

\* The inductive invariant of the volumes holds of every behaviour.
THEOREM AccessInvariant == AccessSpec => []AccessInv
BY AccessStarts, AccessSteps, PTL DEF AccessSpec

\* The switches, the key, the calls still to do and the transfer under way keep their types, for any hidden
\* volumes and any number of commands, transfers and restarts.
THEOREM AccessTypeCorrect == AccessSpec => []AccessTypeOK
BY AccessInvariant, PTL DEF AccessInv

LEMMA IdleIsNoStep == AccessInv /\ Idle => Left = 0 /\ ~Turning /\ ~Filling
BY DEF Idle, Left, Turning, Filling, During

\* When no command is under way, a volume that is switched on has its own key in both halves of the AES
\* unit, whichever commands have switched the volumes and however they were interleaved with transfers; only
\* the filling of the card with random data leaves the dummy key.
THEOREM OpenHasItsKey == AccessSpec => []OpenVolumeHasItsKey
<1>1. AccessInv => OpenVolumeHasItsKey
  BY IdleIsNoStep DEF AccessInv, KeyFits, OpenVolumeHasItsKey
<1> QED BY <1>1, AccessInvariant, PTL

\* A transfer that no command overlaps reaches the volume that the host has mounted, under its key, and no
\* write reaches a volume that is read-only, if the host tests its units while a command waits for it and
\* the card was not filled since the volume was switched on.
THEOREM TransfersKeptApart == AccessSpec => []TransfersFit
<1>1. AccessInv => CalmTransfersFit
  <2> SUFFICES ASSUME AccessInv, HostPolls, xfer # None, xfer.calm, ~filled, lun[xfer.lun]
               PROVE  /\ xfer.place \in {None, xfer.mounted}
                      /\ xfer.lun = 0 => xfer.mounted = Selected /\ cipherKey = Whole(xfer.mounted)
    BY DEF CalmTransfersFit
  <2>1. ~Turning /\ ~Filling
    BY IdleIsNoStep DEF AccessInv, CalmIsIdle
  <2>2. xfer.lun \in {0, 1}
    BY DEF AccessInv, AccessTypeOK, Xfer, Luns
  <2> QED BY <2>1, <2>2 DEF AccessInv, HostFits, KeyFits
<1>2. AccessInv => ReadOnlyIsKept
  BY IdleIsNoStep DEF AccessInv, NoLateWrite, ReadOnlyIsKept, During
<1> QED BY <1>1, <1>2, AccessInvariant, PTL DEF TransfersFit

HIDE AccessAssumption

-----------------------------------------------------------------------------
(* SectorPipeline *)

\* A write whose first stage was late goes on beside it.
Free == ~(mode = "write" /\ "fill" \in late)

\* The block number fits what is left, and can be set back when the turn is begun again.
Counted ==
  /\ left + block <= MaxLength + 1
  /\ msd \in {"both", "late"} \/ (msd = "fill" /\ mode = "read") => block >= 2
  /\ msd \in {"fill", "both", "late"} \/ (msd = "load" /\ left = 0) => full

\* Which stages may be under way, and in which buffer.
Staged ==
  /\ msd \in {"load", "last", "drain", "idle"} /\ Free => first = Off
  /\ msd = "load" \/ msd = "fill" => second = Off
  /\ msd \in {"fill", "both", "late"} /\ Free =>
       (first # Off => first.buf = Other(bid)) /\ (second # Off => second.buf = bid)
  /\ msd \in {"drain", "idle"} /\ second # Off => "last" \in late

\* The semaphore is taken while stages are waited for.
Held == msd \in {"fill", "both", "late", "last"} => aes = "msd"

Calm == late \subseteq {"last"}

\* The sectors that were asked of the source.
Asked == IF mode = "read" THEN block - 1 ELSE block

AtStart == msd = "load" /\ ~full => block = 1 /\ src = 1 /\ sent = 0

Between ==
  msd = "load" /\ full =>
    /\ src = Asked + 1 /\ sent = Asked - 1 /\ buf[Other(bid)] = Asked
    /\ Asked + left <= MaxLength

Under ==
  msd \in {"fill", "both"} =>
    /\ full /\ Asked + left <= MaxLength
    /\ first # Off => src = Asked /\ (mode = "read" => first.pos = Asked)
    /\ first = Off => src = Asked + 1 /\ buf[Other(bid)] = Asked
    /\ second # Off => sent = Asked - 2 /\ buf[bid] = Asked - 1 /\ second.pos = block - 1
    /\ second = Off => sent = Asked - 1

After ==
  msd \in {"last", "drain", "idle"} =>
    /\ second # Off => /\ second.buf = Other(bid) /\ second.pos = block
                       /\ buf[Other(bid)] = Asked /\ sent = Asked - 1
    /\ second = Off => sent = Asked

Flow == Calm => ~wrong /\ ~slipped /\ msd # "late" /\ AtStart /\ Between /\ Under /\ After

PipelineInv == PipelineTypeOK /\ Counted /\ Staged /\ Held /\ Flow

USE PipelineAssumption

LEMMA BuffersAre == 0 \in Buffers
BY DEF Buffers

LEMMA OtherType == \A b \in Buffers : Other(b) \in Buffers /\ Other(b) # b /\ Other(Other(b)) = b
BY DEF Buffers, Other

LEMMA OffIsNone == Off \in Stage /\ Off.buf \notin Buffers /\ \A s \in Stage : s # Off => s.buf \in Buffers
BY DEF Stage, Off, Buffers

\* The program's first state.
LEMMA PipelineStarts == PipelineInit => PipelineInv
<1> SUFFICES ASSUME PipelineInit PROVE PipelineInv
  OBVIOUS
<1>1. buf \in [Buffers -> 0 .. MaxLength + 1]
  BY DEF PipelineInit, Bad
<1>2. PipelineTypeOK
  <2>1. left \in 0 .. MaxLength /\ block \in 1 .. MaxLength + 1 /\ bid \in Buffers
    BY BuffersAre DEF PipelineInit
  <2>2. src \in 1 .. MaxLength + 1 /\ sent \in 0 .. MaxLength + 1 /\ times \in 0 .. MaxLate
    BY DEF PipelineInit
  <2>3. msd \in {"idle", "load", "fill", "both", "late", "last", "drain"} /\ mode \in {"read", "write"}
    BY DEF PipelineInit
  <2>4. full \in BOOLEAN /\ slipped \in BOOLEAN /\ wrong \in BOOLEAN
    BY DEF PipelineInit
  <2>5. late \subseteq {"fill", "both", "last", "iw"}
    BY DEF PipelineInit
  <2>6. aes \in {"free", "msd", "iw"} /\ iw \in {"away", "wants", "waits"} /\ ((aes = "iw") <=> (iw = "waits"))
    BY DEF PipelineInit
  <2>7. first \in Stage /\ second \in Stage
    BY OffIsNone DEF PipelineInit
  <2> QED BY <1>1, <2>1, <2>2, <2>3, <2>4, <2>5, <2>6, <2>7 DEF PipelineTypeOK
<1>3. Counted /\ Staged /\ Held
  BY DEF PipelineInit, Counted, Staged, Held
<1>4. Flow
  BY DEF PipelineInit, Flow, Calm, AtStart, Between, Under, After, Asked
<1> QED BY <1>2, <1>3, <1>4 DEF PipelineInv

LEMMA GivesUpType ==
  ASSUME PipelineTypeOK, NEW what \in {"fill", "both", "last", "iw"}, GivesUp(what)
  PROVE late' \subseteq {"fill", "both", "last", "iw"} /\ times' \in 0 .. MaxLate
<1>1. late' \subseteq {"fill", "both", "last", "iw"}
  BY DEF PipelineTypeOK, GivesUp
<1>2. times' \in 0 .. MaxLate
  BY DEF PipelineTypeOK, GivesUp
<1> QED BY <1>1, <1>2

LEMMA BeginStep ==
  ASSUME PipelineInv, NEW m \in {"read", "write"}, NEW n \in 1 .. MaxLength, BeginPipeline(m, n)
  PROVE PipelineInv'
<1> USE DEF BeginPipeline
<1>1. PipelineTypeOK'
  <2>1. buf' \in [Buffers -> 0 .. MaxLength + 1]
    BY DEF Bad
  <2>2. left' \in 0 .. MaxLength /\ block' \in 1 .. MaxLength + 1 /\ bid' \in Buffers
    BY BuffersAre
  <2>3. src' \in 1 .. MaxLength + 1 /\ sent' \in 0 .. MaxLength + 1 /\ times' \in 0 .. MaxLate
    OBVIOUS
  <2>4. full' \in BOOLEAN /\ slipped' \in BOOLEAN /\ wrong' \in BOOLEAN
    OBVIOUS
  <2>5. late' \subseteq {"fill", "both", "last", "iw"}
    OBVIOUS
  <2> QED BY <2>1, <2>2, <2>3, <2>4, <2>5 DEF PipelineInv, PipelineTypeOK
<1>2. Counted' /\ Staged' /\ Held'
  BY DEF PipelineInv, PipelineTypeOK, Counted, Staged, Held, Free
<1>3. Flow'
  BY DEF PipelineInv, PipelineTypeOK, Flow, Calm, AtStart, Between, Under, After
<1> QED BY <1>1, <1>2, <1>3 DEF PipelineInv

LEMMA LoadStep == ASSUME PipelineInv, Load PROVE PipelineInv'
<1> USE DEF Load, hostSide
<1>1. PipelineTypeOK'
  BY OtherType DEF PipelineInv, PipelineTypeOK, Counted, Stage, Buffers
<1>2. Counted' /\ Held'
  BY DEF PipelineInv, PipelineTypeOK, Counted, Held
<1>3. Staged'
  BY OtherType, OffIsNone DEF PipelineInv, PipelineTypeOK, Staged, Free
<1>4. Flow'
  BY OtherType, OffIsNone DEF PipelineInv, PipelineTypeOK, Flow, Calm, AtStart, Between, Under, After, Asked, Staged,
    Free, Off, Buffers
<1> QED BY <1>1, <1>2, <1>3, <1>4 DEF PipelineInv

LEMMA LoadedStep == ASSUME PipelineInv, Loaded PROVE PipelineInv'
<1> USE DEF Loaded, hostSide, loop, Give, Waited
<1>1. PipelineTypeOK'
  BY DEF PipelineInv, PipelineTypeOK, Held
<1>2. Counted' /\ Held'
  BY DEF PipelineInv, PipelineTypeOK, Counted, Held
<1>3. Staged'
  BY DEF PipelineInv, PipelineTypeOK, Staged, Free
<1>4. Flow'
  BY DEF PipelineInv, PipelineTypeOK, Flow, Calm, AtStart, Between, Under, After, Asked, Staged
<1> QED BY <1>1, <1>2, <1>3, <1>4 DEF PipelineInv

LEMMA LateStep == ASSUME PipelineInv, Late PROVE PipelineInv'
<1> USE DEF Late, hostSide, loop, Give, GivesUp
<1>1. PipelineTypeOK'
  BY DEF PipelineInv, PipelineTypeOK, Held
<1>2. Counted' /\ Held'
  BY DEF PipelineInv, PipelineTypeOK, Counted, Held
<1>3. Staged'
  BY DEF PipelineInv, PipelineTypeOK, Staged, Free
<1>4. Flow'
  BY DEF PipelineInv, PipelineTypeOK, Flow, Calm
<1> QED BY <1>1, <1>2, <1>3, <1>4 DEF PipelineInv

LEMMA AgainStep == ASSUME PipelineInv, Again PROVE PipelineInv'
<1> USE DEF Again, StopDma, hostSide, CardStage, UsbStage
<1>1. PipelineTypeOK'
  <2>1. first' \in Stage /\ second' \in Stage /\ slipped' \in BOOLEAN
    BY OffIsNone DEF PipelineInv, PipelineTypeOK
  <2>2. left' \in 0 .. MaxLength /\ block' \in 1 .. MaxLength + 1 /\ bid' \in Buffers
    BY OtherType DEF PipelineInv, PipelineTypeOK, Counted
  <2> QED BY <2>1, <2>2 DEF PipelineInv, PipelineTypeOK, Held
<1>2. Counted' /\ Held'
  BY DEF PipelineInv, PipelineTypeOK, Counted, Held
<1>3. Staged'
  BY DEF PipelineInv, PipelineTypeOK, Staged, Free
<1>4. Flow'
  BY DEF PipelineInv, PipelineTypeOK, Flow, Calm
<1> QED BY <1>1, <1>2, <1>3, <1>4 DEF PipelineInv

LEMMA LoadLastStep == ASSUME PipelineInv, LoadLast PROVE PipelineInv'
<1> USE DEF LoadLast, hostSide, loop
<1>1. PipelineTypeOK'
  BY OtherType DEF PipelineInv, PipelineTypeOK, Stage
<1>2. Counted' /\ Held'
  BY DEF PipelineInv, PipelineTypeOK, Counted, Held
<1>3. Staged'
  BY DEF PipelineInv, PipelineTypeOK, Staged, Free
<1>4. Flow'
  <2>1. full /\ second' # Off
    BY DEF PipelineInv, PipelineTypeOK, Counted, Off
  <2> QED BY <2>1 DEF PipelineInv, PipelineTypeOK, Flow, Calm, AtStart, Between, Under, After, Asked
<1> QED BY <1>1, <1>2, <1>3, <1>4 DEF PipelineInv

LEMMA LastStep == ASSUME PipelineInv, Last PROVE PipelineInv'
<1> USE DEF Last, hostSide, loop, Give
<1>1. PipelineTypeOK'
  <2>1. late' \subseteq {"fill", "both", "last", "iw"} /\ times' \in 0 .. MaxLate
    <3>1. CASE second = Off
      BY <3>1 DEF PipelineInv, PipelineTypeOK
    <3>2. CASE second # Off
      BY <3>2, GivesUpType DEF PipelineInv
    <3> QED BY <3>1, <3>2
  <2> QED BY <2>1 DEF PipelineInv, PipelineTypeOK, Held
<1>2. Counted' /\ Held'
  BY DEF GivesUp, PipelineInv, PipelineTypeOK, Counted, Held
<1>3. Staged'
  BY DEF GivesUp, PipelineInv, PipelineTypeOK, Staged, Free
<1>4. Flow'
  BY DEF GivesUp, PipelineInv, PipelineTypeOK, Flow, Calm, AtStart, Between, Under, After, Asked
<1> QED BY <1>1, <1>2, <1>3, <1>4 DEF PipelineInv

LEMMA DrainStep == ASSUME PipelineInv, Drain PROVE PipelineInv'
<1> USE DEF Drain, hostSide, loop, UsbStage
<1>1. PipelineTypeOK' /\ Counted' /\ Held'
  BY DEF PipelineInv, PipelineTypeOK, Counted, Held
<1>2. Staged'
  BY DEF PipelineInv, PipelineTypeOK, Staged, Free
<1>3. Flow'
  BY DEF PipelineInv, PipelineTypeOK, Flow, Calm, AtStart, Between, Under, After, Asked
<1> QED BY <1>1, <1>2, <1>3 DEF PipelineInv

LEMMA FirstDoneStep == ASSUME PipelineInv, FirstDone PROVE PipelineInv'
<1> USE DEF FirstDone, hostSide, loop
<1>1. first.buf \in Buffers
  BY OffIsNone DEF PipelineInv, PipelineTypeOK
<1>2. Fits(first, src) \in 0 .. MaxLength + 1
  BY DEF PipelineInv, PipelineTypeOK, Fits, Bad
<1>3. buf' \in [Buffers -> 0 .. MaxLength + 1]
  BY <1>1, <1>2 DEF PipelineInv, PipelineTypeOK, Bad
<1>4. src' \in 1 .. MaxLength + 1
  BY DEF PipelineInv, PipelineTypeOK
<1>5. PipelineTypeOK'
  BY <1>3, <1>4, OffIsNone DEF PipelineInv, PipelineTypeOK
<1>6. Counted' /\ Held'
  BY DEF PipelineInv, PipelineTypeOK, Counted, Held
<1>7. Staged'
  BY DEF PipelineInv, PipelineTypeOK, Staged, Free
<1>8. Flow'
  <2>1. SUFFICES ASSUME Calm PROVE Flow'
    BY DEF Flow, Calm
  <2>2. msd \in {"fill", "both"} /\ first.buf = Other(bid) /\ ~slipped
    BY <2>1 DEF PipelineInv, PipelineTypeOK, Flow, Staged, Calm, Free
  <2>3. second.buf # first.buf
    BY <2>1, <2>2, <1>1, OtherType, OffIsNone DEF PipelineInv, PipelineTypeOK, Staged, Free, Calm
  <2>4. Fits(first, src) = src
    BY <2>1, <2>2, <2>3 DEF PipelineInv, PipelineTypeOK, Flow, Under, Fits, CardStage, Asked
  <2>5. buf' = [buf EXCEPT ![Other(bid)] = src]
    BY <2>2, <2>3, <2>4
  <2>6. src = Asked /\ src' = Asked + 1
    BY <2>1, <2>2 DEF PipelineInv, PipelineTypeOK, Counted, Flow, Under, Asked
  <2>7. buf'[Other(bid)] = Asked /\ buf'[bid] = buf[bid]
    BY <2>5, <2>6, OtherType DEF PipelineInv, PipelineTypeOK
  <2> QED BY <2>1, <2>2, <2>6, <2>7 DEF PipelineInv, PipelineTypeOK, Flow, Calm, AtStart, Between, Under, After, Asked
<1> QED BY <1>5, <1>6, <1>7, <1>8 DEF PipelineInv

LEMMA SecondDoneStep == ASSUME PipelineInv, SecondDone PROVE PipelineInv'
<1> DEFINE sector == IF first.buf = second.buf THEN Bad ELSE Fits(second, buf[second.buf])
<1> USE DEF SecondDone, loop
<1>1. second.buf \in Buffers
  BY OffIsNone DEF PipelineInv, PipelineTypeOK
<1>2. sector \in 0 .. MaxLength + 1
  BY <1>1 DEF PipelineInv, PipelineTypeOK, Fits, Bad
<1>3. /\ second' = Off
      /\ IF sector = sent + 1 THEN sent' = sector /\ wrong' = wrong ELSE wrong' = TRUE /\ sent' = sent
  OBVIOUS
<1>4. sent' \in 0 .. MaxLength + 1 /\ wrong' \in BOOLEAN
  BY <1>2, <1>3 DEF PipelineInv, PipelineTypeOK
<1>5. PipelineTypeOK'
  BY <1>4, OffIsNone DEF PipelineInv, PipelineTypeOK
<1>6. Counted' /\ Held'
  BY DEF PipelineInv, PipelineTypeOK, Counted, Held
<1>7. Staged'
  BY DEF PipelineInv, PipelineTypeOK, Staged, Free
<1>8. Flow'
  <2>1. SUFFICES ASSUME Calm PROVE Flow'
    BY DEF Flow, Calm
  <2>2. msd \in {"both", "last", "drain", "idle"}
    BY <2>1 DEF PipelineInv, PipelineTypeOK, Flow, Staged
  <2>3. first.buf # second.buf
    BY <1>1, <2>1, <2>2, OtherType, OffIsNone DEF PipelineInv, PipelineTypeOK, Staged, Free, Calm
  <2>4. CardStage = second => mode = "write"
    BY <2>3 DEF CardStage, PipelineInv, PipelineTypeOK
  <2>5. sector = sent + 1 /\ sent + 1 = IF msd = "both" THEN Asked - 1 ELSE Asked
    BY <2>1, <2>2, <2>3, <2>4 DEF PipelineInv, PipelineTypeOK, Flow, Under, After, Asked, Staged, Free, Calm, Fits
  <2>6. wrong' = wrong /\ sent' = IF msd = "both" THEN Asked - 1 ELSE Asked
    BY <1>3, <2>5
  <2> QED BY <2>1, <2>2, <2>6 DEF PipelineInv, PipelineTypeOK, Flow, Calm, AtStart, Between, Under, After, Asked
<1> QED BY <1>5, <1>6, <1>7, <1>8 DEF PipelineInv

LEMMA IWWantsStep == ASSUME PipelineInv, IWWants PROVE PipelineInv'
<1> USE DEF IWWants, hostSide, loop
<1>1. PipelineTypeOK' /\ Counted' /\ Held'
  BY DEF PipelineInv, PipelineTypeOK, Counted, Held
<1>2. Staged'
  BY DEF PipelineInv, Staged, Free
<1>3. Flow'
  BY DEF PipelineInv, Flow, Calm, AtStart, Between, Under, After, Asked
<1> QED BY <1>1, <1>2, <1>3 DEF PipelineInv

LEMMA IWTakesStep == ASSUME PipelineInv, IWTakes PROVE PipelineInv'
<1> USE DEF IWTakes, hostSide, loop
<1>1. PipelineTypeOK' /\ Counted' /\ Held'
  BY DEF PipelineInv, PipelineTypeOK, Counted, Held
<1>2. Staged'
  BY DEF PipelineInv, Staged, Free
<1>3. Flow'
  BY DEF PipelineInv, Flow, Calm, AtStart, Between, Under, After, Asked
<1> QED BY <1>1, <1>2, <1>3 DEF PipelineInv

LEMMA IWUsesStep == ASSUME PipelineInv, IWUses PROVE PipelineInv'
<1> USE DEF IWUses, loop
<1>1. late' \subseteq {"fill", "both", "last", "iw"} /\ times' \in 0 .. MaxLate
  <2>1. CASE first = Off /\ second = Off
    BY <2>1 DEF PipelineInv, PipelineTypeOK
  <2>2. CASE ~(first = Off /\ second = Off)
    BY <2>2, GivesUpType DEF PipelineInv
  <2> QED BY <2>1, <2>2
<1>2. wrong' \in BOOLEAN
  BY DEF PipelineInv, PipelineTypeOK
<1>3. PipelineTypeOK'
  BY <1>1, <1>2 DEF PipelineInv, PipelineTypeOK
<1>4. Counted' /\ Held'
  BY DEF PipelineInv, PipelineTypeOK, Counted, Held
<1>5. Staged'
  BY DEF PipelineInv, PipelineTypeOK, Staged, Free, GivesUp
<1>6. Flow'
  <2>1. SUFFICES ASSUME Calm' PROVE Flow'
    BY DEF Flow
  <2>2. first = Off /\ second = Off /\ late' = late
    BY <2>1 DEF Calm, GivesUp
  <2>3. wrong' = wrong
    BY <2>2 DEF CardStage, PipelineInv, PipelineTypeOK
  <2> QED BY <2>1, <2>2, <2>3 DEF PipelineInv, Flow, Calm, AtStart, Between, Under, After, Asked
<1> QED BY <1>3, <1>4, <1>5, <1>6 DEF PipelineInv

LEMMA StutterStep == ASSUME PipelineInv, UNCHANGED pipelineVars PROVE PipelineInv'
BY DEF PipelineInv, PipelineTypeOK, Counted, Staged, Held, Flow, Calm, AtStart, Between, Under, After, Asked, Free,
  pipelineVars

\* The inductive invariant of the transfer holds of every behaviour.
THEOREM PipelineInvariant == PipelineSpec => []PipelineInv
<1>1. ASSUME PipelineInv, [PipelineNext]_pipelineVars PROVE PipelineInv'
  BY <1>1, BeginStep, LoadStep, LoadedStep, LateStep, AgainStep, LoadLastStep, LastStep, DrainStep,
     FirstDoneStep, SecondDoneStep, IWWantsStep, IWTakesStep, IWUsesStep, StutterStep
     DEF PipelineNext, PipelineTask, Hardware
<1> QED BY <1>1, PipelineStarts, PTL DEF PipelineSpec

\* Types, and the block number stays within the transfer, for transfers of any length.
THEOREM PipelineTypeCorrect == PipelineSpec => []PipelineTypeOK
<1>1. PipelineInv => PipelineTypeOK
  BY DEF PipelineInv
<1> QED BY <1>1, PipelineInvariant, PTL

\* Sectors arrive once, in order and under their own number, in whatever order the stages of the two
\* buffers complete, unless one that is not the last was late.
THEOREM SectorsRight == PipelineSpec => []SectorsArriveRight
<1>1. PipelineInv => (late \subseteq {"last"} => ~wrong)
  BY DEF PipelineInv, Flow, Calm
<1>2. PipelineInv => AnsweredIsComplete
  BY DEF PipelineInv, Flow, Calm, Staged, After, Asked, AnsweredIsComplete
<1>3. PipelineInv => BuffersAreApart
  <2>1. SUFFICES ASSUME PipelineInv, first # Off, second # Off, first.buf = second.buf, Free PROVE FALSE
    BY DEF BuffersAreApart, Free
  <2>2. msd \in {"fill", "both", "late"}
    BY <2>1 DEF PipelineInv, PipelineTypeOK, Staged
  <2>3. first.buf = Other(bid) /\ second.buf = bid /\ bid \in Buffers
    BY <2>1, <2>2 DEF PipelineInv, PipelineTypeOK, Staged
  <2> QED BY <2>1, <2>3, OtherType
<1> QED BY <1>1, <1>2, <1>3, PipelineInvariant, PTL DEF SectorsArriveRight

\* The AES unit is not given while a sector passes through it, unless the last stage of a write is late.
THEOREM AesKept == PipelineSpec => []AesIsKept
<1>1. PipelineInv => AesIsKept
  BY DEF PipelineInv, PipelineTypeOK, Staged, Held, Free, CardStage, AesIsKept
<1> QED BY <1>1, PipelineInvariant, PTL
=============================================================================
