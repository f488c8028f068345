------------------------- MODULE PasswordSafeProofs -------------------------
(***************************************************************************)
(* What PasswordSafe keeps, for any number of slots and of makings of      *)
(* keys.  The numbers of the keys grow (Numbers): no slot was enciphered   *)
(* with the key that is made last until something is written under it      *)
(* (Fresh).  Kept says where a slot is that the host stored: in flash, or, *)
(* while its page is rewritten, in the page buffer, which also holds the   *)
(* safe's key while the user page is rewritten (FlashKey).                 *)
(***************************************************************************)
EXTENDS PasswordSafe, TLAPS

Cells == SlotType \union {Blank}
Stages == {"idle", "program", "user", "erase", "card", "key"}

OpType ==
  op \in [stage : Stages, slot : Slots \union {None},
          what : [Slots -> Cells] \union {Blank}, blob : 0 .. MaxKeys + 1, reset : BOOLEAN]

\* The safe's key in flash, also while the user page is being written
FlashKey == IF op.stage = "user" THEN <<op.blob, cardKey>> ELSE SafeKey

\* While the safe is enabled its key is that in flash, unless keys were erased and not made anew since.
EnabledKeyIsInFlash == enabled /\ ~stale => key = FlashKey

\* No key is decrypted and nothing is stored while keys are made.
Making ==
  /\ op.stage \in {"erase", "card", "key"} => (enabled => stale) /\ stored = Forgotten
  /\ op.stage \notin {"idle", "user"} => done = None

\* Every key is one of those made so far; the one that is being made is newer than all slots.
Numbers ==
  /\ cardKey <= made /\ key[2] <= made
  /\ \A s \in Slots : cell[s] # Blank => cell[s].key[2] <= made
  /\ op.stage = "program" => \A s \in Slots : op.what[s] # Blank => op.what[s].key[2] <= made
  /\ op.stage = "erase" /\ op.reset => cardKey = 0
  /\ (op.stage = "erase" /\ ~op.reset) \/ op.stage = "card" => made < MaxKeys
  /\ op.stage = "key" => cardKey = made /\ \A s \in Slots : cell[s] # Blank => cell[s].key[2] < made

\* No slot was enciphered with new keys when nothing was stored under them; after a reset there is no key
\* but one that an enabled safe has kept.
Fresh ==
  /\ done = "keys" => ~stale /\ \A s \in Slots : cell[s] # Blank => cell[s].key[2] # cardKey
  /\ done = "reset" => cardKey = 0 /\ (enabled => stale)

\* A slot's content, also while its page is being written
Content(s) == IF op.stage = "program" /\ Page[s] = Page[op.slot] THEN op.what[s] ELSE cell[s]
Kept == \A s \in Slots : stored[s] # None => Content(s) = stored[s] /\ stored[s].key = FlashKey

IInv == TypeOK /\ OpType /\ Making /\ Numbers /\ Fresh /\ EnabledKeyIsInFlash /\ Kept

-----------------------------------------------------------------------------
USE SafeAssumption

LEMMA SlotTyped ==
  ASSUME NEW k \in KeyNumbers, NEW one \in Fields, NEW two \in Fields, NEW used \in BOOLEAN
  PROVE /\ Slot(k, one, two, used) \in SlotType
        /\ Slot(k, one, two, used).key = k /\ Slot(k, one, two, used).one = one
BY DEF Slot, SlotType

LEMMA FieldsAre == Zero \in Fields /\ Mess \in Fields /\ Words \subseteq Fields
BY DEF Fields

LEMMA NoKey == <<0, 0>> \in KeyNumbers /\ <<0, 0>>[2] = 0
BY DEF KeyNumbers

LEMMA SafeKeyTyped == TypeOK => SafeKey \in KeyNumbers /\ SafeKey[1] = blob /\ SafeKey[2] = cardKey
BY DEF TypeOK, KeyNumbers, SafeKey

LEMMA IdleTyped ==
  /\ Idle \in [stage : Stages, slot : Slots \union {None}, what : [Slots -> Cells] \union {Blank},
         blob : 0 .. MaxKeys + 1, reset : BOOLEAN]
  /\ Idle.stage = "idle" /\ Idle.reset = FALSE /\ Idle.blob = 0 /\ 0 \in 0 .. MaxKeys + 1
BY DEF Idle, Stages

LEMMA Initially == Init => IInv
<1> SUFFICES ASSUME Init PROVE IInv
  OBVIOUS
<1> USE DEF Init
<1>1. cell \in [Slots -> Cells] /\ stored \in [Slots -> SlotType \union {None}]
  BY DEF Cells
<1>2. buffer \in [one : Fields, two : Fields]
  BY FieldsAre
<1>3. TypeOK
  <2>1. blob \in 0 .. MaxKeys + 1 /\ cardKey \in 0 .. MaxKeys + 1 /\ made \in 1 .. MaxKeys + 1
    OBVIOUS
  <2>2. op.stage = "idle" /\ op.reset = FALSE /\ op.blob \in 0 .. MaxKeys + 1
    BY IdleTyped
  <2> QED BY <1>1, <1>2, <2>1, <2>2, NoKey DEF TypeOK, Cells
<1>4. OpType
  BY IdleTyped DEF OpType
<1>5. Making /\ Numbers /\ Fresh
  BY IdleTyped, NoKey DEF Making, Numbers, Fresh
<1>6. EnabledKeyIsInFlash /\ Kept
  BY DEF EnabledKeyIsInFlash, Kept
<1> QED BY <1>3, <1>4, <1>5, <1>6 DEF IInv

\* Steps that neither write flash nor change what was stored.
LEMMA KeyStep ==
  ASSUME IInv, op = Idle,
         UNCHANGED <<cell, blob, cardKey, made, op, done, stored>>,
         buffer' \in [one : Fields, two : Fields], pin' \in BOOLEAN, asked' \in BOOLEAN,
         \/ UNCHANGED <<enabled, key, stale>>
         \/ enabled' = TRUE /\ key' = SafeKey /\ stale' = FALSE /\ cardKey # 0
         \/ enabled' = FALSE /\ key' = <<0, 0>> /\ stale' \in {stale, FALSE}
  PROVE IInv'
<1>1. key' \in KeyNumbers /\ enabled' \in BOOLEAN /\ stale' \in BOOLEAN
  BY SafeKeyTyped, NoKey DEF IInv, TypeOK
<1>2. enabled' => key' # <<0, 0>>
  <2>1. SafeKey = <<0, 0>> => cardKey = 0
    BY DEF SafeKey
  <2> QED BY <2>1 DEF IInv, TypeOK
<1>3. TypeOK'
  BY <1>1, <1>2 DEF IInv, TypeOK, KeyNumbers, SlotType, Fields
<1>4. OpType'
  BY DEF IInv, OpType, Cells, SlotType, KeyNumbers, Fields
<1>5. op.stage = "idle"
  BY IdleTyped
<1>6. Making'
  BY <1>5 DEF IInv, Making
<1>7. key'[2] <= made
  <2>1. key[2] <= made /\ SafeKey[2] <= made /\ <<0, 0>>[2] <= made
    BY SafeKeyTyped, NoKey DEF IInv, TypeOK, Numbers
  <2> QED BY <2>1
<1>8. Numbers'
  BY <1>5, <1>7 DEF IInv, Numbers
<1>9. Fresh'
  <2>1. done = "keys" => ~stale'
    BY DEF IInv, Fresh
  <2>2. done = "reset" => cardKey = 0 /\ (enabled' => stale')
    BY DEF IInv, Fresh
  <2>3. /\ done = "keys" => \A s \in Slots : cell'[s] # Blank => cell'[s].key[2] # cardKey
        /\ cell' = cell /\ done' = done /\ cardKey' = cardKey
    BY DEF IInv, Fresh
  <2> QED BY <2>1, <2>2, <2>3 DEF Fresh
<1>10. EnabledKeyIsInFlash'
  BY <1>5 DEF IInv, EnabledKeyIsInFlash, FlashKey, SafeKey
<1>11. Kept'
  BY DEF IInv, Kept, Content, FlashKey, SafeKey
<1> QED BY <1>3, <1>4, <1>6, <1>8, <1>9, <1>10, <1>11 DEF IInv

LEMMA EnableStep == ASSUME IInv, Enable PROVE IInv'
<1>1. pin' \in BOOLEAN /\ buffer' \in [one : Fields, two : Fields] /\ asked' \in BOOLEAN
  BY DEF Enable, IInv, TypeOK
<1>2. \/ UNCHANGED <<enabled, key, stale>>
      \/ enabled' = TRUE /\ key' = SafeKey /\ stale' = FALSE /\ cardKey # 0
      \/ enabled' = FALSE /\ key' = <<0, 0>> /\ stale' \in {stale, FALSE}
  BY DEF Enable, DecryptKey, IInv, TypeOK
<1> QED BY <1>1, <1>2, KeyStep DEF Enable, flash

LEMMA InitKeyStep == ASSUME IInv, InitKey PROVE IInv'
<1>1. pin' \in BOOLEAN /\ buffer' \in [one : Fields, two : Fields] /\ asked' \in BOOLEAN
  BY DEF InitKey, IInv, TypeOK
<1>2. \/ UNCHANGED <<enabled, key, stale>>
      \/ enabled' = TRUE /\ key' = SafeKey /\ stale' = FALSE /\ cardKey # 0
      \/ enabled' = FALSE /\ key' = <<0, 0>> /\ stale' \in {stale, FALSE}
  BY DEF InitKey, DecryptKey, IInv, TypeOK
<1> QED BY <1>1, <1>2, KeyStep DEF InitKey, flash

LEMMA LockStep == ASSUME IInv, Lock PROVE IInv'
<1>1. pin' \in BOOLEAN /\ buffer' \in [one : Fields, two : Fields] /\ asked' \in BOOLEAN
  BY DEF Lock, IInv, TypeOK
<1> QED BY <1>1, KeyStep DEF Lock, flash

LEMMA OtherUseStep == ASSUME IInv, OtherUse PROVE IInv'
<1>1. buffer' \in [one : Fields, two : Fields] /\ asked' \in BOOLEAN
  BY DEF OtherUse, IInv, TypeOK, history
<1> QED BY <1>1, KeyStep DEF OtherUse, flash, history

LEMMA WriteSlotData_1Step == ASSUME IInv, NEW w \in Words, WriteSlotData_1(w) PROVE IInv'
<1>1. pin' \in BOOLEAN /\ buffer' \in [one : Fields, two : Fields] /\ asked' \in BOOLEAN
  BY FieldsAre DEF WriteSlotData_1, IInv, TypeOK
<1> QED BY <1>1, KeyStep DEF WriteSlotData_1, flash

LEMMA WriteRefusedStep == ASSUME IInv, NEW w \in Words, WriteRefused(w) PROVE IInv'
<1>1. pin' \in BOOLEAN /\ buffer' \in [one : Fields, two : Fields] /\ asked' \in BOOLEAN
  BY FieldsAre DEF WriteRefused, IInv, TypeOK, history
<1> QED BY <1>1, KeyStep DEF WriteRefused, flash, history

\* A slot is written: its page is erased, and held in the page buffer with the new slot.
LEMMA ErasePageStep ==
  ASSUME IInv, op = Idle, enabled, NEW s \in Slots, NEW one \in Fields, NEW two \in Fields,
         NEW used \in BOOLEAN, ErasePage(s, Slot(key, one, two, used)),
         UNCHANGED <<blob, cardKey, made, enabled, key, pin, stale>>,
         done' = None, asked' \in BOOLEAN, buffer' \in [one : Fields, two : Fields],
         stored' = [stored EXCEPT ![s] = IF stale THEN None ELSE Slot(key, one, two, used)] \/ stored' = [stored EXCEPT ![s] = None]
  PROVE IInv'
<1> DEFINE new == Slot(key, one, two, used)
<1>1. new \in SlotType /\ new.key = key
  BY SlotTyped DEF IInv, TypeOK
<1>2. cell' \in [Slots -> Cells]
  BY DEF ErasePage, IInv, TypeOK, Cells
<1>3. op' = [stage |-> "program", slot |-> s, what |-> [cell EXCEPT ![s] = new], blob |-> 0, reset |-> FALSE]
  BY DEF ErasePage, Idle
<1>4. [cell EXCEPT ![s] = new] \in [Slots -> Cells]
  BY <1>1 DEF IInv, TypeOK, Cells
<1>5. stored' \in [Slots -> SlotType \union {None}]
  BY <1>1 DEF IInv, TypeOK
<1> HIDE DEF new
<1>6. op'.stage = "program" /\ op'.slot = s /\ op'.what = [cell EXCEPT ![s] = new] /\ op'.reset = FALSE
      /\ op'.blob \in 0 .. MaxKeys + 1
  BY <1>3, IdleTyped
<1>7. TypeOK'
  BY <1>2, <1>4, <1>5, <1>6 DEF IInv, TypeOK, Cells, KeyNumbers, SlotType, Fields
<1>8. OpType'
  BY <1>3, <1>4, IdleTyped DEF OpType, Stages, Cells, SlotType, KeyNumbers, Fields
<1>9. Making'
  BY <1>6 DEF Making
<1>10. Numbers'
  <2>1. \A t \in Slots : cell'[t] # Blank => cell'[t] = cell[t]
    BY DEF ErasePage
  <2>2. \A t \in Slots : op'.what[t] # Blank => op'.what[t].key[2] <= made
    BY <1>1, <1>6 DEF IInv, TypeOK, Numbers
  <2> QED BY <1>6, <2>1, <2>2 DEF IInv, Numbers
<1>11. Fresh'
  BY DEF Fresh
<1>12. EnabledKeyIsInFlash'
  BY <1>6, IdleTyped DEF IInv, EnabledKeyIsInFlash, FlashKey, SafeKey
<1>13. Kept'
  <2> SUFFICES ASSUME NEW t \in Slots, stored'[t] # None
               PROVE Content(t)' = stored'[t] /\ stored'[t].key = FlashKey'
    BY DEF Kept
  <2>1. FlashKey' = FlashKey /\ op.stage = "idle"
    BY <1>6, IdleTyped DEF FlashKey, SafeKey
  <2>2. CASE t = s
    <3>1. stored'[t] = new /\ ~stale
      BY <2>2 DEF IInv, TypeOK, new
    <3>2. op'.what[t] = new
      BY <1>6, <2>2 DEF IInv, TypeOK
    <3> QED BY <1>1, <1>6, <2>1, <2>2, <3>1, <3>2 DEF IInv, EnabledKeyIsInFlash, Content
  <2>3. CASE t # s
    <3>1. stored'[t] = stored[t]
      BY <2>3 DEF IInv, TypeOK
    <3>2. stored[t] = cell[t] /\ stored[t].key = FlashKey
      BY <2>1, <3>1 DEF IInv, Kept, Content
    <3>3. Content(t)' = cell[t]
      BY <1>6, <2>3 DEF Content, ErasePage, IInv, TypeOK
    <3> QED BY <2>1, <3>1, <3>2, <3>3
  <2> QED BY <2>2, <2>3
<1> QED BY <1>7, <1>8, <1>9, <1>10, <1>11, <1>12, <1>13 DEF IInv

LEMMA WriteSlotData_2Step ==
  ASSUME IInv, NEW s \in Slots, NEW w \in Words, WriteSlotData_2(s, w)
  PROVE IInv'
<1>1. buffer.one \in Fields /\ w \in Fields
  BY FieldsAre DEF IInv, TypeOK
<1>2. buffer' \in [one : Fields, two : Fields] /\ asked' \in BOOLEAN
  BY FieldsAre DEF WriteSlotData_2
<1>3. stored' = [stored EXCEPT ![s] = IF stale THEN None ELSE Slot(key, buffer.one, w, TRUE)] \/ stored' = [stored EXCEPT ![s] = None]
  BY DEF WriteSlotData_2, IInv, TypeOK
<1> QED BY <1>1, <1>2, <1>3, ErasePageStep DEF WriteSlotData_2

LEMMA EraseSlotStep == ASSUME IInv, NEW s \in Slots, EraseSlot(s) PROVE IInv'
<1>1. buffer' \in [one : Fields, two : Fields] /\ asked' \in BOOLEAN
  BY DEF EraseSlot, IInv, TypeOK
<1> QED BY <1>1, FieldsAre, ErasePageStep DEF EraseSlot

LEMMA ProgramStep == ASSUME IInv, Program PROVE IInv'
<1> USE DEF Program, history
<1>1. op.slot \in Slots /\ op.what \in [Slots -> Cells] /\ op' = Idle /\ op'.stage = "idle" /\ op'.reset = FALSE
      /\ op'.blob \in 0 .. MaxKeys + 1
  BY IdleTyped DEF IInv, TypeOK, Cells
<1>2. cell' \in [Slots -> Cells]
  BY <1>1 DEF IInv, TypeOK, Cells
<1>3. TypeOK'
  BY <1>1, <1>2 DEF IInv, TypeOK, Cells
<1>4. OpType' /\ Making'
  BY <1>1, IdleTyped DEF OpType, Making
<1>5. \A s \in Slots : cell'[s] # Blank => cell'[s].key[2] <= made
  BY DEF IInv, Numbers
<1>6. Numbers'
  BY <1>1, <1>5 DEF IInv, Numbers
<1>7. done = None
  BY DEF IInv, Making
<1>8. Fresh'
  BY <1>7 DEF Fresh
<1>9. EnabledKeyIsInFlash'
  BY <1>1 DEF IInv, EnabledKeyIsInFlash, FlashKey, SafeKey
<1>10. Kept'
  <2>1. \A s \in Slots : Content(s)' = Content(s)
    BY <1>1 DEF Content
  <2> QED BY <1>1, <2>1 DEF IInv, Kept, FlashKey, SafeKey
<1> QED BY <1>3, <1>4, <1>6, <1>8, <1>9, <1>10 DEF IInv

\* The user page is erased and programmed: the safe's key is in the page buffer meanwhile.
LEMMA WriteUserPageStep == ASSUME IInv, WriteUserPage PROVE IInv'
<1> USE DEF WriteUserPage, history
<1>1. op' = [stage |-> "user", slot |-> None, what |-> Blank, blob |-> blob, reset |-> FALSE]
  BY DEF Idle
<1>2. op'.stage = "user" /\ op'.blob = blob /\ op'.reset = FALSE /\ op.stage = "idle" /\ blob \in 0 .. MaxKeys + 1
  BY <1>1, IdleTyped DEF IInv, TypeOK
<1>3. TypeOK'
  BY <1>2, IdleTyped DEF IInv, TypeOK
<1>4. OpType'
  <2>1. \A b \in 0 .. MaxKeys + 1 :
          [stage |-> "user", slot |-> None, what |-> Blank, blob |-> b, reset |-> FALSE]
            \in [stage : Stages, slot : Slots \union {None}, what : [Slots -> Cells] \union {Blank},
                blob : 0 .. MaxKeys + 1, reset : BOOLEAN]
    BY DEF Stages
  <2>2. op' \in [stage : Stages, slot : Slots \union {None}, what : [Slots -> Cells] \union {Blank},
                 blob : 0 .. MaxKeys + 1, reset : BOOLEAN]
    BY <1>1, <1>2, <2>1
  <2> QED BY <2>2 DEF OpType
<1>5. Making' /\ Numbers' /\ Fresh'
  BY <1>2 DEF IInv, Making, Numbers, Fresh
<1>6. FlashKey' = FlashKey
  BY <1>2 DEF FlashKey, SafeKey
<1>7. EnabledKeyIsInFlash'
  BY <1>6 DEF IInv, EnabledKeyIsInFlash
<1>8. Kept'
  BY <1>2, <1>6 DEF IInv, Kept, Content
<1> QED BY <1>3, <1>4, <1>5, <1>7, <1>8 DEF IInv

LEMMA ProgramUserPageStep == ASSUME IInv, ProgramUserPage PROVE IInv'
<1> USE DEF ProgramUserPage, history
<1>1. op'.stage = "idle" /\ op'.reset = FALSE /\ op'.blob \in 0 .. MaxKeys + 1 /\ blob' = op.blob
  BY IdleTyped
<1>2. TypeOK'
  BY <1>1 DEF IInv, TypeOK
<1>3. OpType'
  BY IdleTyped DEF OpType
<1>4. Making' /\ Numbers' /\ Fresh'
  BY <1>1 DEF IInv, Making, Numbers, Fresh
<1>5. FlashKey' = FlashKey
  BY <1>1 DEF FlashKey, SafeKey
<1>6. EnabledKeyIsInFlash'
  BY <1>5 DEF IInv, EnabledKeyIsInFlash
<1>7. Kept'
  BY <1>1, <1>5 DEF IInv, Kept, Content
<1> QED BY <1>2, <1>3, <1>4, <1>6, <1>7 DEF IInv

LEMMA EraseUserPageStep == ASSUME IInv, NEW reset \in BOOLEAN, EraseUserPage(reset) PROVE IInv'
<1> USE DEF EraseUserPage
<1>1. op' = [stage |-> "erase", slot |-> None, what |-> Blank, blob |-> 0, reset |-> reset]
  BY DEF Idle
<1>2. op'.stage = "erase" /\ op'.reset = reset /\ op'.blob \in 0 .. MaxKeys + 1
  BY <1>1, IdleTyped
<1>3. stored' \in [Slots -> SlotType \union {None}] /\ \A s \in Slots : stored'[s] = None
  BY DEF Forgotten
<1>4. TypeOK'
  BY <1>2, <1>3 DEF IInv, TypeOK
<1>5. OpType'
  BY <1>1, <1>2 DEF OpType, Stages
<1>6. Making'
  BY <1>2 DEF Making, Forgotten, IInv, TypeOK
<1>7. Numbers'
  BY <1>2 DEF IInv, TypeOK, Numbers
<1>8. Fresh' /\ EnabledKeyIsInFlash' /\ Kept'
  BY <1>3 DEF IInv, TypeOK, Fresh, EnabledKeyIsInFlash, Kept
<1> QED BY <1>4, <1>5, <1>6, <1>7, <1>8 DEF IInv

\* While keys are made nothing is stored, and an enabled safe has a key that is no longer in flash.
LEMMA MakingStep ==
  ASSUME IInv, op.stage \in {"erase", "card", "key"},
         UNCHANGED <<stored, enabled, key, stale, buffer, asked>>
  PROVE EnabledKeyIsInFlash' /\ Kept' /\ key'[2] <= made
<1>1. \A s \in Slots : stored'[s] = None
  BY DEF IInv, Making, Forgotten
<1>2. EnabledKeyIsInFlash'
  BY DEF IInv, Making, EnabledKeyIsInFlash
<1> QED BY <1>1, <1>2 DEF Kept, IInv, Numbers

LEMMA EraseSafeStep == ASSUME IInv, EraseSafe PROVE IInv'
<1> USE DEF EraseSafe
<1>1. op' \in [stage : Stages, slot : Slots \union {None}, what : [Slots -> Cells] \union {Blank},
         blob : 0 .. MaxKeys + 1, reset : BOOLEAN]
  BY IdleTyped DEF IInv, OpType, Stages
<1>2. /\ IF op.reset THEN op'.stage = "idle" /\ op'.reset = FALSE ELSE op'.stage = "card" /\ op'.reset = op.reset
      /\ op'.blob \in 0 .. MaxKeys + 1
  BY IdleTyped DEF IInv, OpType
<1>3. cell' \in [Slots -> Cells] /\ \A s \in Slots : cell'[s] # Blank => cell'[s] = cell[s]
  BY DEF IInv, TypeOK, Cells
<1>4. TypeOK'
  BY <1>2, <1>3 DEF IInv, TypeOK, Cells
<1>5. OpType'
  BY <1>1 DEF OpType
<1>6. Making'
  BY <1>2 DEF IInv, TypeOK, Making
<1>7. Numbers'
  BY <1>2, <1>3 DEF IInv, TypeOK, Numbers
<1>8. /\ done' # "keys"
      /\ done' = "reset" => op.reset
  OBVIOUS
<1>9. EnabledKeyIsInFlash' /\ Kept'
  BY MakingStep
<1>10. Fresh'
  BY <1>8 DEF Fresh, IInv, Making, Numbers
<1> QED BY <1>4, <1>5, <1>6, <1>7, <1>9, <1>10 DEF IInv

LEMMA NewCardKeyStep == ASSUME IInv, NewCardKey PROVE IInv'
<1> USE DEF NewCardKey, flash, history
<1>1. op' \in [stage : Stages, slot : Slots \union {None}, what : [Slots -> Cells] \union {Blank},
         blob : 0 .. MaxKeys + 1, reset : BOOLEAN]
      /\ op'.stage = "key" /\ op'.reset = op.reset /\ op'.blob \in 0 .. MaxKeys + 1
  BY DEF IInv, OpType, Stages
<1>2. made < MaxKeys /\ made \in 1 .. MaxKeys + 1
  BY DEF IInv, TypeOK, Numbers
<1>3. made' \in 1 .. MaxKeys + 1 /\ cardKey' \in 0 .. MaxKeys + 1 /\ made < made'
  BY <1>2
<1>4. TypeOK'
  BY <1>1, <1>3 DEF IInv, TypeOK
<1>5. OpType'
  BY <1>1 DEF OpType
<1>6. Making'
  BY <1>1 DEF IInv, Making
<1>7. key \in KeyNumbers /\ \A s \in Slots : cell[s] # Blank => cell[s].key \in KeyNumbers
  BY DEF IInv, TypeOK, SlotType
<1>8. key'[2] <= made' /\ \A s \in Slots : cell'[s] # Blank => cell'[s].key[2] < made'
  BY <1>2, <1>7 DEF IInv, Numbers, KeyNumbers
<1>9. Numbers'
  <2>1. \A s \in Slots : cell'[s] # Blank => cell'[s].key[2] <= made'
    BY <1>3, <1>7, <1>8 DEF KeyNumbers
  <2> QED BY <1>1, <1>3, <1>8, <2>1 DEF Numbers
<1>10. Fresh' /\ EnabledKeyIsInFlash' /\ Kept'
  BY MakingStep DEF IInv, Making, Fresh
<1> QED BY <1>4, <1>5, <1>6, <1>9, <1>10 DEF IInv

LEMMA NewSafeKeyStep == ASSUME IInv, NewSafeKey PROVE IInv'
<1> USE DEF NewSafeKey
<1>1. op'.stage = "idle" /\ op'.reset = FALSE /\ op'.blob \in 0 .. MaxKeys + 1
  BY IdleTyped
<1>2. TypeOK'
  <2>1. blob' \in 0 .. MaxKeys + 1 /\ done' \in {None, "reset", "keys"}
    BY DEF IInv, TypeOK
  <2> QED BY <1>1, <2>1 DEF IInv, TypeOK
<1>3. OpType' /\ Making'
  BY <1>1, IdleTyped DEF OpType, Making
<1>4. Numbers'
  BY <1>1 DEF IInv, Numbers
<1>5. cardKey = made
  BY DEF IInv, Numbers
<1>6. \A s \in Slots : cell[s] # Blank => cell[s].key[2] # cardKey
  <2> SUFFICES ASSUME NEW s \in Slots, cell[s] # Blank PROVE cell[s].key[2] # made
    BY <1>5
  <2>1. cell[s].key[2] < made
    BY DEF IInv, Numbers
  <2>2. cell[s].key[2] \in Nat /\ made \in Nat
    BY DEF IInv, TypeOK, SlotType, KeyNumbers
  <2> QED BY <2>1, <2>2
<1>7. Fresh'
  BY <1>6 DEF Fresh
<1>8. EnabledKeyIsInFlash'
  BY DEF EnabledKeyIsInFlash
<1>9. Kept'
  BY DEF IInv, Making, Forgotten, Kept
<1> QED BY <1>2, <1>3, <1>4, <1>7, <1>8, <1>9 DEF IInv

LEMMA KeysFailStep == ASSUME IInv, KeysFail PROVE IInv'
<1> USE DEF KeysFail, flash, history
<1>1. op'.stage = "idle" /\ op'.reset = FALSE /\ op'.blob \in 0 .. MaxKeys + 1
  BY IdleTyped
<1>2. TypeOK'
  BY <1>1 DEF IInv, TypeOK
<1>3. OpType' /\ Making'
  BY <1>1, IdleTyped DEF OpType, Making
<1>4. Numbers'
  BY <1>1 DEF IInv, Numbers
<1>5. Fresh' /\ EnabledKeyIsInFlash' /\ Kept'
  BY MakingStep DEF IInv, Making, Fresh
<1> QED BY <1>2, <1>3, <1>4, <1>5 DEF IInv

LEMMA PowerCutStep == ASSUME IInv, PowerCut PROVE IInv'
<1> USE DEF PowerCut, flash
<1>1. op'.stage = "idle" /\ op'.reset = FALSE /\ op'.blob \in 0 .. MaxKeys + 1
  BY IdleTyped
<1>2. stored' \in [Slots -> SlotType \union {None}]
  BY DEF IInv, TypeOK
<1>3. TypeOK'
  BY <1>1, <1>2, NoKey, FieldsAre DEF IInv, TypeOK
<1>4. OpType' /\ Making'
  BY <1>1, IdleTyped DEF OpType, Making
<1>5. Numbers'
  BY <1>1, NoKey DEF IInv, TypeOK, Numbers
<1>6. Fresh' /\ EnabledKeyIsInFlash'
  BY DEF IInv, Fresh, EnabledKeyIsInFlash
<1>7. Kept'
  BY <1>1 DEF IInv, Kept, Content, FlashKey, SafeKey
<1> QED BY <1>3, <1>4, <1>5, <1>6, <1>7 DEF IInv

LEMMA StutterStep == ASSUME IInv, UNCHANGED vars PROVE IInv'
BY DEF IInv, TypeOK, OpType, Making, Numbers, Fresh, EnabledKeyIsInFlash, Kept, Content, FlashKey, SafeKey, vars

THEOREM Invariance == Spec => []IInv
<1>1. ASSUME IInv, [Next]_vars PROVE IInv'
  BY <1>1, EnableStep, InitKeyStep, LockStep, OtherUseStep, PowerCutStep, WriteSlotData_1Step, WriteRefusedStep,
     WriteSlotData_2Step, EraseSlotStep, ProgramStep, WriteUserPageStep, ProgramUserPageStep, EraseUserPageStep, EraseSafeStep, NewCardKeyStep,
     NewSafeKeyStep, KeysFailStep, StutterStep
     DEF Next
<1> QED BY <1>1, Initially, PTL DEF Spec

-----------------------------------------------------------------------------
\* Types, for any number of slots; an enabled safe has a key.
THEOREM TypeCorrect == Spec => []TypeOK
<1>1. IInv => TypeOK
  BY DEF IInv
<1> QED BY <1>1, Invariance, PTL

\* What the host stored in a slot is in flash, under the key that is in flash.
THEOREM StoredRead == Spec => []StoredIsRead
<1>1. IInv => StoredIsRead
  BY IdleTyped DEF IInv, Kept, Content, FlashKey, StoredIsRead
<1> QED BY <1>1, Invariance, PTL

\* New keys make what was stored before illegible, though the erasing leaves one of the two pages; so does a
\* factory reset, unless the safe was enabled and has been so since: its key is then still in RAM.
THEOREM OldForgotten == Spec => []OldIsForgotten
<1>1. ASSUME IInv, done # None, enabled, ~stale, NEW s \in Slots PROVE ReadSlot(s).one \notin Words
  <2>1. done = "keys" /\ op.stage \in {"idle", "user"}
    BY <1>1 DEF IInv, TypeOK, Fresh, Making
  <2>2. key[2] = cardKey
    <3>1. <<op.blob, cardKey>>[2] = cardKey /\ SafeKey[2] = cardKey
      BY DEF SafeKey
    <3> QED BY <1>1, <3>1 DEF IInv, EnabledKeyIsInFlash, FlashKey
  <2>3. ~(cell[s] # Blank /\ cell[s].key = key)
    BY <1>1, <2>1, <2>2 DEF IInv, Fresh
  <2>4. ReadSlot(s).one = Mess
    BY <1>1, <2>3 DEF ReadSlot, Slot
  <2> QED BY <2>4
<1>2. IInv => OldIsForgotten
  BY <1>1 DEF OldIsForgotten
<1> QED BY <1>2, Invariance, PTL
=============================================================================
