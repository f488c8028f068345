------------------------- MODULE OtpSlotPagesProofs -------------------------
(***************************************************************************)
(* Proofs about OtpSlotPages, for every layout of records on pages: the    *)
(* types, that one whole copy of the slots survives every cut of power,    *)
(* that the OK token tells the truth, that the backup forgets what the     *)
(* slots have forgotten, and that the pages implement OtpSlotTable.        *)
(***************************************************************************)
EXTENDS OtpSlotPages, TLAPS

-----------------------------------------------------------------------------
(* The inductive invariant: how far each stage has come, page by page. *)

UpdateStages == {"backup", "length", "address", "slots", "token", "counter"}
ResetStages == {"shredSlots", "shredBackup", "wipeSlots", "wipeBackup"}
IncrementStages == {"base", "baseAddress", "baseLength", "basePage", "baseToken"}

\* The pages before the one at hand are written.
BackupStage ==
  op.stage = "backup" =>
    /\ slots = start
    /\ \A q \in Pages : q < op.page => backup[q] = image[q]
    /\ op.erased /\ op.page = NPages => ~trailer.ok

BackedUp ==
  op.stage \in {"length", "address"} => slots = start /\ backup = image /\ ~trailer.ok

\* The pages before the one at hand are new, the ones after it old.
SlotsStage ==
  op.stage = "slots" =>
    /\ backup = image /\ ~trailer.ok
    /\ \A q \in Pages : q < op.page => slots[q] = image[q]
    /\ \A q \in Pages : q > op.page => slots[q] = start[q]
    /\ ~op.erased => slots[op.page] = start[op.page]

TokenStage == /\ op.stage \in {"token", "counter"} => slots = image
              /\ op.stage = "token" => ~trailer.ok

Stage == BackupStage /\ BackedUp /\ SlotsStage /\ TokenStage

\* An update owes the host a copy; a reset does not.  While a full counter page is saved, the
\* slot pages are whole, or nothing is owed.
Owing == /\ op.stage \in UpdateStages => owed
         /\ op.stage \in ResetStages => ~owed
         /\ op.stage \in IncrementStages => (owed => slots \in {start, image})

IInv == TypeOK /\ Stage /\ Owing /\ OneCopyIsWhole /\ TokenTellsTruth

-----------------------------------------------------------------------------
(* Images *)

LEMMA PagesAreNat ==
  /\ \A q \in Pages : q \in Nat /\ 1 <= q /\ q <= NPages
  /\ \A q \in Pages : q < NPages => q + 1 \in Pages
  /\ NPages \in Pages /\ 1 \in Pages
BY PagesAssumption DEF Pages

\* An image whose pages are those of another is that image.
LEMMA SameImage ==
  ASSUME NEW f, NEW g, IsImage(f), IsImage(g), \A p \in Pages : f[p] = g[p]
  PROVE  f = g
BY DEF IsImage

LEMMA FilledIsImage ==
  ASSUME NEW v \in Parts
  PROVE  IsImage(Filled(v)) /\ \A p \in Pages : PageOf(v, p) \in [OnPage(p) -> Parts]
BY DEF IsImage, Filled, PageOf

LEMMA SomeParts == Blank \in Parts /\ Random \in Parts
BY DEF Blank, Random, Parts
-----------------------------------------------------------------------------
(* The commands *)

THEOREM InitIInv == Init => IInv
<1> SUFFICES ASSUME Init PROVE IInv
  OBVIOUS
<1>1. IsImage(slots) /\ IsImage(backup) /\ start = slots /\ image = backup
  BY FilledIsImage, SomeParts DEF Init
<1>2. TypeOK
  BY <1>1, PagesAreNat DEF Init, TypeOK, NoTrailer, Idle, At, Stages, Outcomes
<1>3. Stage /\ Owing
  BY DEF Init, Stage, BackupStage, BackedUp, SlotsStage, TokenStage, Owing, UpdateStages, ResetStages, IncrementStages, Idle, At
<1>4. OneCopyIsWhole /\ TokenTellsTruth
  BY DEF Init, OneCopyIsWhole, TokenTellsTruth
<1> QED BY <1>2, <1>3, <1>4 DEF IInv

\* What an update may be asked for.
Asked == [name : Names \union {FF}, secret : Secrets \union {FF, Keep}]

LEMMA BeginStep ==
  ASSUME IInv, NEW c \in Cells, NEW v \in Asked, Begin(c, v)
  PROVE  IInv'
<1>1. TypeOK /\ op = Idle /\ op' = At("backup", 1, FALSE)
  BY DEF IInv, Begin
<1>2. \A old \in Parts : Merged(old, v) \in Parts
  BY PagesAssumption DEF Merged, Parts, Asked
<1>3. IsImage(image')
  <2>1. \A p \in Pages : [d \in OnPage(p) |-> IF d = c THEN Merged(slots[p][d], v)
                                              ELSE slots[p][d]] \in [OnPage(p) -> Parts]
    BY <1>1, <1>2 DEF TypeOK, IsImage
  <2> QED BY <2>1 DEF Begin, IsImage
<1>4. TypeOK'
  BY <1>1, <1>3, PagesAreNat DEF TypeOK, Begin, flash, At, Stages, Outcomes
<1>5. Stage' /\ Owing'
  <2>1. op'.stage = "backup" /\ op'.page = 1 /\ op'.erased = FALSE /\ slots' = start' /\ owed'
    BY <1>1 DEF At, Begin, flash
  <2> QED BY <2>1, PagesAreNat DEF Stage, BackupStage, BackedUp, SlotsStage, TokenStage, Owing,
               UpdateStages, ResetStages, IncrementStages
<1>6. OneCopyIsWhole' /\ TokenTellsTruth'
  BY DEF OneCopyIsWhole, TokenTellsTruth, Begin, flash
<1> QED BY <1>4, <1>5, <1>6 DEF IInv

LEMMA RequestSteps ==
  ASSUME IInv, WriteSlot \/ EraseSlot \/ WriteConfig
  PROVE  IInv'
<1>1. Blank \in Asked /\ Requests \subseteq Asked /\ Config \in Cells
  BY PagesAssumption DEF Blank, Requests, Asked
<1>2. \A n \in Names : [name |-> n, secret |-> FF] \in Asked
  BY DEF Asked
<1>3. CASE WriteSlot
  BY <1>1, <1>3, BeginStep DEF WriteSlot
<1>4. CASE EraseSlot
  BY <1>1, <1>4, BeginStep DEF EraseSlot
<1>5. CASE WriteConfig
  BY <1>1, <1>2, <1>5, BeginStep DEF WriteConfig
<1> QED BY <1>3, <1>4, <1>5

\* What the stages have in common: where the next command is, and the types it leaves.
LEMMA NextPageType ==
  ASSUME TypeOK, NEW stage \in Stages, NEW then \in [stage : Stages, page : Pages, erased : BOOLEAN],
         NextPage(stage, then)
  PROVE  /\ op' \in [stage : Stages, page : Pages, erased : BOOLEAN]
         /\ op.page # NPages => op' = At(stage, op.page + 1, FALSE)
         /\ op.page = NPages => op' = then
BY PagesAreNat DEF NextPage, At, TypeOK

LEMMA BackupErasedType ==
  ASSUME TypeOK, BackupErased
  PROVE  /\ IsImage(backup')
         /\ trailer' \in [length : BOOLEAN, address : BOOLEAN, ok : BOOLEAN]
         /\ trailer'.ok => trailer.ok
         /\ op.page = NPages => ~trailer'.ok
         /\ \A q \in Pages : q # op.page => backup'[q] = backup[q]
<1>1. PageOf(Blank, op.page) \in [OnPage(op.page) -> Parts] /\ op.page \in Pages
  BY SomeParts, FilledIsImage DEF TypeOK
<1>2. backup' = [backup EXCEPT ![op.page] = PageOf(Blank, op.page)] /\ IsImage(backup)
  BY DEF TypeOK, BackupErased
<1>3. IsImage(backup') /\ \A q \in Pages : q # op.page => backup'[q] = backup[q]
  BY <1>1, <1>2 DEF IsImage
<1> QED BY <1>3 DEF TypeOK, BackupErased, NoTrailer

LEMMA SlotsErasedType ==
  ASSUME TypeOK, SlotsErased
  PROVE  /\ IsImage(slots')
         /\ \A q \in Pages : q # op.page => slots'[q] = slots[q]
<1>1. PageOf(Blank, op.page) \in [OnPage(op.page) -> Parts] /\ op.page \in Pages
  BY SomeParts, FilledIsImage DEF TypeOK
<1>2. slots' = [slots EXCEPT ![op.page] = PageOf(Blank, op.page)] /\ IsImage(slots)
  BY DEF TypeOK, SlotsErased
<1> QED BY <1>1, <1>2 DEF IsImage

LEMMA BackupSteps ==
  ASSUME IInv, EraseBackupPage \/ WriteBackupPage
  PROVE  IInv'
<1>1. TypeOK /\ op.stage = "backup" /\ slots = start /\ owed /\ op.page \in Pages
  BY DEF IInv, Stage, BackupStage, EraseBackupPage, WriteBackupPage, Owing, UpdateStages, ResetStages, IncrementStages, TypeOK
<1>2. \A q \in Pages : q < op.page => backup[q] = image[q]
  BY <1>1 DEF IInv, Stage, BackupStage
<1>3. UNCHANGED <<slots, target, outcome, start, image, owed>>
  BY DEF EraseBackupPage, WriteBackupPage
<1>4. OneCopyIsWhole' /\ TokenTellsTruth'
  BY <1>1, <1>3 DEF OneCopyIsWhole, TokenTellsTruth
<1>5. CASE EraseBackupPage
  <2>1. /\ op'.stage = "backup" /\ op'.page = op.page /\ op'.erased
        /\ op' \in [stage : Stages, page : Pages, erased : BOOLEAN]
    BY <1>1, <1>5 DEF EraseBackupPage, TypeOK
  <2>2. TypeOK'
    BY <1>1, <1>3, <1>5, <2>1, BackupErasedType DEF EraseBackupPage, TypeOK
  <2>3. \A q \in Pages : q < op.page => backup'[q] = image[q]
    BY <1>1, <1>2, <1>5, BackupErasedType, PagesAreNat DEF EraseBackupPage
  <2>4. op.page = NPages => ~trailer'.ok
    BY <1>1, <1>5, BackupErasedType DEF EraseBackupPage
  <2>5. Stage' /\ Owing'
    BY <1>1, <1>3, <2>1, <2>3, <2>4 DEF Stage, BackupStage, BackedUp, SlotsStage, TokenStage,
      Owing, UpdateStages, ResetStages, IncrementStages
  <2> QED BY <1>4, <2>2, <2>5 DEF IInv
<1>6. CASE WriteBackupPage
  <2>1. /\ IsImage(backup') /\ backup'[op.page] = image[op.page] /\ trailer' = trailer
        /\ \A q \in Pages : q # op.page => backup'[q] = backup[q]
    BY <1>1, <1>6 DEF WriteBackupPage, TypeOK, IsImage
  <2>2. \A q \in Pages : q <= op.page => backup'[q] = image[q]
    BY <1>1, <1>2, <2>1, PagesAreNat
  <2>3. At("length", NPages, FALSE) \in [stage : Stages, page : Pages, erased : BOOLEAN]
    BY PagesAreNat DEF At, Stages
  <2>4. /\ op' \in [stage : Stages, page : Pages, erased : BOOLEAN]
        /\ op.page # NPages => op' = At("backup", op.page + 1, FALSE)
        /\ op.page = NPages => op' = At("length", NPages, FALSE)
    BY <1>1, <1>6, <2>3, NextPageType DEF WriteBackupPage, Stages
  <2>5. TypeOK'
    BY <1>1, <1>3, <2>1, <2>4 DEF TypeOK
  <2>6. CASE op.page # NPages
    <3>1. op'.stage = "backup" /\ op'.page = op.page + 1 /\ ~op'.erased
      BY <2>4, <2>6 DEF At
    <3>2. \A q \in Pages : q < op'.page => backup'[q] = image'[q]
      BY <1>1, <1>3, <2>2, <3>1, PagesAreNat
    <3>3. Stage' /\ Owing'
      BY <1>1, <1>3, <3>1, <3>2 DEF Stage, BackupStage, BackedUp, SlotsStage, TokenStage, Owing,
        UpdateStages, ResetStages, IncrementStages
    <3> QED BY <1>4, <2>5, <3>3 DEF IInv
  <2>7. CASE op.page = NPages
    <3>1. op'.stage = "length"
      BY <2>4, <2>7 DEF At
    <3>2. backup' = image
      BY <1>1, <2>1, <2>2, <2>7, PagesAreNat, SameImage DEF TypeOK
    <3>3. ~trailer'.ok
      BY <1>6, <1>1, <2>1, <2>7 DEF IInv, Stage, BackupStage, WriteBackupPage
    <3>4. Stage' /\ Owing'
      BY <1>1, <1>3, <3>1, <3>2, <3>3 DEF Stage, BackupStage, BackedUp, SlotsStage, TokenStage,
        Owing, UpdateStages, ResetStages, IncrementStages
    <3> QED BY <1>4, <2>5, <3>4 DEF IInv
  <2> QED BY <2>6, <2>7
<1> QED BY <1>5, <1>6

LEMMA FieldSteps ==
  ASSUME IInv, WriteLength \/ WriteAddress
  PROVE  IInv'
<1>1. /\ TypeOK /\ slots = start /\ backup = image /\ ~trailer.ok /\ owed
      /\ UNCHANGED <<slots, backup, target, outcome, start, image, owed>>
  BY DEF IInv, Stage, BackedUp, WriteLength, WriteAddress, Owing, UpdateStages, ResetStages, IncrementStages
<1>2. /\ trailer' \in [length : BOOLEAN, address : BOOLEAN, ok : BOOLEAN]
      /\ ~trailer'.ok
  BY <1>1 DEF TypeOK, WriteLength, WriteAddress
<1>3. op' = At("address", NPages, FALSE) \/ op' = At("slots", 1, FALSE)
  BY DEF WriteLength, WriteAddress
<1>4. TypeOK'
  <2>1. op' \in [stage : Stages, page : Pages, erased : BOOLEAN]
    <3>1. /\ At("address", NPages, FALSE) \in [stage : Stages, page : Pages, erased : BOOLEAN]
          /\ At("slots", 1, FALSE) \in [stage : Stages, page : Pages, erased : BOOLEAN]
      BY PagesAreNat DEF At, Stages
    <3> QED BY <1>3, <3>1
  <2> QED BY <1>1, <1>2, <2>1 DEF TypeOK
<1>5. Stage' /\ Owing'
  <2>1. CASE op' = At("address", NPages, FALSE)
    BY <1>1, <1>2, <2>1 DEF At, Stage, BackupStage, BackedUp, SlotsStage, TokenStage, Owing,
      UpdateStages, ResetStages, IncrementStages
  <2>2. CASE op' = At("slots", 1, FALSE)
    BY <1>1, <1>2, <2>2, PagesAreNat DEF At, Stage, BackupStage, BackedUp, SlotsStage,
      TokenStage, Owing, UpdateStages, ResetStages, IncrementStages
  <2> QED BY <1>3, <2>1, <2>2
<1>6. OneCopyIsWhole' /\ TokenTellsTruth'
  BY <1>1, <1>2 DEF OneCopyIsWhole, TokenTellsTruth
<1> QED BY <1>4, <1>5, <1>6 DEF IInv

LEMMA SlotSteps ==
  ASSUME IInv, EraseSlotPage \/ WriteSlotPage
  PROVE  IInv'
<1>1. /\ TypeOK /\ op.stage = "slots" /\ owed /\ op.page \in Pages
      /\ backup = image /\ ~trailer.ok
      /\ UNCHANGED <<backup, trailer, target, outcome, start, image, owed>>
  BY DEF IInv, Stage, SlotsStage, EraseSlotPage, WriteSlotPage, Owing, UpdateStages, ResetStages, IncrementStages, TypeOK
<1>2. /\ \A q \in Pages : q < op.page => slots[q] = image[q]
      /\ \A q \in Pages : q > op.page => slots[q] = start[q]
  BY <1>1 DEF IInv, Stage, SlotsStage
<1>3. OneCopyIsWhole' /\ TokenTellsTruth'
  BY <1>1 DEF OneCopyIsWhole, TokenTellsTruth
<1>4. CASE EraseSlotPage
  <2>1. /\ op'.stage = "slots" /\ op'.page = op.page /\ op'.erased
        /\ op' \in [stage : Stages, page : Pages, erased : BOOLEAN]
    BY <1>1, <1>4 DEF EraseSlotPage, TypeOK
  <2>2. IsImage(slots') /\ \A q \in Pages : q # op.page => slots'[q] = slots[q]
    BY <1>1, <1>4, SlotsErasedType DEF EraseSlotPage
  <2>3. TypeOK'
    BY <1>1, <2>1, <2>2 DEF TypeOK
  <2>4. /\ \A q \in Pages : q < op.page => slots'[q] = image[q]
        /\ \A q \in Pages : q > op.page => slots'[q] = start[q]
    BY <1>1, <1>2, <2>2, PagesAreNat
  <2>5. Stage' /\ Owing'
    BY <1>1, <2>1, <2>4 DEF Stage, BackupStage, BackedUp, SlotsStage, TokenStage, Owing,
      UpdateStages, ResetStages, IncrementStages
  <2> QED BY <1>3, <2>3, <2>5 DEF IInv
<1>5. CASE WriteSlotPage
  <2>1. /\ IsImage(slots') /\ slots'[op.page] = image[op.page]
        /\ \A q \in Pages : q # op.page => slots'[q] = slots[q]
    BY <1>1, <1>5 DEF WriteSlotPage, TypeOK, IsImage
  <2>2. /\ \A q \in Pages : q <= op.page => slots'[q] = image[q]
        /\ \A q \in Pages : q > op.page => slots'[q] = start[q]
    BY <1>1, <1>2, <2>1, PagesAreNat
  <2>3. At("token", NPages, FALSE) \in [stage : Stages, page : Pages, erased : BOOLEAN]
    BY PagesAreNat DEF At, Stages
  <2>4. /\ op' \in [stage : Stages, page : Pages, erased : BOOLEAN]
        /\ op.page # NPages => op' = At("slots", op.page + 1, FALSE)
        /\ op.page = NPages => op' = At("token", NPages, FALSE)
    BY <1>1, <1>5, <2>3, NextPageType DEF WriteSlotPage, Stages
  <2>5. TypeOK'
    BY <1>1, <2>1, <2>4 DEF TypeOK
  <2>6. CASE op.page # NPages
    <3>1. op'.stage = "slots" /\ op'.page = op.page + 1 /\ ~op'.erased /\ op'.page \in Pages
      BY <1>1, <2>4, <2>6, PagesAreNat DEF At
    <3>2. /\ \A q \in Pages : q < op'.page => slots'[q] = image[q]
          /\ \A q \in Pages : q > op'.page => slots'[q] = start[q]
          /\ slots'[op'.page] = start[op'.page]
      BY <1>1, <2>2, <3>1, PagesAreNat
    <3>3. Stage' /\ Owing'
      BY <1>1, <3>1, <3>2 DEF Stage, BackupStage, BackedUp, SlotsStage, TokenStage, Owing,
        UpdateStages, ResetStages, IncrementStages
    <3> QED BY <1>3, <2>5, <3>3 DEF IInv
  <2>7. CASE op.page = NPages
    <3>1. op'.stage = "token"
      BY <2>4, <2>7 DEF At
    <3>2. slots' = image
      BY <1>1, <2>1, <2>2, <2>7, PagesAreNat, SameImage DEF TypeOK
    <3>3. Stage' /\ Owing'
      BY <1>1, <3>1, <3>2 DEF Stage, BackupStage, BackedUp, SlotsStage, TokenStage, Owing,
        UpdateStages, ResetStages, IncrementStages
    <3> QED BY <1>3, <2>5, <3>3 DEF IInv
  <2> QED BY <2>6, <2>7
<1> QED BY <1>4, <1>5

LEMMA TokenSteps ==
  ASSUME IInv, EraseTokenPage \/ WriteToken \/ EraseCounter
  PROVE  IInv'
<1>1. /\ TypeOK /\ op.stage \in {"token", "counter"} /\ owed /\ slots = image
      /\ UNCHANGED <<slots, image, owed>>
  BY DEF IInv, Stage, TokenStage, EraseTokenPage, WriteToken, EraseCounter, Owing, UpdateStages, ResetStages, IncrementStages
<1>2. OneCopyIsWhole' /\ TokenTellsTruth'
  BY <1>1 DEF OneCopyIsWhole, TokenTellsTruth
<1>3. Idle \in [stage : Stages, page : Pages, erased : BOOLEAN] /\ Idle.stage = "idle"
  BY PagesAreNat DEF Idle, At, Stages
<1>4. CASE EraseTokenPage
  <2>1. /\ op'.stage = "token" /\ op' \in [stage : Stages, page : Pages, erased : BOOLEAN]
        /\ ~trailer.ok
    BY <1>1, <1>4 DEF EraseTokenPage, TypeOK, IInv, Stage, TokenStage
  <2>2. /\ IsImage(backup') /\ ~trailer'.ok
        /\ trailer' \in [length : BOOLEAN, address : BOOLEAN, ok : BOOLEAN]
    BY <1>1, <1>4, <2>1, BackupErasedType DEF EraseTokenPage
  <2>3. TypeOK'
    BY <1>1, <1>4, <2>1, <2>2 DEF TypeOK, EraseTokenPage
  <2>4. Stage' /\ Owing'
    BY <1>1, <2>1, <2>2 DEF Stage, BackupStage, BackedUp, SlotsStage, TokenStage, Owing,
      UpdateStages, ResetStages, IncrementStages
  <2> QED BY <1>2, <2>3, <2>4 DEF IInv
<1>5. CASE WriteToken
  <2>1. op'.stage \in {"idle", "counter"} /\ op' \in [stage : Stages, page : Pages, erased : BOOLEAN]
    <3>1. CASE op' = At("counter", NPages, FALSE)
      BY <3>1, PagesAreNat DEF At, Stages
    <3> QED BY <1>3, <1>5, <3>1 DEF WriteToken, Done
  <2>2. IsImage(backup')
    BY <1>1, <1>5, PagesAreNat DEF WriteToken, TypeOK, IsImage
  <2>3. /\ target' \in Cells \union {None, All} /\ outcome' \in Outcomes /\ IsImage(start')
        /\ trailer' \in [length : BOOLEAN, address : BOOLEAN, ok : BOOLEAN]
    BY <1>1, <1>5 DEF WriteToken, Done, TypeOK, Outcomes
  <2>4. TypeOK'
    BY <1>1, <2>1, <2>2, <2>3 DEF TypeOK
  <2>5. Stage' /\ Owing'
    BY <1>1, <2>1 DEF Stage, BackupStage, BackedUp, SlotsStage, TokenStage, Owing, UpdateStages, ResetStages, IncrementStages
  <2> QED BY <1>2, <2>4, <2>5 DEF IInv
<1>6. CASE EraseCounter
  <2>1. op' = Idle /\ target' = None /\ outcome' = "done" /\ start' = image
    BY <1>6 DEF EraseCounter, Done
  <2>2. /\ IsImage(backup')
        /\ trailer' \in [length : BOOLEAN, address : BOOLEAN, ok : BOOLEAN]
    BY <1>1, <1>6, BackupErasedType DEF EraseCounter
  <2>3. TypeOK'
    BY <1>1, <1>3, <2>1, <2>2 DEF TypeOK, Outcomes
  <2>4. Stage' /\ Owing'
    BY <1>1, <1>3, <2>1 DEF Stage, BackupStage, BackedUp, SlotsStage, TokenStage, Owing,
      UpdateStages, ResetStages, IncrementStages
  <2> QED BY <1>2, <2>3, <2>4 DEF IInv
<1> QED BY <1>4, <1>5, <1>6

\* A factory reset owes nothing.
LEMMA NothingOwed ==
  ASSUME TypeOK', ~owed', op'.stage \notin UpdateStages
  PROVE  IInv'
BY DEF IInv, Stage, BackupStage, BackedUp, SlotsStage, TokenStage, Owing, UpdateStages, ResetStages, IncrementStages,
  OneCopyIsWhole, TokenTellsTruth

LEMMA ResetSteps ==
  ASSUME IInv, FactoryReset \/ ErasePage \/ ShredPage
  PROVE  IInv'
<1>1. TypeOK
  BY DEF IInv
<1>2. CASE FactoryReset
  <2>1. op'.stage = "shredSlots" /\ op' \in [stage : Stages, page : Pages, erased : BOOLEAN]
    BY <1>2, PagesAreNat DEF FactoryReset, At, Stages
  <2>2. IsImage(image') /\ ~owed'
    BY <1>2, SomeParts, FilledIsImage DEF FactoryReset
  <2>3. TypeOK'
    BY <1>1, <1>2, <2>1, <2>2 DEF TypeOK, FactoryReset, flash, Outcomes
  <2> QED BY <2>1, <2>2, <2>3, NothingOwed DEF UpdateStages
<1>3. CASE ErasePage
  <2>1. op.stage \in {"shredSlots", "wipeSlots", "shredBackup", "wipeBackup"} /\ ~owed'
    BY <1>3 DEF ErasePage, IInv, Owing, UpdateStages, ResetStages, IncrementStages
  <2>2. /\ IsImage(slots') /\ IsImage(backup')
        /\ trailer' \in [length : BOOLEAN, address : BOOLEAN, ok : BOOLEAN]
    BY <1>1, <1>3, SlotsErasedType, BackupErasedType DEF ErasePage, TypeOK
  <2>3. /\ Idle \in [stage : Stages, page : Pages, erased : BOOLEAN]
        /\ At("wipeBackup", 1, FALSE) \in [stage : Stages, page : Pages, erased : BOOLEAN]
    BY PagesAreNat DEF Idle, At, Stages
  <2>4. /\ op' \in [stage : Stages, page : Pages, erased : BOOLEAN]
        /\ op'.stage \notin UpdateStages
    <3>1. CASE op.stage \in {"shredSlots", "shredBackup"} /\ op' = [op EXCEPT !.erased = TRUE]
      BY <1>1, <3>1 DEF TypeOK, UpdateStages
    <3>2. CASE op.stage = "wipeSlots" /\ NextPage("wipeSlots", At("wipeBackup", 1, FALSE))
      <4>1. \/ op' = At("wipeSlots", op.page + 1, FALSE)
            \/ op' = At("wipeBackup", 1, FALSE)
        BY <1>1, <2>3, <3>2, NextPageType DEF Stages
      <4>2. op' \in [stage : Stages, page : Pages, erased : BOOLEAN]
        BY <1>1, <2>3, <3>2, NextPageType DEF Stages
      <4>3. op'.stage \notin UpdateStages
        BY <4>1 DEF At, UpdateStages
      <4> QED BY <4>2, <4>3
    <3>3. CASE op.stage = "wipeBackup" /\ NextPage("wipeBackup", Idle)
      <4>1. op' = At("wipeBackup", op.page + 1, FALSE) \/ op' = Idle
        BY <1>1, <2>3, <3>3, NextPageType DEF Stages
      <4>2. op' \in [stage : Stages, page : Pages, erased : BOOLEAN]
        BY <1>1, <2>3, <3>3, NextPageType DEF Stages
      <4>3. op'.stage \notin UpdateStages
        BY <4>1 DEF Idle, At, UpdateStages
      <4> QED BY <4>2, <4>3
    <3> QED BY <1>3, <3>1, <3>2, <3>3 DEF ErasePage
  <2>5. target' \in Cells \union {None, All} /\ outcome' \in Outcomes
    BY <1>1, <1>3 DEF ErasePage, TypeOK, Outcomes
  <2>6. TypeOK'
    BY <1>1, <1>3, <2>2, <2>4, <2>5 DEF TypeOK, ErasePage
  <2> QED BY <2>1, <2>4, <2>6, NothingOwed
<1>4. CASE ShredPage
  <2>1. op.stage \in {"shredSlots", "shredBackup"} /\ ~owed' /\ op.page \in Pages
    BY <1>1, <1>4 DEF ShredPage, IInv, Owing, UpdateStages, ResetStages, IncrementStages, TypeOK
  <2>2. PageOf(Random, op.page) \in [OnPage(op.page) -> Parts]
    BY <2>1, SomeParts, FilledIsImage
  <2>3. /\ IsImage(slots') /\ IsImage(backup')
        /\ trailer' \in [length : BOOLEAN, address : BOOLEAN, ok : BOOLEAN]
    <3>1. CASE slots' = [slots EXCEPT ![op.page] = PageOf(Random, op.page)]
                 /\ UNCHANGED <<backup, trailer>>
      BY <1>1, <2>1, <2>2, <3>1 DEF TypeOK, IsImage
    <3>2. CASE /\ backup' = [backup EXCEPT ![op.page] = PageOf(Random, op.page)]
               /\ UNCHANGED slots
               /\ trailer' = IF op.page = NPages
                             THEN [length |-> TRUE, address |-> TRUE, ok |-> FALSE] ELSE trailer
      <4>1. IsImage(slots') /\ IsImage(backup')
        BY <1>1, <2>1, <2>2, <3>2 DEF TypeOK, IsImage
      <4>2. trailer' \in [length : BOOLEAN, address : BOOLEAN, ok : BOOLEAN]
        BY <1>1, <3>2 DEF TypeOK
      <4> QED BY <4>1, <4>2
    <3> QED BY <1>4, <3>1, <3>2 DEF ShredPage
  <2>4. /\ At("shredBackup", 1, FALSE) \in [stage : Stages, page : Pages, erased : BOOLEAN]
        /\ At("wipeSlots", 1, FALSE) \in [stage : Stages, page : Pages, erased : BOOLEAN]
    BY PagesAreNat DEF At, Stages
  <2>5. /\ op' \in [stage : Stages, page : Pages, erased : BOOLEAN]
        /\ op'.stage \notin UpdateStages
    <3>1. CASE op.stage = "shredSlots" /\ NextPage("shredSlots", At("shredBackup", 1, FALSE))
      <4>1. \/ op' = At("shredSlots", op.page + 1, FALSE)
            \/ op' = At("shredBackup", 1, FALSE)
        BY <1>1, <2>4, <3>1, NextPageType DEF Stages
      <4>2. op' \in [stage : Stages, page : Pages, erased : BOOLEAN]
        BY <1>1, <2>4, <3>1, NextPageType DEF Stages
      <4>3. op'.stage \notin UpdateStages
        BY <4>1 DEF At, UpdateStages
      <4> QED BY <4>2, <4>3
    <3>2. CASE op.stage = "shredBackup" /\ NextPage("shredBackup", At("wipeSlots", 1, FALSE))
      <4>1. \/ op' = At("shredBackup", op.page + 1, FALSE)
            \/ op' = At("wipeSlots", 1, FALSE)
        BY <1>1, <2>4, <3>2, NextPageType DEF Stages
      <4>2. op' \in [stage : Stages, page : Pages, erased : BOOLEAN]
        BY <1>1, <2>4, <3>2, NextPageType DEF Stages
      <4>3. op'.stage \notin UpdateStages
        BY <4>1 DEF At, UpdateStages
      <4> QED BY <4>2, <4>3
    <3> QED BY <1>4, <3>1, <3>2 DEF ShredPage
  <2>6. TypeOK'
    BY <1>1, <1>4, <2>3, <2>5 DEF TypeOK, ShredPage
  <2> QED BY <2>1, <2>5, <2>6, NothingOwed
<1> QED BY <1>2, <1>3, <1>4

\* Whatever stage the cut hits, OneCopyIsWhole and TokenTellsTruth already hold of it.
LEMMA PowerLossStep ==
  ASSUME IInv, PowerLoss
  PROVE  IInv'
<1>1. op'.stage = "idle" /\ op' \in [stage : Stages, page : Pages, erased : BOOLEAN]
  BY PagesAreNat DEF PowerLoss, Idle, At, Stages
<1>2. TypeOK'
  BY <1>1 DEF IInv, TypeOK, PowerLoss, flash, Outcomes
<1>3. Stage' /\ Owing'
  BY <1>1 DEF Stage, BackupStage, BackedUp, SlotsStage, TokenStage, Owing, UpdateStages, ResetStages, IncrementStages
<1>4. OneCopyIsWhole' /\ TokenTellsTruth'
  BY DEF IInv, OneCopyIsWhole, TokenTellsTruth, PowerLoss, flash
<1> QED BY <1>2, <1>3, <1>4 DEF IInv

\* Saving a full counter page touches the slot pages never, and the token only to clear it.
LEMMA IncrementSteps ==
  ASSUME IInv, ClearBackup \/ WriteBase \/ WriteBaseFields \/ WriteBaseToken
  PROVE  IInv'
<1>1. TypeOK /\ UNCHANGED <<slots, target, outcome, start, image>>
  BY DEF IInv, ClearBackup, WriteBase, WriteBaseFields, WriteBaseToken, flash
<1>2. /\ op' \in [stage : Stages, page : Pages, erased : BOOLEAN]
      /\ op'.stage \in IncrementStages \union {"idle"}
  <2>1. /\ At("base", 1, FALSE) \in [stage : Stages, page : Pages, erased : BOOLEAN]
        /\ At("baseAddress", NPages, FALSE) \in [stage : Stages, page : Pages, erased : BOOLEAN]
        /\ At("baseLength", NPages, FALSE) \in [stage : Stages, page : Pages, erased : BOOLEAN]
        /\ At("basePage", 1, FALSE) \in [stage : Stages, page : Pages, erased : BOOLEAN]
        /\ At("baseToken", NPages, FALSE) \in [stage : Stages, page : Pages, erased : BOOLEAN]
        /\ Idle \in [stage : Stages, page : Pages, erased : BOOLEAN]
    BY PagesAreNat DEF At, Stages, Idle
  <2>2. op' \in {At("base", 1, FALSE), At("baseAddress", NPages, FALSE), At("baseLength", NPages, FALSE),
                 At("basePage", 1, FALSE), At("baseToken", NPages, FALSE), Idle}
    BY DEF ClearBackup, WriteBase, WriteBaseFields, WriteBaseToken
  <2>3. op' \in [stage : Stages, page : Pages, erased : BOOLEAN]
    BY <2>1, <2>2
  <2>4. op'.stage \in IncrementStages \union {"idle"}
    BY <2>2 DEF At, Idle, IncrementStages
  <2> QED BY <2>3, <2>4
<1>3. /\ trailer' \in [length : BOOLEAN, address : BOOLEAN, ok : BOOLEAN]
      /\ trailer'.ok => trailer.ok
  BY <1>1, BackupErasedType DEF TypeOK, ClearBackup, WriteBase, WriteBaseFields, WriteBaseToken, flash
<1>4. IsImage(backup')
  <2>1. CASE WriteBase
    <3>1. [c \in OnPage(1) |-> IF c = Config THEN Garbled ELSE Blank] \in [OnPage(1) -> Parts]
      BY SomeParts DEF Garbled, Parts
    <3> QED BY <1>1, <2>1, <3>1, PagesAreNat DEF WriteBase, TypeOK, IsImage
  <2>2. CASE ClearBackup
    BY <1>1, <2>2, BackupErasedType DEF ClearBackup
  <2>3. CASE UNCHANGED backup
    BY <1>1, <2>3 DEF TypeOK, IsImage
  <2> QED BY <2>1, <2>2, <2>3 DEF WriteBaseFields, WriteBaseToken, flash
<1>5. owed' => owed /\ slots \in {start, image}
  <2>1. CASE ClearBackup
    BY <2>1 DEF ClearBackup
  <2>2. CASE WriteBase \/ WriteBaseFields \/ WriteBaseToken
    BY <1>1, <2>2, PagesAreNat DEF WriteBase, WriteBaseFields, WriteBaseToken, IInv, Owing, IncrementStages
  <2> QED BY <2>1, <2>2
<1>6. owed' \in BOOLEAN
  BY <1>1 DEF TypeOK, ClearBackup, WriteBase, WriteBaseFields, WriteBaseToken
<1>7. TypeOK'
  BY <1>1, <1>2, <1>3, <1>4, <1>6 DEF TypeOK, IsImage
<1>8. Stage' /\ Owing'
  BY <1>1, <1>2, <1>5 DEF Stage, BackupStage, BackedUp, SlotsStage, TokenStage, Owing, UpdateStages, ResetStages,
    IncrementStages
<1>9. OneCopyIsWhole' /\ TokenTellsTruth'
  BY <1>1, <1>5 DEF OneCopyIsWhole, TokenTellsTruth
<1> QED BY <1>7, <1>8, <1>9 DEF IInv

THEOREM StepIInv == IInv /\ [Next]_vars => IInv'
<1> SUFFICES ASSUME IInv, [Next]_vars PROVE IInv'
  OBVIOUS
<1>1. CASE WriteSlot \/ EraseSlot \/ WriteConfig
  BY <1>1, RequestSteps
<1>2. CASE EraseBackupPage \/ WriteBackupPage
  BY <1>2, BackupSteps
<1>3. CASE WriteLength \/ WriteAddress
  BY <1>3, FieldSteps
<1>4. CASE EraseSlotPage \/ WriteSlotPage
  BY <1>4, SlotSteps
<1>5. CASE EraseTokenPage \/ WriteToken \/ EraseCounter
  BY <1>5, TokenSteps
<1>6. CASE FactoryReset \/ ErasePage \/ ShredPage
  BY <1>6, ResetSteps
<1>7. CASE PowerLoss
  BY <1>7, PowerLossStep
<1>8. CASE ClearBackup \/ WriteBase \/ WriteBaseFields \/ WriteBaseToken
  BY <1>8, IncrementSteps
<1>9. CASE UNCHANGED vars
  BY <1>9 DEF IInv, TypeOK, Stage, BackupStage, BackedUp, SlotsStage, TokenStage, Owing,
    OneCopyIsWhole, TokenTellsTruth, vars
<1> QED BY <1>1, <1>2, <1>3, <1>4, <1>5, <1>6, <1>7, <1>8, <1>9 DEF Next

-----------------------------------------------------------------------------
(* The theorems *)

THEOREM Invariance == Spec => []IInv
<1>1. Init => IInv
  BY InitIInv
<1>2. IInv /\ [Next]_vars => IInv'
  BY StepIInv
<1> QED BY <1>1, <1>2, PTL DEF Spec

\* The pages, the trailer and the update under way keep their types (write_to_slot).
THEOREM TypeCorrect == Spec => []TypeOK
<1>1. IInv => TypeOK
  BY DEF IInv
<1> QED BY <1>1, Invariance, PTL

\* At every flash command of an update, and after every cut of power, one whole copy of the
\* slots is in flash (write_to_slot, backup_data), until a counter page fills up while the slot
\* pages are torn (increment_counter_page); for every number of pages and slots.
THEOREM CopySurvives == Spec => []OneCopyIsWhole
<1>1. IInv => OneCopyIsWhole
  BY DEF IInv
<1> QED BY <1>1, Invariance, PTL

\* The OK token stands only beside slot pages of one and the same update (write_to_slot), also
\* when increment_counter_page has written over the backup.
THEOREM TokenIsTrue == Spec => []TokenTellsTruth
<1>1. IInv => TokenTellsTruth
  BY DEF IInv
<1> QED BY <1>1, Invariance, PTL

\* A whole copy, and a token that does not lie, beside both writers of the backup pages
\* (backup_data, increment_counter_page).
THEOREM BackupSound == Spec => []BackupIsSound
<1>1. IInv => BackupIsSound
  BY DEF IInv, BackupIsSound
<1> QED BY <1>1, Invariance, PTL

-----------------------------------------------------------------------------
(* The table, and what is forgotten.  Besides IInv both need what the      *)
(* command under way is about (Aimed), and what the pages hold that it has *)
(* already dealt with (Reached).                                           *)

\* What write_to_slot and write_to_config are asked for, and the image they make of it.
TableRequests == Requests \union {Blank} \union [name : Names, secret : {FF}]
Updated(f, c, v) == [p \in Pages |-> [d \in OnPage(p) |-> IF d = c THEN Merged(f[p][d], v) ELSE f[p][d]]]

\* What the command under way is about
Aimed ==
  /\ op.stage = "idle" => op = Idle /\ target = None
  /\ op.stage \in UpdateStages =>
       target \in Cells /\ \E v \in TableRequests : image = Updated(start, target, v)
  /\ op.stage \in ResetStages => target = All
  /\ op.stage \in IncrementStages => target = None

\* How far it has come, as far as Stage does not say it
Reached ==
  /\ op.stage = "slots" /\ op.erased => slots[op.page] = PageOf(Blank, op.page)
  /\ op.stage = "token" => op.page = NPages /\ \A q \in Pages : q < NPages => backup[q] = image[q]
  /\ op.stage = "counter" => op.page = NPages /\ backup = image
  /\ op.stage = "wipeSlots" => \A q \in Pages : q < op.page => slots[q] = PageOf(Blank, q)
  /\ op.stage = "wipeBackup" =>
       slots = Filled(Blank) /\ \A q \in Pages : q < op.page => backup[q] = PageOf(Blank, q)

CommandInv == Aimed /\ Reached

LEMMA IdleIs == Idle.stage = "idle" /\ Idle.page = 1 /\ Idle.erased = FALSE
BY DEF Idle, At

LEMMA UpdatedBegin ==
  ASSUME IInv, CommandInv, NEW c \in Cells, NEW v \in TableRequests, Begin(c, v)
  PROVE  CommandInv'
<1>1. op'.stage = "backup" /\ target' = c
  BY DEF Begin, At
<1>2. image' = Updated(start', c, v)
  BY DEF Begin, Updated
<1> QED BY <1>1, <1>2 DEF CommandInv, Aimed, Reached, UpdateStages, ResetStages, IncrementStages

LEMMA CommandRequestSteps ==
  ASSUME IInv, CommandInv, WriteSlot \/ EraseSlot \/ WriteConfig
  PROVE  CommandInv'
<1>1. Requests \subseteq TableRequests /\ Blank \in TableRequests /\ Config \in Cells
  BY PagesAssumption DEF TableRequests
<1>2. \A n \in Names : [name |-> n, secret |-> FF] \in TableRequests
  BY DEF TableRequests
<1>3. CASE WriteSlot
  BY <1>1, <1>3, UpdatedBegin DEF WriteSlot
<1>4. CASE EraseSlot
  BY <1>1, <1>4, UpdatedBegin DEF EraseSlot
<1>5. CASE WriteConfig
  BY <1>1, <1>2, <1>5, UpdatedBegin DEF WriteConfig
<1> QED BY <1>3, <1>4, <1>5

\* An update that goes on keeps its aim.
LEMMA AimedGoesOn ==
  ASSUME CommandInv, op.stage \in UpdateStages, op'.stage \in UpdateStages, UNCHANGED <<target, start, image>>
  PROVE  Aimed'
BY DEF CommandInv, Aimed, UpdateStages, ResetStages, IncrementStages

LEMMA CommandBackupSteps ==
  ASSUME IInv, CommandInv, EraseBackupPage \/ WriteBackupPage \/ WriteLength \/ WriteAddress
  PROVE  CommandInv'
<1>1. TypeOK /\ op.stage \in {"backup", "length", "address"} /\ op.page \in Pages
  BY DEF IInv, TypeOK, EraseBackupPage, WriteBackupPage, WriteLength, WriteAddress
<1>2. \/ op'.stage \in {"backup", "length", "address"}
      \/ op'.stage = "slots" /\ op'.erased = FALSE
  <2>1. CASE EraseBackupPage
    BY <1>1, <2>1 DEF EraseBackupPage, TypeOK
  <2>2. CASE WriteBackupPage
    BY <2>2 DEF WriteBackupPage, NextPage, At
  <2>3. CASE WriteLength \/ WriteAddress
    BY <2>3 DEF WriteLength, WriteAddress, At
  <2> QED BY <2>1, <2>2, <2>3
<1>3. Aimed'
  BY <1>1, <1>2, AimedGoesOn DEF UpdateStages, EraseBackupPage, WriteBackupPage, WriteLength, WriteAddress
<1> QED BY <1>2, <1>3 DEF CommandInv, Reached

LEMMA CommandSlotSteps ==
  ASSUME IInv, CommandInv, EraseSlotPage \/ WriteSlotPage
  PROVE  CommandInv'
<1>1. TypeOK /\ op.stage = "slots" /\ op.page \in Pages /\ backup = image
  BY DEF IInv, TypeOK, Stage, SlotsStage, EraseSlotPage, WriteSlotPage
<1>2. CASE EraseSlotPage
  <2>1. op' = [op EXCEPT !.erased = TRUE] /\ slots'[op.page] = PageOf(Blank, op.page)
    BY <1>1, <1>2 DEF EraseSlotPage, SlotsErased, TypeOK, IsImage
  <2>2. op'.stage = "slots" /\ op'.page = op.page
    BY <1>1, <2>1 DEF TypeOK
  <2>3. Aimed'
    BY <1>1, <1>2, <2>2, AimedGoesOn DEF UpdateStages, EraseSlotPage
  <2> QED BY <2>1, <2>2, <2>3 DEF CommandInv, Reached
<1>3. CASE WriteSlotPage
  <2>1. \/ op'.stage = "slots" /\ op'.erased = FALSE
        \/ op'.stage = "token" /\ op'.page = NPages
    BY <1>3 DEF WriteSlotPage, NextPage, At
  <2>2. UNCHANGED <<backup, image>> /\ Aimed'
    BY <1>1, <1>3, <2>1, AimedGoesOn DEF UpdateStages, WriteSlotPage
  <2> QED BY <1>1, <2>1, <2>2 DEF CommandInv, Reached
<1> QED BY <1>2, <1>3

\* A command that ends leaves nothing to say.
LEMMA CommandOver ==
  ASSUME op' = Idle, target' = None
  PROVE  CommandInv'
BY IdleIs DEF CommandInv, Aimed, Reached, UpdateStages, ResetStages, IncrementStages

LEMMA CommandTokenSteps ==
  ASSUME IInv, CommandInv, EraseTokenPage \/ WriteToken \/ EraseCounter
  PROVE  CommandInv'
<1>1. TypeOK /\ op.stage \in {"token", "counter"} /\ op.page = NPages /\ NPages \in Pages
  BY PagesAreNat DEF IInv, CommandInv, Reached, EraseTokenPage, WriteToken, EraseCounter
<1>2. CASE EraseTokenPage
  <2>1. op'.stage = "token" /\ op'.page = NPages
    BY <1>1, <1>2 DEF EraseTokenPage, TypeOK
  <2>2. \A q \in Pages : q < NPages => backup'[q] = image'[q]
    BY <1>1, <1>2, BackupErasedType, PagesAreNat DEF EraseTokenPage, CommandInv, Reached
  <2>3. Aimed'
    BY <1>1, <1>2, <2>1, AimedGoesOn DEF UpdateStages, EraseTokenPage
  <2> QED BY <2>1, <2>2, <2>3 DEF CommandInv, Reached
<1>3. CASE WriteToken /\ op' = At("counter", NPages, FALSE) /\ UNCHANGED <<target, outcome, start>>
  <2>1. op'.stage = "counter" /\ op'.page = NPages
    BY <1>3 DEF At
  <2>2. /\ IsImage(backup') /\ backup'[NPages] = image[NPages] /\ image' = image
        /\ \A q \in Pages : q # NPages => backup'[q] = backup[q]
    BY <1>1, <1>3 DEF WriteToken, TypeOK, IsImage
  <2>3. \A q \in Pages : backup'[q] = image[q]
    BY <1>1, <1>3, <2>2, PagesAreNat DEF WriteToken, CommandInv, Reached
  <2>4. backup' = image'
    BY <1>1, <2>2, <2>3, SameImage DEF TypeOK
  <2>5. Aimed'
    BY <1>1, <1>3, <2>1, <2>2, AimedGoesOn DEF UpdateStages
  <2> QED BY <2>1, <2>4, <2>5 DEF CommandInv, Reached
<1>4. CASE Done
  BY <1>4, CommandOver DEF Done
<1> QED BY <1>2, <1>3, <1>4 DEF WriteToken, EraseCounter

LEMMA CommandResetSteps ==
  ASSUME IInv, CommandInv, FactoryReset \/ ErasePage \/ ShredPage
  PROVE  CommandInv'
<1>1. TypeOK /\ op.page \in Pages
  BY DEF IInv, TypeOK
<1>2. CASE FactoryReset
  BY <1>2 DEF FactoryReset, At, CommandInv, Aimed, Reached, UpdateStages, ResetStages, IncrementStages
<1>3. CASE ShredPage
  <2>1. target' = All
    BY <1>3 DEF ShredPage, CommandInv, Aimed, UpdateStages, ResetStages, IncrementStages
  <2>2. op'.stage \in {"shredSlots", "shredBackup"} \/ (op'.stage = "wipeSlots" /\ op'.page = 1)
    BY <1>3 DEF ShredPage, NextPage, At
  <2>3. op'.stage = "wipeSlots" => \A q \in Pages : ~(q < op'.page)
    BY <2>2, PagesAreNat
  <2> QED BY <2>1, <2>2, <2>3 DEF CommandInv, Aimed, Reached, UpdateStages, ResetStages, IncrementStages
<1>4. CASE ErasePage /\ op.stage \in {"shredSlots", "shredBackup"}
  <2>1. op'.stage = op.stage /\ op' # Idle
    BY <1>1, <1>4, IdleIs DEF ErasePage, TypeOK
  <2>2. target' = All
    BY <1>4, <2>1 DEF ErasePage, CommandInv, Aimed, UpdateStages, ResetStages, IncrementStages
  <2> QED BY <1>4, <2>1, <2>2 DEF CommandInv, Aimed, Reached, UpdateStages, ResetStages, IncrementStages
<1>5. CASE ErasePage /\ op.stage = "wipeSlots"
  <2>1. SlotsErased /\ NextPage("wipeSlots", At("wipeBackup", 1, FALSE))
    BY <1>5 DEF ErasePage
  <2>2. slots'[op.page] = PageOf(Blank, op.page) /\ IsImage(slots')
        /\ \A q \in Pages : q # op.page => slots'[q] = slots[q]
    BY <1>1, <2>1, SlotsErasedType DEF SlotsErased, TypeOK, IsImage
  <2>3. \A q \in Pages : q <= op.page => slots'[q] = PageOf(Blank, q)
    BY <1>1, <1>5, <2>2, PagesAreNat DEF CommandInv, Reached
  <2>4. target' = All
    BY <1>5, <2>1, IdleIs DEF ErasePage, NextPage, At, CommandInv, Aimed, UpdateStages, ResetStages, IncrementStages
  <2>5. CASE op.page < NPages
    <3>1. op'.stage = "wipeSlots" /\ op'.page = op.page + 1
      BY <2>1, <2>5 DEF NextPage, At
    <3>2. \A q \in Pages : q < op'.page => slots'[q] = PageOf(Blank, q)
      BY <1>1, <2>3, <3>1, PagesAreNat
    <3> QED BY <2>4, <3>1, <3>2 DEF CommandInv, Aimed, Reached, UpdateStages, ResetStages, IncrementStages
  <2>6. CASE ~(op.page < NPages)
    <3>1. op'.stage = "wipeBackup" /\ op'.page = 1
      BY <2>1, <2>6 DEF NextPage, At
    <3>2. \A q \in Pages : slots'[q] = PageOf(Blank, q)
      BY <1>1, <2>3, <2>6, PagesAreNat
    <3>3. slots' = Filled(Blank)
      BY <2>2, <3>2 DEF IsImage, Filled
    <3>4. \A q \in Pages : ~(q < op'.page)
      BY <3>1, PagesAreNat
    <3> QED BY <2>4, <3>1, <3>3, <3>4 DEF CommandInv, Aimed, Reached, UpdateStages, ResetStages, IncrementStages
  <2> QED BY <2>5, <2>6
<1>6. CASE ErasePage /\ op.stage = "wipeBackup"
  <2>1. BackupErased /\ UNCHANGED slots /\ NextPage("wipeBackup", Idle)
    BY <1>6 DEF ErasePage
  <2>2. CASE op.page < NPages
    <3>1. op'.stage = "wipeBackup" /\ op'.page = op.page + 1
      BY <2>1, <2>2 DEF NextPage, At
    <3>2. target' = All
      BY <1>6, <3>1, IdleIs DEF ErasePage, CommandInv, Aimed, UpdateStages, ResetStages, IncrementStages
    <3>3. backup'[op.page] = PageOf(Blank, op.page) /\ \A q \in Pages : q # op.page => backup'[q] = backup[q]
      BY <1>1, <2>1, BackupErasedType DEF BackupErased, TypeOK, IsImage
    <3>4. \A q \in Pages : q < op'.page => backup'[q] = PageOf(Blank, q)
      BY <1>1, <1>6, <3>1, <3>3, PagesAreNat DEF CommandInv, Reached
    <3>5. slots' = Filled(Blank)
      BY <1>6, <2>1 DEF CommandInv, Reached
    <3> QED BY <3>1, <3>2, <3>4, <3>5 DEF CommandInv, Aimed, Reached, UpdateStages, ResetStages, IncrementStages
  <2>3. CASE ~(op.page < NPages)
    <3>1. op' = Idle
      BY <2>1, <2>3 DEF NextPage
    <3>2. target' = None
      BY <1>6, <3>1 DEF ErasePage
    <3> QED BY <3>1, <3>2, CommandOver
  <2> QED BY <2>2, <2>3
<1> QED BY <1>2, <1>3, <1>4, <1>5, <1>6 DEF ErasePage

LEMMA CommandOtherSteps ==
  ASSUME IInv, CommandInv, \/ PowerLoss \/ UNCHANGED vars
                           \/ ClearBackup \/ WriteBase \/ WriteBaseFields \/ WriteBaseToken
  PROVE  CommandInv'
<1>1. CASE PowerLoss
  BY <1>1, CommandOver DEF PowerLoss
<1>2. CASE ClearBackup \/ WriteBase \/ WriteBaseFields \/ WriteBaseToken
  <2>1. target' = None
    BY <1>2, IdleIs DEF ClearBackup, WriteBase, WriteBaseFields, WriteBaseToken, CommandInv, Aimed, IncrementStages
  <2>2. op' = Idle \/ op'.stage \in IncrementStages
    BY <1>2 DEF ClearBackup, WriteBase, WriteBaseFields, WriteBaseToken, At, IncrementStages
  <2>3. CASE op'.stage \in IncrementStages
    BY <2>1, <2>3 DEF CommandInv, Aimed, Reached, UpdateStages, ResetStages, IncrementStages
  <2> QED BY <2>1, <2>2, <2>3, CommandOver
<1>3. CASE UNCHANGED vars
  BY <1>3 DEF vars, CommandInv, Aimed, Reached, flash
<1> QED BY <1>1, <1>2, <1>3

THEOREM CommandInvariance == Spec => []CommandInv
<1>1. Init => CommandInv
  BY IdleIs DEF Init, CommandInv, Aimed, Reached, UpdateStages, ResetStages, IncrementStages
<1>2. IInv /\ CommandInv /\ [Next]_vars => CommandInv'
  BY CommandRequestSteps, CommandBackupSteps, CommandSlotSteps, CommandTokenSteps, CommandResetSteps, CommandOtherSteps DEF Next
<1> QED BY <1>1, <1>2, Invariance, PTL DEF Spec

-----------------------------------------------------------------------------
(* Erasing leaves no secret in the backup. *)

LEMMA SecretsWithin ==
  ASSUME NEW f, NEW g, \A q \in Pages : f[q] = g[q] \/ f[q] = PageOf(Blank, q)
  PROVE  SecretsOf(f) \subseteq SecretsOf(g)
<1> SUFFICES ASSUME NEW x \in Secrets, NEW q \in Pages, NEW c \in OnPage(q), f[q][c].secret = x
             PROVE  g[q][c].secret = x
  BY DEF SecretsOf
<1>1. PageOf(Blank, q)[c].secret = FF
  BY DEF PageOf, Blank
<1> QED BY <1>1, PagesAssumption

LEMMA ForgottenStep ==
  ASSUME IInv, CommandInv, Next, op # Idle, op' = Idle, flash' # flash
  PROVE  SecretsOf(backup') \subseteq SecretsOf(slots')
<1>1. TypeOK /\ op.page \in Pages /\ NPages \in Pages
  BY PagesAreNat DEF IInv, TypeOK
<1>2. CASE WriteToken
  <2>1. op.stage = "token" /\ slots' = image
    BY <1>2 DEF WriteToken, IInv, Stage, TokenStage
  <2>2. \A q \in Pages : backup'[q] = image[q]
    <3>1. backup'[NPages] = image[NPages] /\ \A q \in Pages : q # NPages => backup'[q] = backup[q]
      BY <1>1, <1>2 DEF WriteToken, TypeOK, IsImage
    <3> QED BY <2>1, <3>1, PagesAreNat DEF CommandInv, Reached
  <2> QED BY <2>1, <2>2, SecretsWithin
<1>3. CASE EraseCounter
  <2>1. backup = image /\ op.page = NPages /\ slots' = image
    BY <1>3 DEF EraseCounter, IInv, Stage, TokenStage, CommandInv, Reached
  <2>2. \A q \in Pages : backup'[q] = image[q] \/ backup'[q] = PageOf(Blank, q)
    BY <1>1, <1>3, <2>1 DEF EraseCounter, BackupErased, TypeOK, IsImage
  <2> QED BY <2>1, <2>2, SecretsWithin
<1>4. CASE ErasePage
  <2>1. op.stage = "wipeBackup" /\ ~(op.page < NPages)
    BY <1>4, IdleIs, <1>1 DEF ErasePage, NextPage, At, TypeOK
  <2>2. \A q \in Pages : backup'[q] = PageOf(Blank, q)
    <3>1. backup' = [backup EXCEPT ![op.page] = PageOf(Blank, op.page)] /\ IsImage(backup)
      BY <1>1, <1>4, <2>1 DEF ErasePage, BackupErased, TypeOK
    <3>2. op.page = NPages
      BY <1>1, <2>1, PagesAreNat
    <3>3. \A q \in Pages : q # op.page => q < op.page /\ backup'[q] = backup[q]
      <4>1. \A q \in Pages : q # op.page => q < op.page
        BY <3>2, PagesAreNat
      <4>2. \A q \in Pages : q # op.page => backup'[q] = backup[q]
        BY <1>1, <1>4, <2>1, BackupErasedType DEF ErasePage
      <4> QED BY <4>1, <4>2
    <3>4. backup'[op.page] = PageOf(Blank, op.page)
      BY <1>1, <3>1 DEF IsImage
    <3> QED BY <2>1, <3>3, <3>4 DEF CommandInv, Reached
  <2> QED BY <2>2, SecretsWithin
<1>5. CASE PowerLoss
  BY <1>5 DEF PowerLoss
<1>6. CASE \/ EraseBackupPage \/ WriteBackupPage \/ WriteLength \/ WriteAddress
           \/ EraseSlotPage \/ WriteSlotPage \/ EraseTokenPage \/ ShredPage
  <2>1. op'.stage # "idle"
    BY <1>1, <1>6 DEF EraseBackupPage, WriteBackupPage, WriteLength, WriteAddress, EraseSlotPage, WriteSlotPage,
      EraseTokenPage, ShredPage, NextPage, At, TypeOK
  <2> QED BY <2>1, IdleIs
<1>7. CASE WriteSlot \/ EraseSlot \/ WriteConfig \/ FactoryReset \/ ClearBackup
  BY <1>7 DEF WriteSlot, EraseSlot, WriteConfig, Begin, FactoryReset, ClearBackup
<1>8. CASE WriteBase \/ WriteBaseFields \/ WriteBaseToken
  BY <1>8, IdleIs DEF WriteBase, WriteBaseFields, WriteBaseToken, At
<1> QED BY <1>2, <1>3, <1>4, <1>5, <1>6, <1>7, <1>8 DEF Next

\* When an update or a factory reset ends, the backup holds no secret that the slots do not hold
\* (backup_data, erase_counter, EraseLocalFlashKeyValues_u32), for every layout of the records.
THEOREM Forgotten == Spec => ErasedIsForgotten
<1>1. IInv /\ CommandInv /\ [Next]_vars =>
        [op # Idle /\ op' = Idle /\ flash' # flash => SecretsOf(backup') \subseteq SecretsOf(slots')]_vars
  BY ForgottenStep
<1> QED BY <1>1, Invariance, CommandInvariance, PTL DEF Spec, ErasedIsForgotten

-----------------------------------------------------------------------------
(* What a cell reads as *)

LEMMA CellLies ==
  ASSUME NEW c \in Cells
  PROVE  /\ (CHOOSE p \in On[c] : TRUE) \in On[c]
         /\ \A p \in On[c] : p \in Pages /\ c \in OnPage(p)
         /\ \A p \in Pages : c \in OnPage(p) => p \in On[c]
<1>1. On[c] # {} /\ On[c] \subseteq Pages
  BY PagesAssumption DEF Pages
<1> QED BY <1>1 DEF OnPage

LEMMA ReadAgrees ==
  ASSUME NEW f, NEW c \in Cells, NEW u, \A p \in On[c] : f[p][c] = u
  PROVE  Read(f, c) = u
BY CellLies DEF Read

LEMMA ReadIs ==
  ASSUME NEW f, NEW c \in Cells
  PROVE  Read(f, c) = Lost \/ \A p \in On[c] : f[p][c] = Read(f, c)
BY CellLies DEF Read

LEMMA ReadSame ==
  ASSUME NEW f, NEW g, NEW c \in Cells, \A p \in On[c] : f[p][c] = g[p][c]
  PROVE  Read(f, c) = Read(g, c)
BY CellLies DEF Read

LEMMA ReadType ==
  ASSUME NEW f, IsImage(f), NEW c \in Cells
  PROVE  Read(f, c) \in Parts \union {Lost}
BY CellLies DEF Read, IsImage

LEMMA BlankRead ==
  ASSUME NEW c \in Cells
  PROVE  Read(Filled(Blank), c) = Blank
<1>1. \A p \in On[c] : Filled(Blank)[p][c] = Blank
  BY CellLies DEF Filled, PageOf
<1> QED BY <1>1, ReadAgrees

\* The table the pages stand for, while an update or a reset is under way and when none is
Shown == [c \in Cells |-> Read(IF target = None THEN slots ELSE start, c)]
LEMMA ShownType == TypeOK => Shown \in [Cells -> Parts \union {Lost}]
BY ReadType DEF Shown, TypeOK

-----------------------------------------------------------------------------
(* The steps of the table *)

\* An update and a reset have a target; a full counter page has none.
LEMMA TargetIs ==
  ASSUME IInv, CommandInv
  PROVE  /\ target = None => op.stage \in IncrementStages \union {"idle"}
         /\ target # None => op.stage \in UpdateStages \union ResetStages
         /\ None \notin Cells /\ All # None
<1>1. op.stage \in UpdateStages \union ResetStages \union IncrementStages \union {"idle"}
  BY DEF IInv, TypeOK, Stages, UpdateStages, ResetStages, IncrementStages
<1>2. None \notin Cells /\ All # None
  BY PagesAssumption
<1> QED BY <1>1, <1>2 DEF CommandInv, Aimed

LEMMA TableBegins ==
  ASSUME NEW c \in Cells \union {All}, target = None, start' = slots, target' = c, outcome' = "none"
  PROVE  Table!Begin(c)
<1>1. c # None
  BY PagesAssumption
<1>2. Shown' = Shown
  BY <1>1 DEF Shown
<1> QED BY <1>2 DEF Table!Begin, Shown

LEMMA UpdatedCells ==
  ASSUME NEW f, NEW c \in Cells, NEW v, NEW p \in Pages, NEW d \in OnPage(p)
  PROVE  Updated(f, c, v)[p][d] = IF d = c THEN Merged(f[p][d], v) ELSE f[p][d]
BY DEF Updated

LEMMA TablePuts ==
  ASSUME IInv, CommandInv, NEW c \in Cells, NEW v \in TableRequests, target = c, image = Updated(start, c, v),
         Done, slots' = image
  PROVE  Table!Put(c, v)
<1>1. \A d \in Cells \ {c} : Read(image, d) = Read(start, d)
  <2> SUFFICES ASSUME NEW d \in Cells \ {c} PROVE Read(image, d) = Read(start, d)
    OBVIOUS
  <2>1. \A p \in On[d] : image[p][d] = start[p][d]
    BY CellLies, UpdatedCells
  <2> QED BY <2>1, ReadSame
<1>2. Shown' = [Shown EXCEPT ![c] = Read(image, c)]
  BY <1>1, PagesAssumption DEF Shown, Done
<1>3. Shown[c] = Read(start, c)
  BY PagesAssumption DEF Shown
<1>4. Read(image, c) \in Parts \union {Lost}
  BY ReadType DEF IInv, TypeOK
<1>5. Shown[c] # Lost => Read(image, c) = Merged(Shown[c], v)
  <2> SUFFICES ASSUME Shown[c] # Lost PROVE Read(image, c) = Merged(Shown[c], v)
    OBVIOUS
  <2>1. \A p \in On[c] : start[p][c] = Shown[c]
    BY <1>3, ReadIs
  <2>2. \A p \in On[c] : image[p][c] = Merged(Shown[c], v)
    BY <2>1, CellLies, UpdatedCells
  <2> QED BY <2>2, ReadAgrees
<1>6. Read(image, c) \in Table!Outcome(c, v)
  BY <1>4, <1>5 DEF Table!Outcome, Shown
<1> QED BY <1>2, <1>6 DEF Table!Put, Done, Shown

\* What a cut leaves of an update of c by v, when p is the page at hand
LEMMA TableDamaged ==
  ASSUME IInv, NEW c \in Cells, NEW v \in TableRequests, NEW p \in Pages, target = c, PowerLoss,
         \A q \in Pages : \A d \in OnPage(q) :
           \/ slots[q][d] = start[q][d]
           \/ d = c /\ slots[q][d] = Merged(start[q][d], v)
           \/ q = p /\ slots[q][d] = Blank
  PROVE  Table!Interrupted(c, v)
<1>1. Shown' = [d \in Cells |-> Read(slots, d)] /\ Shown = [d \in Cells |-> Read(start, d)]
  BY PagesAssumption DEF Shown, PowerLoss, flash
<1>2. Shown' \in [Cells -> Parts \union {Lost}]
  BY <1>1, ReadType DEF IInv, TypeOK
<1>3. Shown'[c] \in {Shown[c], Blank, Lost} \union Table!Outcome(c, v)
  <2>1. CASE Shown[c] = Lost
    BY <1>2, <2>1 DEF Table!Outcome, Shown
  <2>2. CASE Shown[c] # Lost /\ Shown'[c] # Lost
    <3>1. \A q \in On[c] : start[q][c] = Shown[c] /\ slots[q][c] = Shown'[c]
      BY <1>1, <2>2, ReadIs
    <3>2. PICK q \in On[c] : q \in Pages /\ c \in OnPage(q)
      BY CellLies
    <3>3. Shown'[c] \in {Shown[c], Blank, Merged(Shown[c], v)}
      BY <3>1, <3>2
    <3> QED BY <2>2, <3>3 DEF Table!Outcome, Shown
  <2> QED BY <2>1, <2>2
<1>4. \A d \in OnPage(p) \ {c} : Shown'[d] \in {Shown[d], Blank, Lost}
  <2> SUFFICES ASSUME NEW d \in OnPage(p) \ {c}, Shown'[d] # Blank, Shown'[d] # Lost PROVE Shown'[d] = Shown[d]
    OBVIOUS
  <2>1. d \in Cells
    BY DEF OnPage
  <2>2. \A q \in On[d] : slots[q][d] = Shown'[d]
    BY <1>1, <2>1, ReadIs
  <2>3. \A q \in On[d] : slots[q][d] = start[q][d]
    BY <2>1, <2>2, CellLies
  <2> QED BY <1>1, <2>1, <2>3, ReadSame
<1>5. \A d \in Cells \ (OnPage(p) \union {c}) : Shown'[d] = Shown[d]
  <2> SUFFICES ASSUME NEW d \in Cells \ (OnPage(p) \union {c}) PROVE Shown'[d] = Shown[d]
    OBVIOUS
  <2>1. \A q \in On[d] : slots[q][d] = start[q][d]
    BY CellLies
  <2> QED BY <1>1, <2>1, ReadSame
<1>6. target' = None /\ outcome' = "cut"
  BY PagesAssumption DEF PowerLoss
<1> QED BY <1>2, <1>3, <1>4, <1>5, <1>6 DEF Table!Interrupted, Shown

LEMMA TableCut ==
  ASSUME IInv, CommandInv, PowerLoss, target # None
  PROVE  Table!Next
<1>1. TypeOK /\ op.page \in Pages /\ NPages \in Pages
  BY PagesAreNat DEF IInv, TypeOK
<1>2. CASE op.stage \in UpdateStages
  <2>1. PICK v \in TableRequests : image = Updated(start, target, v)
    BY <1>2 DEF CommandInv, Aimed
  <2>2. target \in Cells
    BY <1>2 DEF CommandInv, Aimed
  <2>3. \A q \in Pages : \A d \in OnPage(q) :
          image[q][d] = start[q][d] \/ (d = target /\ image[q][d] = Merged(start[q][d], v))
    BY <2>1, <2>2, UpdatedCells
  <2>4. \A q \in Pages : \/ slots[q] = start[q] \/ slots[q] = image[q]
                         \/ q = op.page /\ slots[q] = PageOf(Blank, q)
    <3>1. CASE op.stage \in {"backup", "length", "address"}
      BY <3>1 DEF IInv, Stage, BackupStage, BackedUp
    <3>2. CASE op.stage \in {"token", "counter"}
      BY <3>2 DEF IInv, Stage, TokenStage
    <3>3. CASE op.stage = "slots"
      <4>1. \A q \in Pages : q < op.page \/ q = op.page \/ q > op.page
        BY <1>1, PagesAreNat
      <4> QED BY <1>1, <3>3, <4>1 DEF IInv, Stage, SlotsStage, CommandInv, Reached, TypeOK
    <3> QED BY <1>2, <3>1, <3>2, <3>3 DEF UpdateStages
  <2>5. \A q \in Pages : \A d \in OnPage(q) :
          \/ slots[q][d] = start[q][d]
          \/ d = target /\ slots[q][d] = Merged(start[q][d], v)
          \/ q = op.page /\ slots[q][d] = Blank
    <3>1. \A q \in Pages : \A d \in OnPage(q) : PageOf(Blank, q)[d] = Blank
      BY DEF PageOf
    <3> SUFFICES ASSUME NEW q \in Pages, NEW d \in OnPage(q)
                 PROVE  \/ slots[q][d] = start[q][d]
                        \/ d = target /\ slots[q][d] = Merged(start[q][d], v)
                        \/ q = op.page /\ slots[q][d] = Blank
      OBVIOUS
    <3> QED BY <2>3, <2>4, <3>1
  <2>6. Table!Interrupted(target, v)
    BY <1>1, <2>2, <2>5, TableDamaged
  <2> QED BY <2>2, <2>6 DEF Table!Next, TableRequests
<1>3. CASE op.stage \in ResetStages
  <2>1. target = All /\ All # None
    BY <1>3, TargetIs DEF CommandInv, Aimed
  <2>2. Shown' \in [Cells -> Parts \union {Lost}]
    BY <1>1, ReadType DEF Shown, PowerLoss, flash, TypeOK
  <2>3. Table!Reset
    BY <2>1, <2>2 DEF PowerLoss, Table!Reset, Shown
  <2> QED BY <2>3 DEF Table!Next
<1> QED BY <1>2, <1>3, TargetIs

\* The commands that end
LEMMA TableEnds ==
  ASSUME IInv, CommandInv, target # None, target' = None, Next
  PROVE  Table!Next
<1>1. TypeOK /\ op # Idle
  BY IdleIs DEF IInv, CommandInv, Aimed
<1>2. CASE WriteToken \/ EraseCounter
  <2>1. slots' = image /\ op.stage \in UpdateStages
    BY <1>2 DEF WriteToken, EraseCounter, IInv, Stage, TokenStage, UpdateStages
  <2>2. Done
    BY <1>2 DEF WriteToken, EraseCounter
  <2>3. PICK v \in TableRequests : image = Updated(start, target, v)
    BY <2>1 DEF CommandInv, Aimed
  <2>4. target \in Cells
    BY <2>1 DEF CommandInv, Aimed
  <2>5. Table!Put(target, v)
    BY <2>1, <2>2, <2>3, <2>4, TablePuts
  <2> QED BY <2>4, <2>5 DEF Table!Next, TableRequests
<1>3. CASE ErasePage
  <2>1. op.stage = "wipeBackup" /\ outcome' = "done" /\ UNCHANGED slots
    BY <1>1, <1>3, IdleIs DEF ErasePage, NextPage, At, TypeOK
  <2>2. target = All /\ slots' = Filled(Blank)
    BY <2>1 DEF CommandInv, Aimed, Reached, UpdateStages, ResetStages, IncrementStages
  <2>3. \A c \in Cells : Read(slots', c) = Blank
    BY <2>2, BlankRead
  <2>4. Shown' = [c \in Cells |-> Blank]
    BY <2>3 DEF Shown
  <2> QED BY <2>1, <2>2, <2>4 DEF Table!Next, Table!Reset, Shown
<1>4. CASE PowerLoss
  BY <1>4, TableCut
<1>5. CASE WriteSlot \/ EraseSlot \/ WriteConfig \/ FactoryReset \/ ClearBackup
  BY <1>1, <1>5 DEF WriteSlot, EraseSlot, WriteConfig, Begin, FactoryReset, ClearBackup
<1>6. CASE \/ EraseBackupPage \/ WriteBackupPage \/ WriteLength \/ WriteAddress
           \/ EraseSlotPage \/ WriteSlotPage \/ EraseTokenPage \/ ShredPage
           \/ WriteBase \/ WriteBaseFields \/ WriteBaseToken
  BY <1>6 DEF EraseBackupPage, WriteBackupPage, WriteLength, WriteAddress, EraseSlotPage, WriteSlotPage,
    EraseTokenPage, ShredPage, WriteBase, WriteBaseFields, WriteBaseToken
<1> QED BY <1>2, <1>3, <1>4, <1>5, <1>6 DEF Next

LEMMA TableStarts ==
  ASSUME IInv, CommandInv, target = None, target' # None, Next
  PROVE  Table!Next
<1>1. ASSUME NEW c \in Cells, NEW v, Begin(c, v) PROVE Table!Next
  <2>1. Table!Begin(c)
    BY <1>1, TableBegins DEF Begin
  <2> QED BY <2>1 DEF Table!Next
<1>2. CASE WriteSlot \/ EraseSlot \/ WriteConfig
  BY <1>1, <1>2, PagesAssumption DEF WriteSlot, EraseSlot, WriteConfig
<1>3. CASE FactoryReset
  <2>1. Table!Begin(All)
    BY <1>3, TableBegins DEF FactoryReset
  <2> QED BY <2>1 DEF Table!Next
<1>4. ~(\/ EraseBackupPage \/ WriteBackupPage \/ WriteLength \/ WriteAddress \/ EraseSlotPage \/ WriteSlotPage
        \/ EraseTokenPage \/ WriteToken \/ EraseCounter \/ ErasePage \/ ShredPage \/ PowerLoss
        \/ ClearBackup \/ WriteBase \/ WriteBaseFields \/ WriteBaseToken)
  BY DEF EraseBackupPage, WriteBackupPage, WriteLength, WriteAddress, EraseSlotPage, WriteSlotPage,
    EraseTokenPage, WriteToken, EraseCounter, Done, ErasePage, ShredPage, PowerLoss,
    ClearBackup, WriteBase, WriteBaseFields, WriteBaseToken
<1> QED BY <1>2, <1>3, <1>4 DEF Next

\* Between the beginning and the end of a command the table stays as it was, and all the time
\* a full counter page is saved.
LEMMA TableStays ==
  ASSUME IInv, CommandInv, target' = target, Next
  PROVE  UNCHANGED <<Shown, target, outcome # "cut">>
<1>1. CASE target = None
  <2>1. op.stage \in IncrementStages \union {"idle"}
    BY <1>1, TargetIs
  <2>2. ~(WriteSlot \/ EraseSlot \/ WriteConfig \/ FactoryReset)
    BY <1>1, PagesAssumption DEF WriteSlot, EraseSlot, WriteConfig, Begin, FactoryReset
  <2>3. ~(\/ EraseBackupPage \/ WriteBackupPage \/ WriteLength \/ WriteAddress \/ EraseSlotPage \/ WriteSlotPage
          \/ EraseTokenPage \/ WriteToken \/ EraseCounter \/ ErasePage \/ ShredPage)
    BY <2>1, IdleIs DEF EraseBackupPage, WriteBackupPage, WriteLength, WriteAddress, EraseSlotPage, WriteSlotPage,
      EraseTokenPage, WriteToken, EraseCounter, ErasePage, ShredPage, IncrementStages
  <2>4. UNCHANGED <<slots, outcome>>
    BY <1>1, <2>2, <2>3 DEF Next, PowerLoss, ClearBackup, WriteBase, WriteBaseFields, WriteBaseToken, flash
  <2> QED BY <1>1, <2>4 DEF Shown
<1>2. CASE target # None
  <2>1. op # Idle
    BY <1>2, IdleIs DEF CommandInv, Aimed
  <2>2. ~(WriteSlot \/ EraseSlot \/ WriteConfig \/ FactoryReset \/ ClearBackup \/ PowerLoss \/ EraseCounter)
    BY <1>2, <2>1 DEF WriteSlot, EraseSlot, WriteConfig, Begin, FactoryReset, ClearBackup, PowerLoss, EraseCounter, Done
  <2>3. UNCHANGED <<start, outcome>>
    BY <1>2, <2>2 DEF Next, EraseBackupPage, WriteBackupPage, WriteLength, WriteAddress, EraseSlotPage, WriteSlotPage,
      EraseTokenPage, WriteToken, Done, ErasePage, ShredPage, WriteBase, WriteBaseFields, WriteBaseToken
  <2> QED BY <1>2, <2>3 DEF Shown
<1> QED BY <1>1, <1>2

\* One of the three, or nothing: a command has one target.
LEMMA OneTarget ==
  ASSUME IInv, CommandInv, Next
  PROVE  target' = target \/ target = None \/ target' = None
<1>1. CASE WriteSlot \/ EraseSlot \/ WriteConfig \/ FactoryReset
  BY <1>1, IdleIs DEF WriteSlot, EraseSlot, WriteConfig, Begin, FactoryReset, CommandInv, Aimed
<1>2. CASE ~(WriteSlot \/ EraseSlot \/ WriteConfig \/ FactoryReset)
  BY <1>2 DEF Next, EraseBackupPage, WriteBackupPage, WriteLength, WriteAddress, EraseSlotPage, WriteSlotPage,
    EraseTokenPage, WriteToken, EraseCounter, Done, ErasePage, ShredPage, PowerLoss,
    ClearBackup, WriteBase, WriteBaseFields, WriteBaseToken
<1> QED BY <1>1, <1>2

\* The pages implement the table: one cell is changed by a command, and a cut of power damages, besides
\* that one, cells of one page only (write_to_slot, write_to_config, backup_data).
THEOREM Refinement == Spec => RefinesTable
<1>1. Init => Table!Init
  <2> SUFFICES ASSUME Init PROVE Table!Init
    OBVIOUS
  <2>1. \A c \in Cells : Read(slots, c) = Blank
    BY BlankRead DEF Init
  <2>2. Shown = [c \in Cells |-> Blank]
    BY <2>1 DEF Shown, Init
  <2> QED BY <2>2, SomeParts DEF Table!Init, Shown, Init
<1>2. IInv /\ CommandInv /\ [Next]_vars => [Table!Next]_<<Shown, target, outcome # "cut">>
  <2> SUFFICES ASSUME IInv, CommandInv, [Next]_vars
               PROVE  Table!Next \/ UNCHANGED <<Shown, target, outcome # "cut">>
    OBVIOUS
  <2>1. CASE UNCHANGED vars
    BY <2>1 DEF vars, flash, Shown
  <2> QED BY <2>1, OneTarget, TableStarts, TableEnds, TableStays
<1> QED BY <1>1, <1>2, Invariance, CommandInvariance, PTL DEF Spec, RefinesTable, Table!Spec, Shown
=============================================================================
