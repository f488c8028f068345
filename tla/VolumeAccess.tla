---------------------------- MODULE VolumeAccess ----------------------------
(***************************************************************************)
(* The volumes of the stick as the host sees them: LUN 0 is the encrypted  *)
(* volume or a hidden one, LUN 1 the unencrypted one.  The commands of     *)
(* HID_ExcuteCmd (src/src/USER_INTERFACE/html_io.c) switch the LUNs, the   *)
(* hidden flag, the range of the hidden volume and the key of the AES unit *)
(* one after the other in the IW task, while the mass storage task serves  *)
(* the host (scsi_decoder.c, sd_mmc_mci_mem.c), which tests the units,     *)
(* reads the capacity of a unit that is ready and then reads and writes.   *)
(*                                                                         *)
(* Reading and writing look at neither switch: only the test of a unit     *)
(* tells the host that its volume is gone, and the commands wait 3 or 6    *)
(* seconds for that.  HostPolls says that this is long enough: the host    *)
(* has tested the unit, and its transfers to it have ended.                *)
(***************************************************************************)
EXTENDS Naturals, Sequences

CONSTANTS
  HiddenSlots,  \* the hidden volumes that were set up
  Crypted,      \* the encrypted volume
  Plain,        \* the unencrypted volume
  Dummy,        \* AES_DummyKey_au8
  None,
  MaxSectors,   \* bounds the sectors of a transfer
  HostPolls

ASSUME AccessAssumption ==
  /\ Crypted \notin HiddenSlots /\ Plain \notin HiddenSlots \union {Crypted}
  /\ {Dummy, None, "ready"} \intersect (HiddenSlots \union {Crypted, Plain}) = {} /\ None # "ready"
  /\ MaxSectors \in Nat \ {0} /\ HostPolls \in BOOLEAN

VARIABLES
  lun,        \* cSdEncryptedCardEnabledByUser and cSdUncryptedCardEnabledByUser
  hidden,     \* sd_FlagHiddenLun_u32
  range,      \* gSdStartHiddenVolume_u32 and ..End..: the hidden volume they are those of
  cipherKey,  \* CipherKey, of which AES_SetNewStorageKey writes word after word: two parts
  writable,   \* ReadWriteFlagCryptedVolume_u8 and ReadWriteFlagUncryptedVolume_u8
  todo,       \* steps that the command under way has still to do
  cmd,        \* the last command
  target,     \* the hidden volume it is about
  host,       \* what the host has mounted, None, or "ready" before the capacity is read
  xfer,       \* the READ(10) or WRITE(10) under way
  filled      \* history: FILL_SD_WITH_RANDOM_CHARS since the volume was opened

stick == <<lun, hidden, range, cipherKey, writable>>
accessVars == <<lun, hidden, range, cipherKey, writable, todo, cmd, target, host, xfer, filled>>

Luns == {0, 1}
Volume == HiddenSlots \union {Crypted}
Whole(k) == [low |-> k, high |-> k]
Selected == IF hidden THEN range ELSE Crypted
Idle == todo = <<>>

AccessInit ==
  /\ lun = [l \in Luns |-> l = 1] /\ hidden = FALSE /\ range = None /\ cipherKey = Whole(Dummy)
  /\ writable = [l \in Luns |-> l = 0]
  /\ todo = <<>> /\ cmd = "none" /\ target = None
  /\ host = [l \in Luns |-> None] /\ xfer = None /\ filled = FALSE

-----------------------------------------------------------------------------
(* Commands.  Each is its sequence of calls; the mass storage task may run *)
(* between any two of them.                                                *)

\* HTML_CMD_DISABLE_AES_LUN, LockDevice, and HTML_CMD_GENERATE_NEW_KEYS when the keys are made
Close == <<"off", "show", "dummyLow", "dummyHigh">>

\* HTML_CMD_ENABLE_AES_LUN
OpenCrypted == <<"show", "off", "wait", "fetch", "keyLow", "keyHigh", "on">>

\* Mutant: the range of another hidden volume is left.
OpenHiddenNoRange == <<"off", "show", "dummyLow", "dummyHigh", "wait", "keyLow", "keyHigh", "hide", "on">>
\* HTML_CMD_ENABLE_HIDDEN_AES_LUN when a slot fits; its range is set at once.
OpenHidden ==
  <<"range", "off", "show", "dummyLow", "dummyHigh", "wait", "keyLow", "keyHigh", "hide", "on">>

\* HTML_CMD_DISABLE_HIDDEN_AES_LUN
CloseHidden == <<"off", "show", "dummyLow", "dummyHigh", "wait">>

\* HTML_CMD_FILL_SD_WITH_RANDOM_CHARS; the lines that would switch the volumes off are comments.
Fill == <<"dummyLow", "dummyHigh", "fill">>

\* Mutant: LUN 1 is not switched on again.
PlainModeOff(step) == <<"plainOff", "off", step, "wait">>
\* HTML_CMD_ENABLE_ADMIN_READONLY_UNCRYPTED_LUN, .._READWRITE_..
PlainMode(step) == <<"plainOff", "off", step, "wait", "plainOn">>

\* HTML_CMD_EXPORT_BINARY, after the image is written
Export == <<"plainOff", "wait", "plainOn">>

Program ==
  [open |-> OpenCrypted, openHidden |-> OpenHidden, close |-> Close, closeHidden |-> CloseHidden,
   fill |-> Fill, plainReadOnly |-> PlainMode("plainReadOnly"), plainReadWrite |-> PlainMode("plainReadWrite"),
   export |-> Export]

\* HID_ExcuteCmd after the PIN or password was right; for GENERATE_NEW_KEYS after the keys are made.
Command(c, slot) ==
  /\ Idle /\ slot \in IF c = "openHidden" THEN HiddenSlots ELSE {None}
  /\ todo' = Program[c] /\ cmd' = c /\ target' = slot
  /\ xfer' = IF xfer = None THEN None ELSE [xfer EXCEPT !.calm = FALSE]
  /\ UNCHANGED <<stick, host, filled>>

Do(step) ==
  /\ ~Idle /\ Head(todo) = step /\ todo' = Tail(todo)
  /\ UNCHANGED <<cmd, target, host, xfer>>

\* SetSdEncryptedCardEnableState, SetSdUncryptedCardEnableState
SwitchLun ==
  \/ Do("off") /\ lun' = [lun EXCEPT ![0] = FALSE] /\ UNCHANGED <<hidden, range, cipherKey, writable, filled>>
  \/ Do("on") /\ lun' = [lun EXCEPT ![0] = TRUE] /\ filled' = FALSE /\ UNCHANGED <<hidden, range, cipherKey, writable>>
  \/ Do("plainOff") /\ lun' = [lun EXCEPT ![1] = FALSE] /\ UNCHANGED <<hidden, range, cipherKey, writable, filled>>
  \/ Do("plainOn") /\ lun' = [lun EXCEPT ![1] = TRUE] /\ UNCHANGED <<hidden, range, cipherKey, writable, filled>>

\* SetSdEncryptedHiddenState
SetHidden ==
  /\ \/ Do("show") /\ hidden' = FALSE
     \/ Do("hide") /\ hidden' = TRUE
  /\ UNCHANGED <<lun, range, cipherKey, writable, filled>>

\* SetHiddenVolumeSizes_u32
SetRange ==
  /\ Do("range") /\ range' = target
  /\ UNCHANGED <<lun, hidden, cipherKey, writable, filled>>

\* Mutant: the key of a hidden volume for every command.
TargetKey == target
\* AES_SetNewStorageKey, with the key of the volume or with the dummy
NewKeyOf == IF cmd = "openHidden" THEN target ELSE Crypted
SetKey ==
  /\ \/ Do("keyLow") /\ cipherKey' = [cipherKey EXCEPT !.low = NewKeyOf]
     \/ Do("keyHigh") /\ cipherKey' = [cipherKey EXCEPT !.high = NewKeyOf]
     \/ Do("dummyLow") /\ cipherKey' = [cipherKey EXCEPT !.low = Dummy]
     \/ Do("dummyHigh") /\ cipherKey' = [cipherKey EXCEPT !.high = Dummy]
  /\ UNCHANGED <<lun, hidden, range, writable, filled>>

\* SetSdUncryptedCardReadWriteEnableState; its twin for the encrypted volume has no command that gets
\* here: parse_report's cases for the two are comments.
SetMode ==
  /\ \/ Do("plainReadOnly") /\ writable' = [writable EXCEPT ![1] = FALSE]
     \/ Do("plainReadWrite") /\ writable' = [writable EXCEPT ![1] = TRUE]
  /\ UNCHANGED <<lun, hidden, range, cipherKey, filled>>

\* vTaskDelay
Noticed == \A l \in Luns : ~lun[l] => host[l] = None /\ (xfer # None => xfer.lun # l)
\* Mutant: the delay is left out.
NoWait == Do("wait") /\ UNCHANGED <<stick, filled>>
Wait == Do("wait") /\ (HostPolls => Noticed) /\ UNCHANGED <<stick, filled>>

\* GetStorageKey_u32
Fetch ==
  \/ Do("fetch") /\ UNCHANGED <<stick, filled>>
  \/ /\ ~Idle /\ Head(todo) = "fetch" /\ todo' = <<>>
     /\ UNCHANGED <<stick, cmd, target, host, xfer, filled>>

\* SD_SecureEraseCryptedVolume
FillCard == Do("fill") /\ filled' = TRUE /\ UNCHANGED stick

-----------------------------------------------------------------------------
(* Mass storage *)

\* sd_mmc_mci_test_unit_ready; the host keeps what it has mounted as long as the unit is ready.
TestUnitReady(l) ==
  /\ xfer = None
  /\ host' = [host EXCEPT ![l] = IF ~lun[l] THEN None ELSE IF @ = None THEN "ready" ELSE @]
  /\ UNCHANGED <<stick, todo, cmd, target, xfer, filled>>

\* sd_mmc_mci_read_capacity_0, .._1
ReadCapacity(l) ==
  /\ xfer = None /\ host[l] = "ready"
  /\ host' = [host EXCEPT ![l] = IF l = 0 THEN Selected ELSE Plain]
  /\ UNCHANGED <<stick, todo, cmd, target, xfer, filled>>

\* sbc_read_10, sbc_write_10 up to the test of write protection
Transfer(l, w) ==
  [lun |-> l, write |-> w, mounted |-> host[l], place |-> None, left |-> MaxSectors, calm |-> Idle]

Begin(l, w) ==
  /\ xfer = None /\ host[l] \in Volume \union {Plain}
  /\ w => writable[l]
  /\ xfer' = Transfer(l, w)
  /\ UNCHANGED <<stick, todo, cmd, target, host, filled>>

\* sd_mmc_mci_usb_read_10_0, .._write_10_0, .._1 choose the place on the card.
ChoosePlace ==
  /\ xfer # None /\ xfer.place = None
  /\ xfer' = [xfer EXCEPT !.place = IF xfer.lun = 0 THEN Selected ELSE Plain]
  /\ UNCHANGED <<stick, todo, cmd, target, host, filled>>

\* STICK20_mci_aes takes the key for each sector.
Sector ==
  /\ xfer # None /\ xfer.place # None
  /\ xfer' = IF xfer.left = 1 THEN None ELSE [xfer EXCEPT !.left = @ - 1]
  /\ UNCHANGED <<stick, todo, cmd, target, host, filled>>

-----------------------------------------------------------------------------
\* The stick is plugged in anew; the write flags are in flash.
Restart ==
  /\ lun' = [l \in Luns |-> l = 1] /\ hidden' = FALSE /\ range' = None /\ cipherKey' = Whole(Dummy)
  /\ todo' = <<>> /\ cmd' = "none" /\ target' = None
  /\ host' = [l \in Luns |-> None] /\ xfer' = None /\ filled' = FALSE
  /\ UNCHANGED writable

IWTask == SwitchLun \/ SetHidden \/ SetRange \/ SetKey \/ SetMode \/ Wait \/ Fetch \/ FillCard
MassStorage == ChoosePlace \/ Sector

AccessNext ==
  \/ \E c \in DOMAIN Program, s \in HiddenSlots \union {None} : Command(c, s)
  \/ IWTask
  \/ \E l \in Luns : TestUnitReady(l) \/ ReadCapacity(l)
  \/ \E l \in Luns, w \in BOOLEAN : Begin(l, w)
  \/ MassStorage \/ Restart

\* Both tasks have the same priority and are run in turn; the host goes on testing its units.
AccessFairness ==
  WF_accessVars(IWTask) /\ WF_accessVars(MassStorage) /\ \A l \in Luns : SF_accessVars(TestUnitReady(l))

AccessSpec == AccessInit /\ [][AccessNext]_accessVars /\ AccessFairness

-----------------------------------------------------------------------------
(* Properties *)

Step ==
  {"off", "on", "plainOff", "plainOn", "show", "hide", "range", "keyLow", "keyHigh", "dummyLow", "dummyHigh",
   "plainReadOnly", "plainReadWrite", "wait", "fetch", "fill"}
Xfer ==
  [lun : Luns, write : BOOLEAN, mounted : Volume \union {Plain}, place : Volume \union {Plain, None},
   left : 1 .. MaxSectors, calm : BOOLEAN]

\* Every variable keeps its type.
AccessTypeOK ==
  /\ lun \in [Luns -> BOOLEAN] /\ writable \in [Luns -> BOOLEAN]
  /\ hidden \in BOOLEAN /\ range \in HiddenSlots \union {None} /\ (hidden => range # None)
  /\ cipherKey \in [low : Volume \union {Dummy}, high : Volume \union {Dummy}]
  /\ todo \in Seq(Step) /\ cmd \in DOMAIN Program \union {"none"} /\ target \in HiddenSlots \union {None}
  /\ host \in [Luns -> Volume \union {Plain, "ready", None}]
  /\ xfer \in Xfer \union {None} /\ filled \in BOOLEAN

\* A volume that is switched on has its own key in the AES unit, whole, whenever no command is under
\* way; unless the card was filled since, which leaves the dummy key (html_io.c:346).
OpenVolumeHasItsKey == Idle /\ lun[0] /\ ~filled => cipherKey = Whole(Selected)

\* A host that tests its units within the delays of the commands has what is switched on mounted: a
\* transfer that no command overlaps is to the very volume the host knows, under its key.
CalmTransfersFit ==
  HostPolls /\ xfer # None /\ xfer.calm /\ ~filled /\ lun[xfer.lun] =>
    /\ xfer.place \in {None, xfer.mounted}
    /\ xfer.lun = 0 => xfer.mounted = Selected /\ cipherKey = Whole(xfer.mounted)

\* When the command that makes a volume read-only has been answered, nothing is written to it, not
\* even by a WRITE(10) that had passed the test of write protection before.
ReadOnlyIsKept == HostPolls /\ Idle /\ xfer # None /\ xfer.write => writable[xfer.lun]

\* The delays of the commands are enough to keep the host's transfers apart from their switching.
TransfersFit == CalmTransfersFit /\ ReadOnlyIsKept

\* Whatever command has switched the unencrypted volume off, it comes back, whatever the host transfers
\* meanwhile.
UncryptedComesBack == ~lun[1] ~> lun[1]
=============================================================================
