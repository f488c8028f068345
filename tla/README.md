# Nitrokey Storage firmware: TLA+ models and proofs

This directory holds TLA+ models of the Nitrokey Storage firmware (`src/src`), the TLC
configurations that check them on small instances, and proofs, checked by TLAPS, of what
matters most about them for every value of their constants.

Contents: [1 The system](#1-the-system), [2 The modules](#2-the-modules),
[3 The runs](#3-the-runs), [4 The proofs](#4-the-proofs),
[5 What the models found](#5-what-the-models-found),
[6 What is not modelled](#6-what-is-not-modelled), [7 The plan](#7-the-plan).

## 1 The system

The Nitrokey Storage is a USB device: a mass storage with an encrypted volume, hidden volumes
and a read-only firmware volume, a smartcard (OpenPGP card) behind a CCID interface, and a
"keyboard" whose HID feature reports carry all of the firmware's own commands (one-time
passwords, password safe, volumes, updates). It runs FreeRTOS on an AVR32 UC3A3.

### 1.1 Tasks and what they share

| Task | Source | Does |
|---|---|---|
| USB task | `DRIVERS/USBB/ENUM/DEVICE/usb_device_task.c`, `usb_specific_request.c` | serves control transfers (the HID reports among them); counts the two lock counters down every 10 ms; preempts the others |
| CCID task | `USB_CCID/USB_CCID_task.c`, `USB_CCID.c` | the host's card reader interface |
| IW task ("internal work") | `INTERNAL_WORK/internal_work.c` | runs `OTP_main` (the HID reports) in each turn and `HID_ExcuteCmd` (the commands that take long) every tenth |
| mass storage | `DRIVERS/USBB/.../device_mass_storage_task.c`, `nitrokey.c` | sector access, encrypted with the volume key |

They meet at: the report buffer and its flag (USB task, IW task), the answer buffer (USB task
and both halves of the IW task), the command mailbox `HID_CmdGet_u8` / `HID_String_au8` (the two
halves), the smartcard and its two lock counters (CCID task, IW task, counted down by the USB
task), the sequence number of the link to the card (firmware and host), the flags, range and key
that open the volumes (IW task, mass storage), the AES unit and its semaphore `AES_semphr` (IW
task, mass storage), and flash.

### 1.2 Components

| Component | State it keeps | Operations | What makes it correct |
|---|---|---|---|
| HOTP counters (`OTP/hotp.c`) | a counter page for each HOTP slot | set, get, increment, compute and verify a code | codes come in order, none is handed out again and again; a cut of power loses at most the code at hand |
| OTP slots and their pages (`OTP/hotp.c`) | slot pages, backup pages with a trailer | write or erase a slot, write the configuration, factory reset; and, of the backup pages, the increment of a full counter page | one whole copy survives a cut of power, as far as no counter page fills up while the slots are torn; erased secrets are gone from both copies |
| OTP sessions (`OTP/report_protocol.c`) | temporary passwords, record in transfer, configuration | authenticate (admin, user), send, write, erase, configure, get a code, type a code for a lock key, lock, factory reset | only the holder of a session that a PIN opened changes slots or is answered protected codes; a typed code is of a slot that the admin gave to the key; a slot is written as it was sent |
| HID reports and mailbox (`OTP/report_protocol.c`, `USER_INTERFACE/html_io.c`) | report, flag, answer with CRC, mailbox, status | set report, get report, parse, execute, update the status | an answer belongs to its request; a request is executed once and answered in the end |
| Smartcard sharing (`USB_CCID/USB_CCID.c`, `CCID/USART/ISO7816_ADPU.c`) | two lock counters | set, count down, wait, switch the card off or restart it | the tasks do not exchange blocks with the card at once, nor wait for each other for ever |
| Password safe (`HighLevelFunctions/password_safe.c`, `report_protocol.c`) | enciphered slots on two flash pages, their key in the user page and, deciphered, in RAM | enable, read, write in two reports, erase, lock | what was stored is read back; after new keys nothing old is legible |
| Storage keys (`HighLevelFunctions/HandleAesStorageKey.c`) | encrypted storage key, XOR pattern, their state in flash; master key on the card | build, get, check, start up | a volume is opened with the key it was opened with before, or not at all; no key is a mixture of two makings |
| Stick configuration (`HighLevelFunctions/FlashStorage.c`) | the user page: configuration, keys, update PIN | read, write a field, erase, restore | a record without its mark is replaced by the default; the update PIN survives new keys |
| Hidden volume slots (`HighLevelFunctions/HiddenVolume.c`) | a page of slots under two layers, its deciphered copy in RAM | make, load, set up, open, close | setting up one slot leaves the others open to their passwords; a password opens only what was set up with it |
| Volumes (`html_io.c`, `sd_mmc_mci_mem.c`, `scsi_decoder.c`) | which volume is switched on, hidden or not, its range, its key in the AES unit, write protection | open, close, hide, fill, make read-only, transfer | a volume that is on has its own key; a transfer reaches the volume that the host has mounted |
| Sector transfer and the AES unit (`sd_mmc_mci.c`, `ram_aes_ram_example.c`) | two sector buffers, two stages, the AES semaphore | read, write, stop a DMA, encipher a key | sectors arrive once, in order, under their own number; the AES unit is not taken from a sector on its way |
| T=1 link (`CCID/USART/ISO7816_Prot_T1.c`) | sequence numbers, buffers, error count | send, receive, repeat, chain | the answer is that of the command, which was executed once |
| TOTP time (`hotp.c`, `report_protocol.c`) | time stamp in flash, RTC | set, get, check | the stored time goes back only when the host forces it; an implausible time opens no volume |
| OpenPGP commands, CCID messages, keyboard output, file interface, consoles, cryptography, FreeRTOS and drivers | | | see section 6 |

### 1.3 What is hard in this code

* **Cuts of power.** The device is pulled out at any moment. Flash is erased by the page and
  cleared by the byte, so every change of it passes through states that no code path ends in.
* **One answer buffer.** Both halves of the IW task write the answer, the USB task sends it
  whenever the host polls. There is no lock; a CRC tells finished answers.
* **Leases instead of locks.** The smartcard is taken for a number of ticks, and given back by
  the tick whatever its owner does; a restart of the card takes none at all.
* **Pages with two owners.** The backup pages of the OTP slots are also where a full counter page
  is saved, and every field of the user page is rewritten with each of the others.
* **Sticky state.** A command stays in its mailbox, a record in its transfer buffer, a temporary
  password in RAM, until the code path that clears it is taken.
* **Keys in three places.** A storage key is made of what the card holds, a pattern and a
  ciphertext in flash; each is written on its own, and the card may fail or be changed by the host.
* **Switches beside a transfer.** The volume, its range and its key are changed one after the
  other in one task while another one reads and writes sectors.
* **Waits that give up.** A stage of a transfer may be late, and the loop goes on without it.
* **Number boundaries.** A full counter page, an erased counter of all ones, a slot number whose
  offset lies beyond the pages, a trailer with its bytes swapped.

`PROJECT.json` lists the hazards, each with the line where it bites and the properties that
would show it.

## 2 The modules

| Module | Models | Refines |
|---|---|---|
| `HotpService` | what a counter promises: codes in order, none more than twice | |
| `HotpCounter` | the counter pages, one flash command at a time | `HotpService` (`RefinesService`) |
| `SmartcardLock` | the two lock counters, and every command's steps at them | |
| `HidMailbox` | reports, answers, mailbox, the turns of the IW task | |
| `OtpSlotTable` | what the slot pages promise: a table, and the damage a cut may do | |
| `OtpSlotPages` | slot pages and backup with its two writers, one flash command at a time | `OtpSlotTable` (`RefinesTable`) |
| `OtpSession` | the OTP commands, atomic but for the updates of flash | |
| `StorageKeys` | making and using the keys, the user page, the update PIN | |
| `HiddenSlots` | the slots of the hidden volumes in flash and in RAM | |
| `VolumeAccess` | the commands that switch the volumes, beside the host's transfers | |
| `SectorPipeline` | one transfer: two buffers, two stages, the AES semaphore | |
| `PasswordSafe` | the safe's slots, its key, its two reports | |
| `T1Link` | the exchange of numbered blocks with the smartcard | |
| `MC...` | instances for TLC | |
| `...Proofs` | theorems about the modules they extend: `CardProofs` for `SmartcardLock` and `T1Link`, `VolumeProofs` for `HiddenSlots`, `VolumeAccess` and `SectorPipeline` | |

The names of the modules that share a proof module carry a prefix (`LockInit`, `LinkTypeOK`,
`PipelineSpec`, `AccessFairness`, ...), so that both can be extended at once.

The modules share boundaries. `OtpSession` takes a flash update as one step, and a cut within it
as "pages before p new, page p erased or old, the others old": `OtpSlotPages` is where that comes
from. `OtpSlotPages` has of the counter pages only what their increment does to the backup pages,
which `HotpCounter` does not look at; this one takes the write of the record as one step. `StorageKeys`, `HiddenSlots` and `PasswordSafe` are about the same user
page and the same card: the first has all fields and looks into no slot, the others have the
slots and of the page only the field they use. `VolumeAccess` takes a sector as one step, which
`SectorPipeline` takes apart; `StorageKeys` says which key the volume gets, `VolumeAccess` when.
Commands of the HID run in the IW task one after the other: what interleaves with them are cuts
of power, the mass storage task, and the host's use of the card through CCID.

### 2.1 HotpCounter

A page is a base and a number of used tokens (`get_counter_value`). A command is `op`: its
slot, the code it was asked for or has computed, the increments that remain, and the page image
in RAM while the page is erased. `GetCode` and `VerifyCode` start a command that increments once
or k + 1 times; `Program` is `set_counter_value`; `MarkToken`, `MarkTokenFails`,
`EraseFullPage` and `WriteBack` are the flash commands of `increment_counter_page`; `ReturnCode`
and `WriteSlot` end the command; `PowerLoss` may come between any two. `EraseSlot` leaves the
counter page alone, as the code does (section 5). Arithmetic is modulo `Modulus`, and an erased
page holds `Modulus - 1`, so that the first increment of one wraps.

History variables: `last` and `times` (the last code and how often it came), `cut` (power
losses since), `torn` (power was cut while the page or record was rewritten: the counter is then
undefined until the slot is programmed again).

### 2.2 SmartcardLock

A command is the sequence of its steps, as its handler takes them: five kinds of CCID messages, and
for the firmware the exchange of one APDU, the restart of the card and `LockDevice`. `SetLock` is
`USB_CCID_SetLockCounter` or `ISO7816_SetLockCounter` (wait for the other counter in a critical
section, then set one's own); `WaitUnlocked` the busy wait before a CCID message; `Tick` the
10 ms of the USB task. The card answers, or is given up, `AnswerTime` after the lease was taken.

`CardSwitch` is what the firmware does to the card with no lease at all: `ISO7816_InitSC`, which
`LA_SC_StartSmartcard` reaches through `LA_RestartSmartcard_u8` and the CCID task calls as it
starts, and `CCID_SmartcardOff_u8` in `LockDevice`, after the lease was given back. It may come under
an exchange of the other task at any time. `CardSharedOnlyAfterOverrun` therefore speaks of two
exchanges of blocks, each under its lease, and says nothing of a switch: no property of the code
keeps a switch and an exchange apart (hazards at `ISO7816_ADPU.c:488` and `html_io.c:1076`).

### 2.3 HidMailbox

`rx` and `status` are the report buffer and its flag; `tx` and `crc` the answer and what its CRC
was computed from, so that an answer is valid when both agree; `stick20`, `mailbox`, `string`,
`sendData` are the status, command, payload and status data of the Stick 2.0 commands. `pc`
walks the IW task through `OTP_main`, `parse_report` and `HID_ExcuteCmd`, with a step wherever the
USB task could see or change something in between. Every command is one of five kinds, by what
it does to the mailbox and the answer.

Assumed of the host: it has one request out and repeats it until it has the answer; different
requests have different CRCs; the bytes of a report are not garbled. The CRC of a report is
copied and checked in one step. A report that comes while the parser is between two of the steps
that read the buffer mixes with the earlier one, as in the code.

### 2.4 OtpSlotPages

Slots and configuration are cells on pages (a cell may straddle two, as TOTP slot 1 does), in
two parts, name and secret. An update copies all slot pages to RAM, changes one cell, and then
erases and writes the backup pages, the trailer, the slot pages, and the token, page by page. A
record with a secret of zeros keeps the secret that is there. `EraseSlot` of a HOTP slot goes on
with `erase_counter`, which erases the page of the token again (section 5). `FactoryReset` shreds
and wipes slot pages and backup.

The backup pages have a second writer. `increment_counter_page`, at a full counter page, saves
the base of the counter there: `ClearBackup` erases the first backup page, `WriteBase` writes eight
bytes to it where the configuration would be (`Garbled`), `WriteBaseFields` writes address and
length into the trailer, which is not erased, and `WriteBaseToken` the counter page and the token.
The length is written with four bytes over the place of the token, so that no token stands
after it, the one of the increment included. It may come whenever a HOTP slot is programmed
(`CounterPageMayBeFull`), also when a cut has left the slot pages torn; the copy in the backup is
then lost, and `owed`, what the device owes the host of its slots, ends with it. While the slot
pages are whole it takes the backup and the promise holds on.

`check_backups`, which would restore the slots, is no action: nothing in this build calls it (the
only call is in `Tools/OTP_Test.c:129`, which is not compiled).

Simplified: the five passes of shredding are one, and its two halves of a page are one write;
the bytes after the last record are erased; the host repeats a factory reset that was cut before
it uses the slots again (`Tidy`), because slots of random bytes have no meaning to speak of.

### 2.5 OtpSession

`temp` holds both temporary passwords with their flags, `local` the record in transfer, `op` the
command whose flash updates are under way. An action is a whole command of `parse_report`, with
its refusal; only a command that changes flash takes more steps (`SetCounter`, `Update`), and
`PowerLoss` may come between and, by `CutAt`, within them. `config` has the byte of the user password
and the slot of each lock key. `TypeCode` is the key that is clicked twice: `OTP_main` computes the
code of the key's slot and types it, whatever the sessions and the protection are, when it comes to
it; the click is no state of its own, because it may come at any time. One of the passwords is `Zero`, what a
cleared buffer holds: a comparison without the flag would take it. The last TOTP slot has no place
of its own (`get_slot_offset` gives it that of the first HOTP slot): writing it does nothing,
erasing it erases the other, reading it asks for the other type.

History variables: `session` (whose password the last right PIN opened a session for), `asked`
(what the host has sent in this transfer), `assigned` (the slots that the admin session has given to
keys, as far as they may be in flash), `left` (the record in RAM has parts of a transfer that
the host has left for a new session), `behind` (HOTP slots with a record that is newer than the
counter).

Simplified: a secret comes in one report (the code takes two); no record straddles pages; a
factory reset is one step; the card is "right PIN or wrong PIN"; the host starts its transfer
over after it authenticates or locks. `CMD_UNLOCK_USER_PASSWORD` and `CMD_VERIFY_OTP_CODE` change
nothing that this module has (for the second one see `HotpCounter!VerifyCode`).

### 2.6 StorageKeys

The user page is a record of its fields: the mark of the configuration, the flag of new keys, the
enciphered storage key, its hash, the base of the slots key, the XOR pattern, the enciphered key
of the safe, salt and hash of the update PIN. A random number is a fresh number; what the card
makes of a ciphertext `c` under its master key `m`, xored with the pattern `x`, is the term
`[c, m, x]`, so that a key made of parts that do not belong together is seen to be one.

`pc` walks a command through `BuildStorageKeys_u32` and its two successors, `EraseLocalFlashKeyValues_u32`,
`CheckUpdatePin` and the start-up; each step writes the page once, because every
write of a field erases and rewrites the page (`flashc_memcpy`). `PowerCut` leaves the page as it
is or erased. The card may fail in every step that needs it, and may have taken a new master key
although its answer was lost (`NewMasterKey`). `HostSetsCardKey` is the host that changes the
card's key through CCID. `EnableVolume` is `GetStorageKey_u32` with the check of the hash and,
when there is none, its saving; `SetupHidden` makes the slots when the page has no magic number.

History variables: `made` (the number of keys drawn), `confirmed` (the key the volume was last
opened with since it was built), `swapped` (the host changed the card's key), `userPin` (the PIN
its owner last set), `cut`.

### 2.7 HiddenSlots

A slot is a volume under an inner layer, made from the password and the deciphered salt, and an
outer one, made from the slots key for the whole page; a layer taken off with another key than it
was put on with is one more layer. So a slot has a sequence of layers, and reads as it was written when
all are off; `Junk` is what was never a slot. `LoadSlots` is `DecryptedHiddenVolumeSlotsData`, whose failure leaves the
key of the flash or zeros in RAM (`LoadFails`). `NewBase`, `DrawSlots`, `FillSlots` are
`InitHiddenSlots`, whose result `SetupUpHiddenVolumeSlot` does not look at; `WriteSlot` is
`HV_WriteSlot_u8`, and `WriteSlotUnloaded` the same when the loading failed, because the card has
forgotten the PIN or fails: the slots are written all the same, under the key that is left.
`OpenVolume` loads and tries all slots. `OpenUnloaded` is an opening in which the card fails at slot
number k: `HV_ReadSlot_u8` does not look at that, takes the slot through the key that is left, and
gives what it finds when its CRC fits.

`VolumesAreKept` says of each step that it keeps the volumes, but for the steps that `TakesVolumes`
names: new keys, a factory reset, a cut of power, and `WriteSlotUnloaded`. The last one is the
hazard at `HiddenVolume.c:355`: such a setup is answered OK and takes all hidden volumes with it, so
that nothing can be promised of it. `OpensWhatWasSet` covers it, and the failed openings.

### 2.8 VolumeAccess

A command is the sequence of its calls (`Program`), from `HID_ExcuteCmd` and `LockDevice`: switch
a LUN off or on, hide or show, set the range, copy one or the other half of the key, wait. The
mass storage task runs between any two of them: `TestUnitReady`, `ReadCapacity`, `Begin` (the
test of write protection), `ChoosePlace` (which volume a READ or WRITE goes to), `Sector`. Reading
and writing look at no switch: only the test of a unit tells the host that its volume is gone.
The commands wait three or six seconds for that, and `HostPolls` says that this is long enough for
the host to test its units and end its transfers. The commands that would make the encrypted volume
read-only or writable are left out: `parse_report` has their cases commented out. The history variable `filled` marks the
filling with random data, after which the key is the dummy.

### 2.9 SectorPipeline

`Load`, `Loaded`, `Late`, `Again`, `LoadLast`, `Last`, `Drain` are the loop of
`sd_mmc_mci_dma_read` and `.._write`, which are one module because they differ in which stage is
the card's (`CardStage`) and in three lines that the actions name. `first` and `second` are the
stages under way with their buffer and block number; `FirstDone` and `SecondDone` complete them in
any order. `busy_wait` may give up on either (`Late`, at most `MaxLate` times); `StopDma` may stop a
stage within a sector (`slipped`). The IW task takes the same semaphore, waits for all stages, does
not look at whether they ended, and uses the AES unit (`IWUses`). A sector is its number; it is
`Bad` when it is not the one its initialization vector says.

### 2.10 PasswordSafe

The key of the safe is a pair: the ciphertext in flash and the key of the card. A slot is sent in
two reports and enciphered in the buffer that collects them, so that a second part sent twice
enciphers once more (`Mess`). `ErasePage` and `Program` are the two halves of `flashc_memcpy` for a page
of slots, `WriteUserPage` and `ProgramUserPage` those for any field of the user page (configuration,
identities of the cards, update PIN, keys of the volumes): each of them erases the key of the safe and
writes it anew, and a cut between the two loses it, and with it all slots.
`EraseUserPage`, `EraseSafe`, `NewCardKey`, `NewSafeKey` are the parts of new keys and of the factory
reset that concern the safe; the card may fail at each. History variables: `stored` (what the
host stored in each slot, as far as it is to be read again), `done` (the last command that made or
erased keys, while nothing was stored since), `stale` (the safe was enabled when keys were erased and
not made anew, so that the old key is still in RAM), `asked` (the first report has come).

`StoredIsRead` excepts the cuts that hit a write to the slot's own page or to the user page, and
`OldIsForgotten` a safe that was enabled when the reset came: until it is locked or unplugged, it
reads the page that the reset leaves.

### 2.11 T1Link

The firmware has one number, `ISO7816_T1_SendNr`, and its predecessor; the card, which is
external, has the number it expects and that of its own next block, as ISO 7816-3 says.
`BeginCommand`, `SendI`, `SendR` and the `Receive...` actions are the loop of `ISO7816_T1_SendString` with
`CheckReceiveBlock`; `Proceed` is its end, which switches the number once more after an odd
number of chained blocks. `Damaged` and `ReceiveFails` are what the wire does, `HostXfr` the
blocks of `ISO7816_T1_DirectXfr`, which shift the numbers of the card only. History variables:
`ran` (executions of this command, and whether from all its blocks), `disturbed`, `before`, `loose`
(a disturbance of this command, of the one before, and since the card last executed one).

## 3 The runs

All passing runs are exhaustive. Distinct states are in the last column. Three runs
use the symmetry of interchangeable values, and two a `VIEW`, which leaves out of a state what no
later step reads: `HiddenSlots` the copy in RAM while it does not count as decrypted, `OtpSession` the
status of the last answer (the properties read the one that a step gives).

| Run (cfg) | Properties | States |
|---|---|---|
| `HotpCounter.cfg` | `TypeOK`, `NoGapWithoutPowerLoss`, `RefinesService` | 222,575 |
| `SmartcardLock.cfg` | `LockTypeOK`, `LeasesExclude`, `CardSharedOnlyAfterOverrun`, `EveryCommandEnds` | 24,624 |
| `HidMailbox.cfg` | `TypeOK`, `AnswersAreOwn`, `ExecutedAsSent`, `EveryRequestIsAnswered` | 151,855 |
| `OtpSlotPages.cfg` | `TypeOK`, `BackupIsSound`, `ErasedIsForgotten`, `RefinesTable` | 170,878 |
| `OtpSession.cfg` | `TypeOK`, `CounterIsNotOlder`, `Authorized`, `WritesAreRight` | 625,308 |
| `StorageKeys.cfg` | `TypeOK`, `UpdatePinIsKept`, `ConfirmedKeyIsKept`, `KeysComeTogether` | 1,407,492 |
| `HiddenSlots.cfg` | `HiddenTypeOK`, `VolumesAreKept`, `OpensWhatWasSet` | 640,633 |
| `VolumeAccess.cfg` | `AccessTypeOK`, `OpenVolumeHasItsKey`, `TransfersFit`, `UncryptedComesBack` | 55,689 |
| `SectorPipeline.cfg` | `PipelineTypeOK`, `SectorsArriveRight`, `AesIsKept`, `TasksGoOn` | 25,365 |
| `PasswordSafe.cfg` | `TypeOK`, `StoredIsRead`, `OldIsForgotten` | 2,313,907 |
| `T1Link.cfg` | `LinkTypeOK`, `AnswerIsRight`, `FailsOnceOnly` | 1,396,868 |
| `ReadyForNextValidation.cfg` | a claim the code does not keep (section 5) | violated |

Some properties have named parts, which the comments state one by one: `BackupIsSound` is
`OneCopyIsWhole` and `TokenTellsTruth`; `Authorized` is `ChangesAreAuthorized` and `CodesAreAuthorized`;
`WritesAreRight` is `WritesOnlyItsSlot` and `WritesAreAsSent`; `KeysComeTogether`, `TransfersFit`,
`SectorsArriveRight` and `TasksGoOn` likewise. That no code comes three times, and that codes never
go back, is part of `RefinesService`, and is proved on its own as well.

For each property of a passing run, `PROJECT.json` names a mutant of the model, a plausible bug
in the code, under which the same run finds the property violated. The mutants stand in the
modules before the definition they change.

Several properties except a case in which the code itself does otherwise: the exception is a named
condition in the property (`owed`, `loose`, `filled`, `TakesVolumes`, `swapped`, `cut`, `late`, `stale`,
`Stuck`, `Disturbed`), and the hazards of `PROJECT.json` say which line makes it necessary. The models
contain all these cases; only the promise is weaker there. A hazard that is wholly such a case names
no property.

### 3.1 Bounds, and why they are enough

* **HotpCounter**: pages of 3 tokens (504), a look-ahead of 2 (10), two slots of which one
  verifies, a counter up to 9 of modulus 11 (2^64), one cut of power between two codes. What
  can go wrong goes wrong at a page boundary. From a seed of 0 a page fills at 3 and at 6, so
  that a boundary is met twice and by every kind of increment, and a verification of two values
  crosses it at either step. The wrap of an erased page is in reach. The proofs need none of
  the bounds but `LookAhead <= Tokens`, which holds in the code (10 and 504).
* **SmartcardLock**: the leases 1 < 2 < 3 < 4 < 5 keep the order they have in the code (10, 50,
  1000, 3000 ticks, and 6000 for an answer). Two commands for each task suffice for a command to
  begin in what its predecessor left. The proofs take any leases and any number of commands.
* **HidMailbox**: two requests, each sent twice at most without need, one CCID access, and a
  turn of `HID_ExcuteCmd` for every second one of `OTP_main` (10). A late answer needs a second request
  to be mixed with, and a third one meets the same buffers. `Disturbed` names the cases
  that the properties leave out: a host that repeats what is not lost, and the two commands that
  stay in the mailbox. The proofs of the safety properties take any of the four bounds.
* **OtpSlotPages**: two pages (3), with the configuration on the first, one slot on both and a
  HOTP slot on the second, one name and one secret. First, last and straddled page are there; a
  third page would only be another one in the middle. The proofs take any layout.
* **OtpSession**: two HOTP slots with the reserved one, two TOTP slots with the one that has no
  place, two pages, two passwords of which one is the cleared buffer, one name, one secret. The
  properties compare slots, passwords and records; two of each tell them apart; one lock key, which has
  the first HOTP slot or none (2), since the keys do not meet; and a single secret differs from an erased and from an empty one. The proofs take any.
* **StorageKeys**: two numbers drawn, so that a second making, a setup of hidden slots or a key of
  the host meets what the first making left; the default update PIN and another; three salts,
  enough for a fresh one beside the salt of the page and a saved one. Cuts and failures are not
  bounded. The proofs take any numbers, PINs and salts.
* **HiddenSlots**: two slots (4), two passwords, two setups, four draws (two for each making).
  Two slots show that setting up one leaves the other; a second making of the slots shows that
  nothing of the first is opened. The proofs take any number of each.
* **VolumeAccess**: two hidden volumes, so that one can be opened after the other without the
  encrypted one between them; two sectors in a transfer, so that one follows a switch and one
  precedes it. Commands, transfers and restarts are not bounded. The proofs take any hidden
  volumes and transfers of any length.
* **SectorPipeline**: six sectors, three waits that give up in a transfer. A turn touches two
  sectors and two buffers, so the loop repeats after two turns; the first sector, the last one
  and the turn after a late one are different, and six leave room between them. The proofs take
  any number of both.
* **PasswordSafe**: three slots (16), two on one page and one on the other, since a write rewrites
  the slots of its page; two words; two makings of keys after the first. The proofs take any.
* **T1Link**: commands of two blocks and answers of up to three (an even and an odd number of
  chained blocks, both parities), two tolerated errors (`ISO7816_T1_MAX_SEND_ERROR_COUNT` is 5),
  commands numbered modulo 3, so that a late block is told from those of its two
  neighbours. The number of commands is not bounded. The proofs take any number of blocks and
  of tolerated errors.

### 3.2 Fairness

* `SmartcardLock!FairLockSpec`: weak fairness of `Tick` and of the steps of both tasks. The USB task
  has a higher priority than both (`FreeRTOSConfig.h`) and delays itself for a fixed time; the
  CCID task and the IW task have the same priority and share the processor by time slices; the
  card answers or the wait for its first character is given up. No fairness is assumed of
  `Begin`: whether commands come is up to the host.
* `HidMailbox!FairSpec`: weak fairness of the IW task, of the end of a CCID access (which is what
  `SmartcardLock` shows) and of `Accept`, because the host polls; strong fairness of
  `SendLost`, because the state in which a lost report is recognised comes and goes with the
  turns of the IW task, and the timer by which the host repeats a report is not synchronised
  with these.
* `VolumeAccess!AccessSpec`: weak fairness of the steps of the IW task and of the mass storage task,
  which have the same priority and are preempted by time slices; strong fairness of
  `TestUnitReady`, because a host goes on testing its units between its transfers, whenever these
  end. No fairness of `Command`, `Begin` or `Restart`.
* `SectorPipeline!PipelineSpec`: weak fairness of the loop, of both DMA controllers and of the use of the
  AES unit; strong fairness of taking the semaphore in either task, because both poll it at equal
  priority, at moments that the other one's turns do not follow. `Late` is never fair.
* The other modules have no liveness: their commands are straight lines of code in a critical
  section, and a cut of power may end any of them. That a command of `T1Link` ends is due to its
  bound on errors and time-outs.

### 3.3 Deadlock

All passing runs but one check for deadlock. `SectorPipeline.cfg` does not: a write whose
second stage was late waits for a semaphore that it has itself, and if the IW task waits too the
system really stops (`Stuck`, section 5). The violation run switches the check off, because the
counter is not driven past `MaxCounter`; the passing run on the same module keeps it.

## 4 The proofs

Every theorem is of the form `Spec => []P`, `Spec => [][A]_vars` or, for a refinement,
`Spec => Abstract!Spec`, for all values of the constants that satisfy the named assumption of
the module. Each proof shows an invariant (`IInv`, or with a prefix `LockInv`, `LinkInv`,
`HiddenInv`, `AccessInv`, `PipelineInv`) inductive, one lemma for each action, and draws the
theorems from it. TLC checked each part of the invariants before it was proved. Of the properties
of the passing runs, all but the four liveness properties are theorems.

| Module | Theorems | Assumption |
|---|---|---|
| `HotpCounterProofs` | `TypeCorrect`, `AtMostTwice`, `GapOnlyByPowerLoss`, `NeverBack`, `Refinement` | `CounterAssumption`: the window is no longer than a page, the counter stays below the modulus |
| `CardProofs`, on `SmartcardLock` | `LockTypeCorrect`, `MutualExclusion`, `SharedOnlyAfterOverrun` | `LockAssumption`: the leases are positive |
| `CardProofs`, on `T1Link` | `LinkTypeCorrect`, `AnswersAreRight`, `FailsOnce` | `LinkAssumption`: a command and an answer have a block |
| `HidMailboxProofs` | `TypeCorrect`, `AnswersOwn`, `Executed` | `MailboxAssumption`: the bounds are natural numbers |
| `OtpSlotPagesProofs` | `TypeCorrect`, `CopySurvives`, `TokenIsTrue`, `BackupSound`, `Forgotten`, `Refinement` | `PagesAssumption`: every record lies somewhere, the configuration on the first page; erased, random and "keep" values are no names or secrets |
| `OtpSessionProofs` | `TypeCorrect`, `CounterComesFirst`, `ChangesNeedSession`, `CodesNeedSession`, `SessionsRule`, `OthersAreLeftAlone`, `TransfersAreWhole`, `WritesHold` | `SessionAssumption`: HOTP and TOTP slots differ; keys are no passwords, and type HOTP slots other than the reserved one; an erased or empty field is no name or secret |
| `StorageKeysProofs` | `TypeCorrect`, `UpdatePinKept`, `ConfirmedKept`, `Together` | `KeysAssumption`: the default PIN is one, an erased salt is no salt, a fresh one can be drawn |
| `VolumeProofs`, on `HiddenSlots` | `HiddenTypeCorrect`, `SlotsKeepVolumes`, `OpensOnlyWhatWasSet`, `RamFitsFlash` | `HiddenAssumption`: the slots are finitely many numbers, at least one |
| `VolumeProofs`, on `VolumeAccess` | `AccessTypeCorrect`, `OpenHasItsKey`, `TransfersKeptApart` | `AccessAssumption`: volumes differ, "none", "ready" and the dummy key are no volumes, and "none" is not "ready"; a transfer has a sector |
| `VolumeProofs`, on `SectorPipeline` | `PipelineTypeCorrect`, `SectorsRight`, `AesKept` | `PipelineAssumption`: a transfer has a sector |
| `PasswordSafeProofs` | `TypeCorrect`, `StoredRead`, `OldForgotten` | `SafeAssumption`: two pages; zeros and mess are no words |

**HotpCounter.** That no code comes three times is not inductive: a code that comes a second
time does so because the page was full, and the page is then far from full.
`SlotSound` says that a counter which equals its last code stands on a page with fewer than
`LookAhead` tokens used, and `CodeSound` says where the increments still to come will leave the
counter: one past the code, or at the code with a page that is far from full.
So no second full page can follow at once: this is where `LookAhead <= Tokens` is needed.
`GapSound` is the same for the distance to the last code. All flash commands are one kind of step
(`PageStep`): they leave "counter plus what is to come" alone or, at a full page, one less.

**SmartcardLock.** That the tasks share the card only after an overrun needs `RestOfLease` (a
counter is what is left of its lease), and that a task never comes to an exchange without a lease it
took right before (`HoldsAtCard`, over the sequence of its remaining steps). A switch takes no lease,
and changes none.

**HidMailbox.** `Counted` follows each transmission of a request: it has been executed, waits in
the buffer, is being parsed, is in the mailbox, or was overwritten, so there are no more
executions than transmissions. `Sent` says that nothing is about a request that was not sent,
`Apart` that a late report leaves the next request alone, and `Calm` lists what the answer buffer
may hold while a request is out that was not repeated: nothing about it, a cleared answer, the
result, or one of the states between a status and its seal. `Answered` is what makes an accepted
answer the proof of an execution.

**OtpSlotPages.** That one copy is whole needs, stage by stage, how far it has come: while the
backup is written the slot pages are old (`BackupStage`), while they are rewritten the backup is
complete and the pages before the one at hand are new (`SlotsStage`), and the token is not in
flash in between (`TokenStage`). `Owing` separates an update, which promises a copy, from a
reset, which promises none, and from the increment of a full counter page, which keeps the promise
while the slot pages are whole and ends it otherwise. For the table, `Aimed` says what the image in RAM is to change, and
`Reached` how far it got; `Shown` is the refinement mapping: the table changes when a command ends,
and a cut shows the pages as they then are. `ErasedIsForgotten` follows at that same end, where
the backup holds the image the slots hold.

**OtpSession.** `SessionsAgree` ties the flag and the bytes of a temporary password to the
session that the PIN opened; `KeysAgree` ties the slot of each key, in flash and in a configuration
on its way there, to what the admin session gave it, which is what authorizes a typed code, since no
session does; `Holder` carries the authorization through the flash updates of a
command; `CountersFirst` says that no record is newer than its counter at any step, which
follows from the order of the updates (`OpShape`); `HostAgrees` ties the record in RAM to what
the host sent, unless it left a transfer.

**StorageKeys.** That a confirmed key is kept rests on `HashGuards`: either the hash in flash is that
of the confirmed key, or there is nothing that could be deciphered, because the page is erased
(`NoCipher`) or shredded, and the hash of a shredded page fits nothing the card can make.
`PartsAgree` says that pattern and master key go with the storage key; it is kept because the
storage key is written last and erased first. `Progress` collects, step by step, what
`BuildStorageKeys_u32` has made new, up to the answer OK. `PinIsKept` says where the owner's
update PIN is while the page it stands on is erased: in the two buffers of
`EraseLocalFlashKeyValues_u32`.

**HiddenSlots.** That a setup leaves the other volumes needs the key in RAM to be that of the flash
whenever the slots count as loaded (`ActiveFitsFlash`): base, salt and key go with the flash, through
failures and cuts, so that the slots of a page loaded long ago may be enciphered again. `Initialising`
says at which step of a making the page has its mark, and that nothing counts as loaded while it
is made. `Genuine` says of every slot, in flash and in RAM, under whatever layers, that it is the one
last set up with this password. This is why a password opens only what was set up with it even when
the card fails and the slot is taken through another key: layers may come off or not, but what then
fits is the slot itself. `OpenVolume` takes the first slot that fits; that there is a first one comes
from well-foundedness (`LeastOf`), not from induction over the slots.

**VolumeAccess.** A command is a sequence of calls, so what has been done is told by what is left:
`OfProgram` says that the calls to come are the end of the command's program, and `Where` reads
off the commands in which a call can be next. With `During(c, n)`, "n calls of c are left",
`LunsOff` says when which LUN is off, `Opening` what a command that opens a volume has set so far,
and `KeyFits` that at all other times a LUN that is on has its key, whole; the two moments between
(`Turning`) are those after the range or the flag has changed while the former volume is still on.
`HostFits` says that once the command has waited, the host has seen that the LUN is off, so that
what it mounts later is the new volume: the wait is the only step that makes it so. `NoLateWrite`
allows a write that passed the test of write protection only until the wait of the command that
makes the volume read-only. `CalmIsIdle` says that a transfer which counts as undisturbed has no
command beside it.

**T1Link.** `Underway` has one state of the exchange for each place of the loop. Sending, the card
has not executed the command and expects the block at hand, or the numbers are off because blocks
were disturbed (`InStep`); or it has executed it once and is asked for more (`Asking`). Receiving,
the block is the next one of the answer (`AnswerUnderWay`), a refusal (`Refused`) or a receipt
(`Receipt`). `Rest` is what a command finds: together, unless the last one was disturbed; it is
what `FailsOnceOnly` needs of the command before. `Answers(n)` names the two sequences that n
blocks of an answer can have become, because the first may come twice, and `Run` ties the parity
of the blocks collected to the number of the card.

**SectorPipeline.** `Staged` says which stages may be under way at each point of the loop and in
which buffer, and `Flow` which sector is where (`Between`, `Under`, `After` a turn), counted from the
block number; both hold for any number of sectors, and need no induction over the transfer
because every turn re-establishes them. `Calm` is "no stage but the last was late".

**PasswordSafe.** `Numbers` says that every key in a slot, in flash or in RAM, is one made so far, so
that a new card key is newer than all; `Fresh` that no slot was enciphered with new keys when
nothing was stored under them, and that after a reset there is no key but one that an enabled safe has
kept; `EnabledKeyIsInFlash` that otherwise the key in RAM is the one in flash, or on its way back
there while the user page is rewritten (`FlashKey`); `Kept` that what was stored is in flash or in the
page buffer, under this key.

**How the steps are cut.** `tlapm` 1.4.5 tells its SMT solver that any function whose `Len` is n
has the domain 1 .. n, and that every value has a `Len`. In a step that knows both `Len` or `<<>>`
and a function over, say, `{0, 1}`, that is a contradiction, and anything would be proved. Steps
about sequences and steps about such functions are therefore kept apart (the calls of
`VolumeAccess` by `NoCallMade`, `Taken` and `OfProgram`), and every obligation with `Len` was
tried again with these two facts restricted to sequences: none depends on them.

**Only model-checked.** The liveness properties (`EveryCommandEnds`, `EveryRequestIsAnswered`,
`UncryptedComesBack`, `TasksGoOn`), since the prover has no rule for fairness and ENABLED. No
module that is proved about uses a RECURSIVE operator, and no theorem needs induction over data.

## 5 What the models found

`ReadyForNextValidation` is a violation run: TLC prints a behaviour of the code that contradicts
what a comment says. When the counter page is full, the increment moves the count into a new page
and forgets to increment (`hotp.c:747`); the code that was just used is used, or accepted, once
more. `PROJECT.json` quotes both lines.

Other places where the code and what it says of itself differ. The models have them as the code
has them, and the properties state what holds nevertheless.

* `erase_counter` hands an address to a function that takes a page number (`hotp.c:1031`, the
  comment at 1015). The counter of an erased slot stays; what is erased is the last backup page.
* `increment_counter_page` saves the base of a full counter page in the backup pages of the slots
  (`hotp.c:752`). The length it writes clears bits where the token belongs, so the token it writes
  reads `0x0008 & 0x4F4B` and is none. It also erases the first backup page when a cut of power has
  left the slot pages torn: what was the only whole copy of the slots is gone (`ClearBackup`).
* `check_backups`, which is to restore the slots from that copy, is called by nothing in this build
  (only by `Tools/OTP_Test.c:129`, which is not compiled); and it would read the trailer with its
  bytes swapped (`hotp.c:1169`, 1190). Torn slots stay torn.
* A lease is counted down while its owner still waits for the card (`usb_device_task.c:162`), and
  the other task begins its own exchange; `HID_ExcuteCmd` looks at the lock once (`html_io.c:186`).
* A restart of the card takes no lock (`ISO7816_ADPU.c:488`, from `LA_SC_StartSmartcard`): the card is
  powered off and reset under whatever the host's card reader is doing with it, or, as the CCID task
  starts, under the firmware's own command.
* The codes of two HOTP slots need no session: a lock key that is clicked twice types them
  (`report_protocol.c:2757`), also while the configuration asks for the user password.
* The early returns of `HID_ExcuteCmd` leave the command and its payload in the mailbox
  (`html_io.c:182`, 881); it runs again every 100 ms.
* A report that arrives while the one before it is parsed gives an answer with the CRC of the one
  and the output of the other (`report_protocol.c:2744`; `report_protocol.h:168` says what the field is).
* A factory reset shreds only one of the two pages of the password safe (`FlashStorage.c:1125`,
  `global.h:107`). What the other holds is illegible without the old key; but a safe that was enabled
  when the reset came keeps this key in RAM, and the page is read until the safe is locked or the
  stick unplugged (`stale`).
* Every field of the user page is written by erasing the page (`flashc_memcpy` with its last argument
  TRUE, `FlashStorage.c:153`, 213, 542, 918, 1005 and others). A cut of power in any of these writes, that of
  a setting among them, loses the key of the safe and so all its slots.
* A write whose second stage is late begins its turn again without giving `AES_semphr`, and waits
  for it for ever (`sd_mmc_mci.c:1878`, `tools.c:833`).
* `HV_WriteSlot_u8` looks at the first loading of the slots (`HiddenVolume.c:336`) and not at the
  second (`:355`): when the card has forgotten the PIN (the slots from earlier count as loaded, so the
  first one is not even tried) or fails there, all slots are written under a wrong key, all hidden
  volumes are lost, the new one too, and the answer is OK. `HV_ReadSlot_u8` ignores a failed loading too.
Met on the way: erasing TOTP slot 14 erases HOTP slot 0; a factory reset leaves temporary
passwords valid; the secret of a transfer that the host left may be written by a later one;
`LockDevice` gives its lease back before it powers the card off, and leaves the deciphered hidden
slots, as a factory reset does; a poll between the preparation of status data and the OK answer takes the data away; a cut
of power while the first slot page is rewritten leaves the erased configuration, which asks for
no PIN; after `CMD_AUTHORIZE` refusals read OK; `CMD_GET_CODE` of the reserved slot answers OK
without a code; filling the card leaves the encrypted volume on with the dummy key.

Of the T=1 link: after `ISO7816_T1_InitSendNr` the last number is 0 where it should be 1, so the
first command after that which is chained or disturbed does not get in step; after an odd number
of chained blocks the first block of the next chained answer is received twice; after a
disturbance a command of two blocks may be executed from its second one only; and a card that
marks blocks out of turn as errors is not brought in step again. The hazards list them.

## 6 What is not modelled

* **Left to single steps**: the OpenPGP commands, their APDUs and the CCID message formats. What
  matters of them to the rest is whether they succeed.
* **Partly**: of the stick configuration the fields that are only shown to the host are left out; of
  the T=1 link the serial port and its interrupt handler, which deliver a block or do not.
* **TOTP time**: a time stamp in flash and a counter of seconds, written by one command; sequential,
  and a code is named by its moment.
* **Pure output or sequential I/O**: the keyboard strokes of a typed code (that it is typed, and for
  which key and slot, is in `OtpSession`), the file interface, consoles and tests.
* **Pure functions**: HMAC, SHA-1, AES-XTS. A code is named by the counter it comes from, a
  ciphertext by its key.
* **Vendored**: FreeRTOS, the Atmel framework but for the mass storage path, the FAT file
  system, PolarSSL. They are most of the repository's lines, hence the small share of lines that
  the map covers. The scheduler appears as interleaving and fairness, the flash controller as
  "erase a page" and "write".
* **Data races on single words** are taken as the build makes them: 32-bit flags and counters are
  read and written whole; the volume key, which is copied word after word, is two parts.

## 7 The plan

Ordered by importance; the first nine are done.

| | Module | Subject | State |
|---|---|---|---|
| 1 | `HotpCounter` / `HotpService` | counters across cuts of power | proved, with the refinement |
| 2 | `SmartcardLock` | the two leases | safety proved |
| 3 | `HidMailbox` | reports, mailbox, answers | safety proved |
| 4 | `OtpSlotPages` / `OtpSlotTable` | two copies of the slots | proved, with the refinement |
| 5 | `OtpSession` | sessions and transfers | proved |
| 6 | `StorageKeys` | making keys with failures and cuts | proved |
| 7 | `HiddenSlots`, `VolumeAccess`, `SectorPipeline` | hidden slots, switching beside transfers, the pipeline | safety proved |
| 8 | `PasswordSafe` | two reports, new keys, cuts | proved |
| 9 | `T1Link` | numbers, chaining, errors | proved |
| 10 | `TotpTime` | `CheckSystemtime`, `cmd_set_time` | stored time against real time |
| 11 | composition | `OtpSession` over `OtpSlotPages`; `VolumeAccess` over `StorageKeys` and `SectorPipeline` | the assumed atomicity is the one that the lower module refines |
