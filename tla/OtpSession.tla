----------------------------- MODULE OtpSession -----------------------------
(***************************************************************************)
(* The OTP commands of parse_report (src/src/OTP/report_protocol.c): the   *)
(* sessions that a PIN opens and a temporary password uses, the transfer   *)
(* of a slot in several reports, writing and erasing slots, the general    *)
(* configuration, codes, lock and factory reset; and the codes that        *)
(* OTP_main types for a lock key that is clicked twice, with no session.   *)
(*                                                                         *)
(* One task executes the commands, one after the other; only a loss of     *)
(* power comes between the flash updates of one command.  How an update    *)
(* is made of flash commands is the matter of OtpSlotPages: here it is     *)
(* atomic, and a cut leaves some pages new, at most one erased, and the    *)
(* others old.  How a counter counts is the matter of HotpCounter.         *)
(***************************************************************************)
EXTENDS Integers, Sequences

CONSTANTS
  Hotp, Totp,  \* the slot numbers
  First,       \* HOTP slot 0
  Reserved,    \* the last HOTP slot, "reserved" for CMD_VERIFY_OTP_CODE
  Last,        \* the last TOTP slot: get_slot_offset puts it where First is
  Invalid,     \* a number that is neither
  PageNo,      \* PageNo[s]: the flash page of slot s; the configuration is on page 1
  NPages,
  Keys,        \* num lock, caps lock, scroll lock
  Typed,       \* the HOTP slots that send_hotp_slot types, 0 and 1
  Passwords,   \* temporary passwords the host may choose
  Zero,        \* ... of which one is the bytes a cleared buffer holds
  Names, Secrets,
  FF,          \* a field that is erased
  Empty,       \* a field of 0 bytes: no name, or "keep the secret"
  None

Slots == (Hotp \union Totp) \ {Last}

ASSUME SessionAssumption ==
  /\ Hotp \intersect Totp = {} /\ {First, Reserved} \subseteq Hotp /\ Last \in Totp
  /\ Invalid \notin Hotp \union Totp
  /\ Typed \subseteq Hotp \ {Reserved} /\ None \notin Typed
  /\ Keys \intersect (Passwords \union {None}) = {}
  /\ NPages \in Nat \ {0} /\ PageNo \in [Slots -> 1 .. NPages]
  /\ Zero \in Passwords /\ None \notin Passwords
  /\ {FF, Empty} \intersect (Names \union Secrets) = {} /\ FF # Empty

VARIABLES
  slots,    \* OTP_slot records in flash
  config,   \* the configuration in flash: enable_user_password (1, another byte, or 0xFF) and
            \* the slot of each key (None: 2 or 0xFF)
  temp,     \* temp_admin_password and temp_user_password, with their _set flags
  local,    \* local_slot_content: name and secret received so far
  started,  \* write_to_slot_transaction_started
  silence,  \* silence_auth_errors
  op,       \* the command whose flash updates are under way
  status,   \* the status in the last answer
  code,     \* the code in the last answer, or typed after it: of which slot, for which password or key
  session,  \* history: temporary password of the session the right PIN opened, or None
  asked,    \* history: what the host has sent since it began its transfer
  assigned, \* history: slots that the admin session gave to keys, as far as they may be in flash
  left,     \* history: local holds parts of a transfer that the host has left
  behind    \* history: HOTP slots whose record is newer than their counter

flash == <<slots, config>>
ram == <<temp, local, started, silence>>
host == <<session, asked, assigned, left>>
vars == <<slots, config, temp, local, started, silence, op, status, code, session, asked,
          assigned, left, behind>>

Roles == {"admin", "user"}
Records == [type : {"H", "T", "erased"}, name : Names \union {FF}, secret : Secrets \union {FF}]
Blank == [type |-> "erased", name |-> FF, secret |-> FF]
Received == [name : Names \union {Empty}, secret : Secrets \union {Empty, FF}]
Nothing == [name |-> Empty, secret |-> Empty]
Cleared == [set |-> FALSE, pw |-> Zero]
NoCode == [slot |-> None, by |-> None]

\* A configuration that cmd_write_config takes, and flash that is erased
Settings == [protection : {"enabled", "other"}, slot : [Keys -> Typed \union {None}]]
ErasedConfig == [protection |-> "erased", slot |-> [k \in Keys |-> None]]
Configs == Settings \union {ErasedConfig}
\* The slots a configuration gives to keys
Gives(c) == {given \in Keys \X Typed : c.slot[given[1]] = given[2]}
NoSetting == [protection |-> "other", slot |-> [k \in Keys |-> None]]

NoOp == [cmd |-> "none", slot |-> None, setting |-> NoSetting, received |-> Nothing,
         todo |-> <<>>, counted |-> FALSE, by |-> None, asked |-> Nothing, sure |-> TRUE]
Idle == op = NoOp

Init ==
  /\ slots = [s \in Slots |-> Blank] /\ config = ErasedConfig
  /\ temp = [r \in Roles |-> Cleared] /\ local = Nothing /\ started = FALSE /\ silence = FALSE
  /\ op = NoOp /\ status = "none" /\ code = NoCode
  /\ session = [r \in Roles |-> None] /\ asked = Nothing /\ left = FALSE /\ assigned = {}
  /\ behind = {}

-----------------------------------------------------------------------------
(* Slot numbers and passwords *)

\* get_slot_offset: an offset beyond the slot pages becomes that of the first slot.
Place(s) == IF s = Last THEN First ELSE s

\* cmd_write_to_slot answers OK and does nothing for the last TOTP slot.
HasPlace(s) == s # Last

TypeOf(s) == IF s \in Hotp THEN "H" ELSE "T"
Programmed(s) == slots[Place(s)].type = TypeOf(s)

\* is_valid_admin_temp_password, is_valid_temp_user_password
Valid(r, p) == temp[r].set /\ temp[r].pw = p

\* is_user_PIN_protection_enabled: the byte is 1.  Erased flash is no protection.
Protected == config.protection = "enabled"

Reply(st) == status' = st /\ code' = NoCode

\* What parse_report answers to a command that is not authorized.
Refused == Reply(IF silence THEN "OK" ELSE "NOT_AUTHORIZED")

\* Every command that changes nothing but the answer.
Answer(st) == Reply(st) /\ UNCHANGED <<flash, ram, op, host, behind>>

-----------------------------------------------------------------------------
(* Sessions *)

\* The host starts its transfers over after it authenticates or locks.
LeaveTransfer == left' = started /\ asked' = Nothing

\* The session ends before the PIN is tried, and begins again if the card says it is right:
\* cmd_first_authenticate, cmd_user_authenticate
Authenticate(r, right, p) ==
  /\ Idle
  /\ temp'    = [temp EXCEPT ![r] = IF right THEN [set |-> TRUE, pw |-> p] ELSE Cleared]
  /\ session' = [session EXCEPT ![r] = IF right THEN p ELSE None]
  /\ Reply(IF right THEN "OK" ELSE "WRONG_PASSWORD")
  /\ LeaveTransfer
  /\ UNCHANGED <<flash, local, started, silence, op, assigned, behind>>

\* CMD_AUTHORIZE and CMD_USER_AUTHORIZE, of older hosts, hide refusals from then on.
Authorize ==
  /\ Idle
  /\ silence' = TRUE
  /\ Reply("OK")
  /\ UNCHANGED <<flash, temp, local, started, op, host, behind>>

\* cmd_lock_device
LockDevice ==
  /\ Idle
  /\ temp' = [r \in Roles |-> Cleared]
  /\ session' = [r \in Roles |-> None]
  /\ Reply("OK")
  /\ LeaveTransfer
  /\ UNCHANGED <<flash, local, started, silence, op, assigned, behind>>

-----------------------------------------------------------------------------
(* Transfer and writing of a slot *)

\* Mutant: the record of the last transfer is not cleared.
TransferOver == local

\* The first report of a transfer clears the record.
Transfer == IF started THEN local ELSE Nothing

\* CMD_SEND_OTP_DATA with a name or a secret; a secret that fills two reports is one here.
SendOtpData(p, field, value) ==
  /\ Idle
  /\ \/ /\ Valid("admin", p)
        /\ local' = [Transfer EXCEPT ![field] = value]
        /\ started' = TRUE
        /\ asked' = [asked EXCEPT ![field] = value]
        /\ Reply("OK")
        /\ UNCHANGED <<flash, temp, silence, op, session, assigned, left, behind>>
     \/ /\ ~Valid("admin", p)
        /\ Refused
        /\ UNCHANGED <<flash, ram, op, host, behind>>

\* ... with another type
SendUnknownType(p) == Idle /\ Valid("admin", p) /\ Answer("UNKNOWN_ERROR")

\* Mutant: the counter is set after the slot.
CounterLast(s) == IF s \in Hotp THEN <<"slot", "counter">> ELSE <<"slot">>

\* The flash updates of cmd_write_to_slot, in their order.
WriteStages(s) == IF s \in Hotp THEN <<"counter", "slot">> ELSE <<"slot">>

Begin(cmd, s, setting, todo, p) ==
  /\ op' = [cmd |-> cmd, slot |-> s, setting |-> setting, received |-> local, todo |-> todo,
            counted |-> FALSE, by |-> p, asked |-> asked, sure |-> ~left]
  /\ Reply("none")

\* CMD_WRITE_TO_SLOT, which ends the transfer in any case.
WriteToSlot(p, s) ==
  /\ Idle /\ Valid("admin", p) /\ started
  /\ started' = FALSE /\ asked' = Nothing /\ left' = FALSE
  /\ \/ local.name = Empty /\ Reply("NO_NAME") /\ UNCHANGED op
     \/ local.name # Empty /\ s = Invalid /\ Reply("WRONG_SLOT") /\ UNCHANGED op
     \/ local.name # Empty /\ s # Invalid /\ ~HasPlace(s) /\ Reply("OK") /\ UNCHANGED op
     \/ /\ local.name # Empty /\ s # Invalid /\ HasPlace(s)
        /\ Begin("write", s, NoSetting, WriteStages(s), p)
  /\ UNCHANGED <<flash, temp, local, silence, session, assigned, behind>>

WriteRefused(p) ==
  /\ Idle /\ ~(Valid("admin", p) /\ started)
  /\ Refused
  /\ UNCHANGED <<flash, ram, op, host, behind>>

-----------------------------------------------------------------------------
(* Erasing, configuration, codes *)

\* CMD_ERASE_SLOT.  For the counter of a HOTP slot see OtpSlotPages.
EraseSlot(p, s) ==
  /\ Idle /\ Valid("admin", p) /\ s # Invalid
  /\ Begin("erase", s, NoSetting, <<"slot">>, p)
  /\ UNCHANGED <<flash, ram, host, behind>>

\* CMD_WRITE_CONFIG
WriteConfig(p, setting) ==
  /\ Idle /\ Valid("admin", p)
  /\ Begin("config", None, setting, <<"config">>, p)
  /\ assigned' = assigned \union Gives(setting)
  /\ UNCHANGED <<flash, ram, session, asked, left, behind>>

\* Either of them, when the password is wrong or an argument is.
ChangeRefused(p) ==
  /\ Idle
  /\ \/ ~Valid("admin", p) /\ Refused
     \/ Valid("admin", p) /\ \E st \in {"WRONG_SLOT", "UNKNOWN_ERROR"} : Reply(st)
  /\ UNCHANGED <<flash, ram, op, host, behind>>

\* Mutant: one report may use either session.
MayGetAnyCode(p) == ~Protected \/ \E r \in Roles : Valid(r, p)

MayGetCode(p) == ~Protected \/ Valid("user", p)

\* CMD_GET_CODE: the reserved slot answers OK without a code.
GetCode(p, s) ==
  /\ Idle
  /\ \/ ~MayGetCode(p) /\ Refused
     \/ /\ MayGetCode(p)
        /\ \/ s = Invalid /\ Reply("WRONG_SLOT")
           \/ s = Reserved /\ Reply("OK")
           \/ s \notin {Invalid, Reserved} /\ ~Programmed(s) /\ Reply("NOT_PROGRAMMED")
           \/ /\ s \notin {Invalid, Reserved} /\ Programmed(s)
              /\ status' = "OK" /\ code' = [slot |-> s, by |-> p]
  /\ UNCHANGED <<flash, ram, op, host, behind>>

\* OTP_main types the code for a key that was clicked twice, at any time before, whatever the
\* sessions and the protection are; send_hotp_slot types none for a byte that names no slot.
TypeCode(k) ==
  /\ Idle
  /\ LET s == config.slot[k]
     IN s \in Typed /\ Programmed(s) /\ code' = [slot |-> s, by |-> k]
  /\ UNCHANGED <<flash, ram, op, status, host, behind>>

\* CMD_READ_SLOT_NAME and CMD_READ_SLOT need no password.
ReadSlot(s) ==
  /\ Idle
  /\ Answer(IF s = Invalid THEN "WRONG_SLOT" ELSE IF Programmed(s) THEN "OK" ELSE "NOT_PROGRAMMED")

\* cmd_getFactoryReset: the admin PIN is asked for again; the sessions stay as they are.
FactoryReset(right) ==
  /\ Idle
  /\ \/ /\ right /\ Reply("OK")
        /\ slots' = [s \in Slots |-> Blank] /\ config' = ErasedConfig
        /\ behind' = {} /\ assigned' = {}
     \/ ~right /\ Reply("WRONG_PASSWORD") /\ UNCHANGED <<flash, behind, assigned>>
  /\ UNCHANGED <<ram, op, session, asked, left>>

-----------------------------------------------------------------------------
(* The flash updates of a command, and loss of power *)

\* Mutant: an empty secret is written like any other.
NotMerged(r, s, old) == [type |-> TypeOf(s), name |-> r.name, secret |-> r.secret]

\* The record an update leaves at its place: an empty secret keeps the one that is there.
Merged(r, s, old) ==
  [type |-> TypeOf(s), name |-> r.name, secret |-> IF r.secret = Empty THEN old.secret ELSE r.secret]

NewSlots ==
  IF op.cmd = "write" THEN [slots EXCEPT ![Place(op.slot)] = Merged(op.received, op.slot, @)]
  ELSE IF op.cmd = "erase" THEN [slots EXCEPT ![Place(op.slot)] = Blank]
  ELSE slots

NewConfig == IF op.cmd = "config" THEN op.setting ELSE config

\* HOTP slots whose record is newer than their counter, when the records become new.
Behind(new) ==
  {s \in Hotp : /\ new[s].type = "H"
                /\ IF new[s] # slots[s] THEN ~op.counted ELSE s \in behind}

\* The command goes on with its next update, or is over.
NextUpdate(counted) ==
  IF Len(op.todo) = 1 THEN op' = NoOp /\ Reply("OK")
  ELSE /\ op' = [op EXCEPT !.todo = Tail(op.todo), !.counted = counted]
       /\ UNCHANGED <<status, code>>

\* set_counter_value
SetCounter ==
  /\ ~Idle /\ Head(op.todo) = "counter"
  /\ NextUpdate(TRUE)
  /\ behind' = behind \ {op.slot}
  /\ UNCHANGED <<flash, ram, host>>

\* write_to_slot, which copies a secret it keeps to local_slot_content, or write_to_config
Update ==
  /\ ~Idle /\ Head(op.todo) # "counter"
  /\ slots' = NewSlots /\ config' = NewConfig
  /\ local' = IF op.cmd = "write" THEN [local EXCEPT !.secret = NewSlots[Place(op.slot)].secret]
              ELSE local
  /\ behind' = Behind(NewSlots)
  /\ assigned' = IF op.cmd = "config" THEN Gives(op.setting) ELSE assigned
  /\ NextUpdate(op.counted)
  /\ UNCHANGED <<temp, started, silence, session, asked, left>>

\* The pages before p are written; p is erased or still old.
CutAt(p, erased) ==
  /\ slots' = [s \in Slots |-> IF PageNo[s] = p /\ erased THEN Blank
                               ELSE IF PageNo[s] < p THEN NewSlots[s] ELSE slots[s]]
  /\ config' = IF p = 1 /\ erased THEN ErasedConfig ELSE IF 1 < p THEN NewConfig ELSE config
  /\ behind' = Behind(slots')

PowerLoss ==
  /\ temp' = [r \in Roles |-> Cleared] /\ session' = [r \in Roles |-> None]
  /\ local' = Nothing /\ asked' = Nothing
  /\ started' = FALSE /\ left' = FALSE /\ silence' = FALSE
  /\ op' = NoOp /\ Reply("none") /\ UNCHANGED assigned
  /\ IF ~Idle /\ Head(op.todo) # "counter"
     THEN \E p \in 1 .. NPages + 1, erased \in BOOLEAN : CutAt(p, erased)
     ELSE UNCHANGED <<flash, behind>>

Numbers == Hotp \union Totp \union {Invalid}

Next ==
  \/ \E r \in Roles, right \in BOOLEAN, p \in Passwords : Authenticate(r, right, p)
  \/ Authorize \/ LockDevice
  \/ \E p \in Passwords :
       \/ \E n \in Names : SendOtpData(p, "name", n)
       \/ \E x \in Secrets \union {Empty} : SendOtpData(p, "secret", x)
       \/ SendUnknownType(p) \/ WriteRefused(p) \/ ChangeRefused(p)
       \/ \E s \in Numbers : WriteToSlot(p, s) \/ EraseSlot(p, s) \/ GetCode(p, s)
       \/ \E setting \in Settings : WriteConfig(p, setting)
  \/ \E k \in Keys : TypeCode(k)
  \/ \E s \in Numbers : ReadSlot(s)
  \/ \E right \in BOOLEAN : FactoryReset(right)
  \/ SetCounter \/ Update \/ PowerLoss

Spec == Init /\ [][Next]_vars

-----------------------------------------------------------------------------
(* Properties *)

Statuses == {"none", "OK", "WRONG_PASSWORD", "NOT_AUTHORIZED", "UNKNOWN_ERROR", "NO_NAME",
             "WRONG_SLOT", "NOT_PROGRAMMED"}
Stages == {<<>>, <<"slot">>, <<"config">>, <<"counter">>, <<"counter", "slot">>}

TypeOK ==
  /\ slots \in [Slots -> Records] /\ config \in Configs
  /\ temp \in [Roles -> [set : BOOLEAN, pw : Passwords]]
  /\ local \in Received /\ started \in BOOLEAN /\ silence \in BOOLEAN
  /\ op \in [cmd : {"none", "write", "erase", "config"}, slot : Hotp \union Totp \union {None},
             setting : Settings, received : Received, todo : Stages,
             counted : BOOLEAN, by : Passwords \union {None}, asked : Received, sure : BOOLEAN]
  /\ status \in Statuses
  /\ code \in [slot : Hotp \union Totp \union {None}, by : Passwords \union Keys \union {None}]
  /\ session \in [Roles -> Passwords \union {None}]
  /\ asked \in Received /\ left \in BOOLEAN /\ behind \subseteq Hotp
  /\ assigned \subseteq Keys \X Typed

\* The slots, the configuration and a slot in transfer change only by a command that names the
\* temporary password of a session the right admin PIN opened, and that no wrong PIN, lock or
\* loss of power has ended (is_valid_admin_temp_password); not even a password of the bytes
\* that a cleared buffer holds will do.  A factory reset asks for the PIN itself, and erases all.
ChangesAreAuthorized ==
  [][/\ Idle /\ op' # NoOp => op'.by = session["admin"]
     /\ local' \notin {local, Nothing} => session["admin"] # None
     /\ <<slots, config>>' # <<slots, config>> =>
          ~Idle \/ (slots' = [s \in Slots |-> Blank] /\ config' = ErasedConfig)]_vars

\* While the configuration asks for it, a code is answered only to the temporary password of a
\* session that the right user PIN opened (CMD_GET_CODE), whatever the admin session is.  The code
\* that is typed for a lock key needs no session at all, whatever the configuration asks for
\* (OTP_main): it is of a slot that the holder of the admin session gave to this key, since the
\* last factory reset and not taken back since, and of none when the configuration is erased.
CodesAreAuthorized ==
  [][code' # code /\ code' # NoCode
       => IF code'.by \in Keys THEN <<code'.by, code'.slot>> \in assigned
          ELSE config.protection # "enabled" \/ code'.by = session["user"]]_vars

\* Slots and configuration are changed only in the admin session, and codes are given only in the
\* user session or for a key that the admin session gave a slot to (is_valid_admin_temp_password,
\* is_valid_temp_user_password, send_hotp_slot).
Authorized == ChangesAreAuthorized /\ CodesAreAuthorized

\* Writing a slot changes no other, although the last TOTP slot has the place of the first
\* HOTP slot (get_slot_offset).
WritesOnlyItsSlot ==
  [][op.cmd = "write" /\ op' = NoOp /\ status' = "OK"
       => \A s \in Slots \ {op.slot} : slots'[s] = slots[s]]_vars

\* A slot that was written holds the name the host sent last and the secret it sent in the same
\* transfer, or the secret it had if the host sent none ("use the old secret", hotp.c:1071),
\* whatever earlier transfers left in local_slot_content.  A transfer that the host left for
\* a new session is excepted: nothing clears what it had sent.
WritesAreAsSent ==
  [][op.cmd = "write" /\ op.sure /\ op.slot \in Slots /\ op' = NoOp /\ status' = "OK"
       => /\ slots'[op.slot].type # "erased" /\ slots'[op.slot].name = op.asked.name
          /\ slots'[op.slot].secret = IF op.asked.secret = Empty THEN slots[op.slot].secret
                                      ELSE op.asked.secret]_vars

\* What cmd_write_to_slot promises of the slot it names, and of all others.
WritesAreRight == WritesOnlyItsSlot /\ WritesAreAsSent

\* When power is cut between the counter and the record of a HOTP slot, no record is left
\* beside a counter that is older: a new secret never goes on from the count of another one.
CounterIsNotOlder == Idle => behind = {}
=============================================================================
