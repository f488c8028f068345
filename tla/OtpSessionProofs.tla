-------------------------- MODULE OtpSessionProofs --------------------------
(***************************************************************************)
(* What OtpSession promises for any slots, pages, passwords and records.   *)
(*                                                                         *)
(* The inductive invariant IInv adds to type correctness what a command    *)
(* under way looks like, that it was begun by the holder of the admin      *)
(* session, that RAM knows no session but the ones the PINs opened, that   *)
(* no record is newer than its counter, even between two updates, that the *)
(* record in RAM is what the host sent, unless it left a transfer, and     *)
(* that a key has no slot in flash but one that it was assigned.           *)
(* Each action is shown to keep IInv and, from it, the action properties.  *)
(***************************************************************************)
EXTENDS OtpSession, TLAPS

\* A write of a HOTP slot sets the counter before the record.
OpShape ==
  \/ op = NoOp
  \/ /\ op.cmd = "write" /\ op.slot \in Slots /\ op.received.name \in Names
     /\ \/ op.slot \in Hotp /\ op.todo = <<"counter", "slot">>
        \/ op.slot \in Hotp /\ op.todo = <<"slot">> /\ op.counted
        \/ op.slot \in Totp /\ op.todo = <<"slot">>
  \/ op.cmd = "erase" /\ op.slot \in Hotp \union Totp /\ op.todo = <<"slot">>
  \/ op.cmd = "config" /\ op.todo = <<"config">>

\* A command under way is the admin session's, and nothing was answered to it yet.
Holder == ~Idle => op.by = session["admin"] /\ op.by \in Passwords /\ code = NoCode

\* A temporary password that is set is one the right PIN set.
SessionsAgree == \A r \in Roles : temp[r].set => session[r] = temp[r].pw

CountersFirst == behind = {}

\* Unless the host left a transfer, the record in RAM is what it sent.
HostAgrees ==
  /\ ~started => asked = Nothing /\ ~left
  /\ started /\ ~left => local = asked
  /\ op.cmd = "write" => ~started /\ (op.sure => op.received = op.asked)

\* A key has no slot in flash, or in a configuration being written, but one that it was assigned.
KeysAgree ==
  /\ Gives(config) \subseteq assigned
  /\ op.cmd = "config" => Gives(op.setting) \subseteq assigned

IInv == TypeOK /\ OpShape /\ Holder /\ SessionsAgree /\ CountersFirst /\ HostAgrees /\ KeysAgree

\* What the action properties say of a step.
ChangeIsAuthorized ==
  /\ Idle /\ op' # NoOp => op'.by = session["admin"]
  /\ local' \notin {local, Nothing} => session["admin"] # None
  /\ <<slots, config>>' # <<slots, config>> =>
       ~Idle \/ (slots' = [s \in Slots |-> Blank] /\ config' = ErasedConfig)
CodeIsAuthorized ==
  code' # code /\ code' # NoCode
    => IF code'.by \in Keys THEN <<code'.by, code'.slot>> \in assigned
       ELSE config.protection # "enabled" \/ code'.by = session["user"]
WriteHitsItsSlot ==
  op.cmd = "write" /\ op' = NoOp /\ status' = "OK"
    => \A s \in Slots \ {op.slot} : slots'[s] = slots[s]
WriteIsAsSent ==
  op.cmd = "write" /\ op.sure /\ op.slot \in Slots /\ op' = NoOp /\ status' = "OK"
    => /\ slots'[op.slot].type # "erased" /\ slots'[op.slot].name = op.asked.name
       /\ slots'[op.slot].secret = IF op.asked.secret = Empty THEN slots[op.slot].secret
                                   ELSE op.asked.secret

Good == IInv' /\ ChangeIsAuthorized /\ CodeIsAuthorized /\ WriteHitsItsSlot /\ WriteIsAsSent

-----------------------------------------------------------------------------
(* Facts on the state *)

LEMMA PlaceIsSlot ==
  \A s \in Hotp \union Totp : Place(s) \in Slots /\ (s \in Slots => Place(s) = s)
  BY SessionAssumption DEF Place, Slots

LEMMA HotpAreSlots == Hotp \subseteq Slots /\ Last \notin Slots /\ Last \notin Hotp
  BY SessionAssumption DEF Slots

LEMMA ConfigTypes ==
  /\ NoSetting \in Settings /\ ErasedConfig \in Configs /\ Settings \subseteq Configs
  /\ Gives(ErasedConfig) = {} /\ \A c : Gives(c) \subseteq Keys \X Typed
<1>1. ErasedConfig.slot = [k \in Keys |-> None] /\ None \notin Typed
  BY SessionAssumption DEF ErasedConfig
<1>2. Gives(ErasedConfig) = {}
  BY <1>1 DEF Gives
<1>3. QED
  BY <1>2 DEF NoSetting, Settings, Configs, Gives

LEMMA NoOpType ==
  /\ NoOp \in [cmd : {"none", "write", "erase", "config"}, slot : Hotp \union Totp \union {None},
               setting : Settings, received : Received, todo : Stages,
               counted : BOOLEAN, by : Passwords \union {None}, asked : Received, sure : BOOLEAN]
  /\ NoOp.cmd = "none"
  BY ConfigTypes DEF NoOp, Received, Nothing, Stages

LEMMA NoCodeType == NoCode \in [slot : Hotp \union Totp \union {None}, by : Passwords \union Keys \union {None}]
  BY DEF NoCode

LEMMA ValidIsSession ==
  ASSUME IInv, NEW r \in Roles, NEW p \in Passwords, Valid(r, p)
  PROVE  session[r] = p /\ session[r] # None
  BY SessionAssumption DEF IInv, SessionsAgree, Valid

\* An answer without a code.
LEMMA RefusedType ==
  ASSUME Refused PROVE status' \in Statuses /\ code' = NoCode
  BY DEF Refused, Reply, Statuses

\* A step that changes nothing but the answer.
LEMMA AnswerOnly ==
  ASSUME IInv, Idle, UNCHANGED <<flash, ram, op, host, behind>>,
         status' \in Statuses, code' = NoCode
  PROVE  Good
<1>1. TypeOK'
  BY NoCodeType DEF IInv, TypeOK, flash, ram, host
<1>2. OpShape' /\ Holder' /\ SessionsAgree' /\ CountersFirst' /\ HostAgrees' /\ KeysAgree'
  BY DEF IInv, OpShape, Holder, Idle, SessionsAgree, CountersFirst, HostAgrees, KeysAgree, Valid, flash, ram, host
<1>3. op.cmd # "write"
  BY NoOpType DEF Idle
<1>4. QED
  BY <1>1, <1>2, <1>3
  DEF Good, IInv, ChangeIsAuthorized, CodeIsAuthorized, WriteHitsItsSlot, WriteIsAsSent, Idle, flash, ram, host

LEMMA AnswerStep ==
  ASSUME IInv, Idle, NEW st \in Statuses, Answer(st)
  PROVE  Good
  BY AnswerOnly DEF Answer, Reply

LEMMA RefusedStep ==
  ASSUME IInv, Idle, Refused, UNCHANGED <<flash, ram, op, host, behind>>
  PROVE  Good
  BY AnswerOnly, RefusedType

-----------------------------------------------------------------------------
(* Sessions *)

LEMMA NothingType == Nothing \in Received
  BY DEF Nothing, Received

LEMMA AuthenticateStep ==
  ASSUME IInv, NEW r \in Roles, NEW right \in BOOLEAN, NEW p \in Passwords, Authenticate(r, right, p)
  PROVE  Good
<1> USE DEF Authenticate, Reply, LeaveTransfer, flash
<1>1. TypeOK'
  <2>1. temp' \in [Roles -> [set : BOOLEAN, pw : Passwords]]
    BY SessionAssumption DEF IInv, TypeOK, Cleared
  <2>2. session' \in [Roles -> Passwords \union {None}]
    BY DEF IInv, TypeOK
  <2>3. QED
    BY <2>1, <2>2, NoCodeType, NothingType DEF IInv, TypeOK, Statuses
<1>2. OpShape' /\ Holder' /\ CountersFirst' /\ HostAgrees' /\ KeysAgree'
  BY DEF IInv, OpShape, Holder, Idle, CountersFirst, HostAgrees, KeysAgree
<1>3. SessionsAgree'
  BY DEF IInv, TypeOK, SessionsAgree, Cleared
<1>4. op.cmd # "write"
  BY NoOpType DEF Idle
<1>5. QED
  BY <1>1, <1>2, <1>3, <1>4
  DEF Good, IInv, ChangeIsAuthorized, CodeIsAuthorized, WriteHitsItsSlot, WriteIsAsSent, Idle

LEMMA AuthorizeStep ==
  ASSUME IInv, Authorize PROVE Good
<1> USE DEF Authorize, Reply, flash, host
<1>1. TypeOK'
  BY NoCodeType DEF IInv, TypeOK, Statuses
<1>2. OpShape' /\ Holder' /\ SessionsAgree' /\ CountersFirst' /\ HostAgrees' /\ KeysAgree'
  BY DEF IInv, OpShape, Holder, Idle, SessionsAgree, CountersFirst, HostAgrees, KeysAgree
<1>3. op.cmd # "write"
  BY NoOpType DEF Idle
<1>4. QED
  BY <1>1, <1>2, <1>3
  DEF Good, IInv, ChangeIsAuthorized, CodeIsAuthorized, WriteHitsItsSlot, WriteIsAsSent, Idle

LEMMA LockDeviceStep ==
  ASSUME IInv, LockDevice PROVE Good
<1> USE DEF LockDevice, Reply, LeaveTransfer, flash
<1>1. TypeOK'
  BY SessionAssumption, NoCodeType, NothingType DEF IInv, TypeOK, Statuses, Cleared
<1>2. OpShape' /\ Holder' /\ SessionsAgree' /\ CountersFirst' /\ HostAgrees' /\ KeysAgree'
  BY DEF IInv, OpShape, Holder, Idle, SessionsAgree, CountersFirst, HostAgrees, KeysAgree, Cleared
<1>3. op.cmd # "write"
  BY NoOpType DEF Idle
<1>4. QED
  BY <1>1, <1>2, <1>3
  DEF Good, IInv, ChangeIsAuthorized, CodeIsAuthorized, WriteHitsItsSlot, WriteIsAsSent, Idle

-----------------------------------------------------------------------------
(* Transfer, and the beginning of a change *)

LEMMA SendOtpDataStep ==
  ASSUME IInv, NEW p \in Passwords, NEW field \in {"name", "secret"}, NEW value,
         field = "name" => value \in Names, field = "secret" => value \in Secrets \union {Empty},
         SendOtpData(p, field, value)
  PROVE  Good
<1>1. CASE ~Valid("admin", p)
  BY <1>1, RefusedStep DEF SendOtpData
<1>2. CASE Valid("admin", p)
  <2> USE <1>2 DEF SendOtpData, Reply, flash
  <2>1. Transfer \in Received
    BY NothingType DEF Transfer, IInv, TypeOK
  <2>2. local' \in Received /\ asked' \in Received
    BY <2>1 DEF Received, IInv, TypeOK
  <2>3. TypeOK'
    BY <2>2, NoCodeType DEF IInv, TypeOK, Statuses
  <2>4. OpShape' /\ Holder' /\ SessionsAgree' /\ CountersFirst' /\ KeysAgree'
    BY DEF IInv, OpShape, Holder, Idle, SessionsAgree, CountersFirst, KeysAgree
  <2>5. op.cmd # "write" /\ session["admin"] # None
    BY NoOpType, ValidIsSession DEF Idle, Roles
  <2>6. HostAgrees'
    <3>1. ~left => Transfer = asked
      BY DEF Transfer, IInv, HostAgrees
    <3>2. QED
      BY <2>5, <3>1 DEF HostAgrees
  <2>7. QED
    BY <2>3, <2>4, <2>5, <2>6
    DEF Good, IInv, ChangeIsAuthorized, CodeIsAuthorized, WriteHitsItsSlot, WriteIsAsSent, Idle
<1>3. QED
  BY <1>1, <1>2

\* A change begins: with the password of the session, and with nothing done.
LEMMA BeginStep ==
  ASSUME IInv, Idle, NEW p \in Passwords, Valid("admin", p),
         NEW cmd \in {"write", "erase", "config"}, NEW s \in Hotp \union Totp \union {None},
         NEW setting \in Settings, NEW todo \in Stages,
         Begin(cmd, s, setting, todo, p),
         UNCHANGED <<flash, temp, local, silence, session, behind>>,
         \/ /\ cmd = "write" /\ s \in Slots /\ local.name \in Names
            /\ todo = IF s \in Hotp THEN <<"counter", "slot">> ELSE <<"slot">>
            /\ started /\ started' = FALSE /\ asked' = Nothing /\ left' = FALSE
         \/ /\ \/ cmd = "erase" /\ s \in Hotp \union Totp /\ todo = <<"slot">>
               \/ cmd = "config" /\ todo = <<"config">>
            /\ UNCHANGED <<started, asked, left>>,
         assigned' = IF cmd = "config" THEN assigned \union Gives(setting) ELSE assigned
  PROVE  Good
<1> USE DEF Begin, Reply, flash
<1>1. TypeOK'
  <2>1. /\ slots' \in [Slots -> Records] /\ config' \in Configs
        /\ temp' \in [Roles -> [set : BOOLEAN, pw : Passwords]]
        /\ silence' \in BOOLEAN /\ session' \in [Roles -> Passwords \union {None}]
        /\ behind' \subseteq Hotp /\ assigned' \subseteq Keys \X Typed
    BY ConfigTypes DEF IInv, TypeOK
  <2>2. local \in Received /\ asked \in Received
    BY DEF IInv, TypeOK
  <2>3. local' \in Received /\ started' \in BOOLEAN /\ asked' \in Received /\ left' \in BOOLEAN
    BY NothingType DEF IInv, TypeOK
  <2>4. op' \in [cmd : {"none", "write", "erase", "config"}, slot : Hotp \union Totp \union {None},
                setting : Settings, received : Received, todo : Stages,
                counted : BOOLEAN, by : Passwords \union {None}, asked : Received, sure : BOOLEAN]
    <3>1. s \in Hotp \union Totp \union {None} /\ p \in Passwords \union {None}
      BY DEF Slots
    <3>2. (~left) \in BOOLEAN
      OBVIOUS
    <3>3. QED
      BY <2>2, <3>1, <3>2
  <2>5. status' \in Statuses /\ code' \in [slot : Hotp \union Totp \union {None}, by : Passwords \union Keys \union {None}]
    BY NoCodeType DEF Statuses
  <2>6. QED
    BY <2>1, <2>3, <2>4, <2>5 DEF TypeOK
<1>2. OpShape'
  BY SessionAssumption DEF OpShape, Slots
<1>3. Holder' /\ SessionsAgree' /\ CountersFirst'
  BY ValidIsSession DEF IInv, Holder, SessionsAgree, CountersFirst, Roles
<1>4. HostAgrees'
  <2>1. op'.cmd = cmd /\ op'.received = local /\ op'.asked = asked /\ op'.sure = ~left
    OBVIOUS
  <2>2. CASE cmd = "write"
    <3>1. started /\ started' = FALSE /\ asked' = Nothing /\ left' = FALSE
      BY <2>2
    <3>2. ~left => op'.received = op'.asked
      BY <2>1, <3>1 DEF IInv, HostAgrees
    <3>3. left \in BOOLEAN
      BY DEF IInv, TypeOK
    <3>4. QED
      BY <2>1, <3>1, <3>2, <3>3 DEF HostAgrees
  <2>3. CASE cmd # "write"
    BY <2>1, <2>3 DEF IInv, HostAgrees
  <2>4. QED
    BY <2>2, <2>3
<1>5. KeysAgree'
  <2>1. op'.cmd = cmd /\ op'.setting = setting /\ config' = config
    OBVIOUS
  <2>2. QED
    BY <2>1 DEF IInv, KeysAgree
<1>6. ChangeIsAuthorized
  BY ValidIsSession DEF ChangeIsAuthorized, Roles
<1>7. op.cmd # "write"
  BY NoOpType DEF Idle
<1>8. QED
  BY <1>1, <1>2, <1>3, <1>4, <1>5, <1>6, <1>7
  DEF Good, IInv, CodeIsAuthorized, WriteHitsItsSlot, WriteIsAsSent

LEMMA WriteToSlotStep ==
  ASSUME IInv, NEW p \in Passwords, NEW s \in Numbers, WriteToSlot(p, s)
  PROVE  Good
<1> USE DEF WriteToSlot
<1>1. started' \in BOOLEAN /\ left' \in BOOLEAN /\ asked' \in Received
  BY NothingType
<1>2. CASE UNCHANGED op /\ \E st \in Statuses : Reply(st)
  <2> USE <1>2 DEF Reply, flash
  <2>1. TypeOK'
    BY <1>1, NoCodeType DEF IInv, TypeOK
  <2>2. OpShape' /\ Holder' /\ SessionsAgree' /\ CountersFirst' /\ HostAgrees' /\ KeysAgree'
    BY DEF IInv, OpShape, Holder, Idle, SessionsAgree, CountersFirst, HostAgrees, KeysAgree
  <2>3. op.cmd # "write"
    BY NoOpType DEF Idle
  <2>4. QED
    BY <2>1, <2>2, <2>3
    DEF Good, IInv, ChangeIsAuthorized, CodeIsAuthorized, WriteHitsItsSlot, WriteIsAsSent, Idle
<1>3. CASE /\ local.name # Empty /\ s # Invalid /\ HasPlace(s)
           /\ Begin("write", s, NoSetting, WriteStages(s), p)
  <2>1. s \in Slots /\ s \in Hotp \union Totp
    BY <1>3 DEF Numbers, Slots, HasPlace
  <2>2. local.name \in Names
    BY <1>3 DEF IInv, TypeOK, Received
  <2>3. WriteStages(s) \in Stages
        /\ WriteStages(s) = IF s \in Hotp THEN <<"counter", "slot">> ELSE <<"slot">>
    BY DEF WriteStages, Stages
  <2>4. QED
    BY <1>1, <1>3, <2>1, <2>2, <2>3, ConfigTypes, BeginStep
<1>4. QED
  BY <1>2, <1>3 DEF Statuses

LEMMA EraseSlotStep ==
  ASSUME IInv, NEW p \in Passwords, NEW s \in Numbers, EraseSlot(p, s)
  PROVE  Good
<1>1. s \in Hotp \union Totp /\ <<"slot">> \in Stages
  BY DEF EraseSlot, Numbers, Stages
<1>2. started' \in BOOLEAN /\ left' \in BOOLEAN /\ asked' \in Received
  BY DEF EraseSlot, IInv, TypeOK, ram, host
<1>3. QED
  BY <1>1, <1>2, ConfigTypes, BeginStep DEF EraseSlot, flash, ram, host

LEMMA WriteConfigStep ==
  ASSUME IInv, NEW p \in Passwords, NEW setting \in Settings, WriteConfig(p, setting)
  PROVE  Good
<1>1. <<"config">> \in Stages
  BY DEF Stages
<1>2. started' \in BOOLEAN /\ left' \in BOOLEAN /\ asked' \in Received
  BY DEF WriteConfig, IInv, TypeOK, ram
<1>3. QED
  BY <1>1, <1>2, BeginStep DEF WriteConfig, flash, ram

-----------------------------------------------------------------------------
(* Codes and factory reset *)

LEMMA GetCodeStep ==
  ASSUME IInv, NEW p \in Passwords, NEW s \in Numbers, GetCode(p, s)
  PROVE  Good
<1> USE DEF GetCode
<1>1. CASE Refused
  BY <1>1, RefusedStep
<1>2. CASE \E st \in Statuses : Reply(st)
  BY <1>2, AnswerOnly DEF Reply
<1>3. CASE MayGetCode(p) /\ s # Invalid /\ status' = "OK" /\ code' = [slot |-> s, by |-> p]
  <2> USE <1>3 DEF flash, ram, host
  <2>1. code' \in [slot : Hotp \union Totp \union {None}, by : Passwords \union Keys \union {None}]
    BY DEF Numbers
  <2>2. TypeOK'
    BY <2>1 DEF IInv, TypeOK, Statuses
  <2>3. OpShape' /\ Holder' /\ SessionsAgree' /\ CountersFirst' /\ HostAgrees' /\ KeysAgree'
    BY DEF IInv, OpShape, Holder, Idle, SessionsAgree, CountersFirst, HostAgrees, KeysAgree
  <2>4. CodeIsAuthorized
    BY ValidIsSession, SessionAssumption DEF CodeIsAuthorized, MayGetCode, Protected, Roles
  <2>5. op.cmd # "write"
    BY NoOpType DEF Idle
  <2>6. QED
    BY <2>2, <2>3, <2>4, <2>5 DEF Good, IInv, ChangeIsAuthorized, WriteHitsItsSlot, WriteIsAsSent, Idle
<1>4. QED
  BY <1>1, <1>2, <1>3 DEF Statuses

\* A code is typed: of the slot the key has in flash.
LEMMA TypeCodeStep ==
  ASSUME IInv, NEW k \in Keys, TypeCode(k)
  PROVE  Good
<1> USE DEF TypeCode, flash, ram, host
<1>1. PICK s \in Typed : s = config.slot[k] /\ code' = [slot |-> s, by |-> k]
  OBVIOUS
<1>2. s \in Hotp \union Totp /\ <<k, s>> \in Gives(config)
  BY <1>1, SessionAssumption DEF Gives
<1>3. TypeOK'
  BY <1>1, <1>2 DEF IInv, TypeOK
<1>4. OpShape' /\ Holder' /\ SessionsAgree' /\ CountersFirst' /\ HostAgrees' /\ KeysAgree'
  BY DEF IInv, OpShape, Holder, Idle, SessionsAgree, CountersFirst, HostAgrees, KeysAgree
<1>5. CodeIsAuthorized
  BY <1>1, <1>2 DEF CodeIsAuthorized, IInv, KeysAgree
<1>6. op.cmd # "write"
  BY NoOpType DEF Idle
<1>7. QED
  BY <1>3, <1>4, <1>5, <1>6 DEF Good, IInv, ChangeIsAuthorized, WriteHitsItsSlot, WriteIsAsSent, Idle

LEMMA FactoryResetStep ==
  ASSUME IInv, NEW right \in BOOLEAN, FactoryReset(right)
  PROVE  Good
<1> USE DEF FactoryReset, Reply
<1>1. CASE ~right
  BY <1>1, AnswerOnly DEF Statuses, flash, ram, host
<1>2. CASE right
  <2> USE <1>2 DEF ram, host
  <2>1. Blank \in Records
    BY DEF Blank, Records
  <2>2. TypeOK'
    BY <2>1, NoCodeType, ConfigTypes DEF IInv, TypeOK, Statuses
  <2>3. OpShape' /\ Holder' /\ SessionsAgree' /\ CountersFirst' /\ HostAgrees' /\ KeysAgree'
    BY ConfigTypes, NoOpType DEF IInv, OpShape, Holder, Idle, SessionsAgree, CountersFirst, HostAgrees, KeysAgree
  <2>4. op.cmd # "write"
    BY NoOpType DEF Idle
  <2>5. QED
    BY <2>2, <2>3, <2>4
    DEF Good, IInv, ChangeIsAuthorized, CodeIsAuthorized, WriteHitsItsSlot, WriteIsAsSent, Idle
<1>3. QED
  BY <1>1, <1>2

-----------------------------------------------------------------------------
(* Flash updates and loss of power *)

\* What an update makes of the slots and the configuration.
LEMMA NewType ==
  ASSUME IInv, ~Idle
  PROVE  /\ NewSlots \in [Slots -> Records] /\ NewConfig \in Configs
         /\ op.cmd = "write" => \A s \in Slots \ {op.slot} : NewSlots[s] = slots[s]
         /\ op.cmd = "erase" => \A s \in Slots : NewSlots[s] \in {slots[s], Blank}
         /\ op.cmd = "config" => NewSlots = slots /\ NewConfig = op.setting
         /\ op.cmd # "config" => NewConfig = config
<1>1. Blank \in Records /\ slots \in [Slots -> Records]
  BY DEF Blank, Records, IInv, TypeOK
<1>2. CASE op.cmd = "write"
  <2>1. op.slot \in Slots /\ op.slot \in Hotp \union Totp /\ op.received.name \in Names
    BY <1>2, NoOpType DEF IInv, OpShape, Slots
  <2>2. op.received.secret \in Secrets \union {Empty, FF}
    BY DEF IInv, TypeOK, Received
  <2>3. \A old \in Records : Merged(op.received, op.slot, old) \in Records
    BY <2>1, <2>2 DEF Merged, Records, TypeOf
  <2>4. NewSlots = [slots EXCEPT ![op.slot] = Merged(op.received, op.slot, slots[op.slot])]
    BY <1>2, <2>1, PlaceIsSlot DEF NewSlots
  <2>5. NewSlots \in [Slots -> Records]
    BY <1>1, <2>1, <2>3, <2>4
  <2>6. NewConfig \in Configs /\ NewConfig = config
    BY <1>2 DEF NewConfig, IInv, TypeOK
  <2>7. QED
    BY <1>1, <1>2, <2>4, <2>5, <2>6
<1>3. CASE op.cmd = "erase"
  <2>1. NewSlots = [slots EXCEPT ![Place(op.slot)] = Blank]
    BY <1>3 DEF NewSlots
  <2>2. NewSlots \in [Slots -> Records] /\ \A s \in Slots : NewSlots[s] \in {slots[s], Blank}
    BY <1>1, <2>1
  <2>3. NewConfig \in Configs /\ NewConfig = config
    BY <1>3 DEF NewConfig, IInv, TypeOK
  <2>4. QED
    BY <1>3, <2>2, <2>3
<1>4. CASE op.cmd = "config"
  <2>1. NewSlots = slots /\ NewConfig \in Configs /\ NewConfig = op.setting
    BY <1>4, ConfigTypes DEF NewSlots, NewConfig, IInv, TypeOK
  <2>2. QED
    BY <1>1, <1>4, <2>1
<1>5. QED
  BY <1>2, <1>3, <1>4 DEF IInv, OpShape, Idle

\* While the record is written, its counter is set already.
LEMMA NoneBehind ==
  ASSUME IInv, ~Idle, Head(op.todo) # "counter", NEW new \in [Slots -> Records],
         \A s \in Slots : new[s] \in {slots[s], NewSlots[s], Blank}
  PROVE  Behind(new) = {}
<1> SUFFICES ASSUME NEW s \in Hotp, new[s].type = "H", new[s] # slots[s]
             PROVE  op.counted
  BY DEF Behind, IInv, CountersFirst
<1>1. s \in Slots /\ new[s] = NewSlots[s] /\ new[s] # Blank
  BY HotpAreSlots DEF Blank
<1>2. op.cmd = "write" /\ op.slot = s
  BY <1>1, NewType DEF IInv, OpShape, Idle
<1>3. op.todo # <<"counter", "slot">>
  OBVIOUS
<1>4. op.slot \notin Totp
  BY <1>2, SessionAssumption
<1>5. QED
  BY <1>2, <1>3, <1>4, NoOpType DEF IInv, OpShape

LEMMA SetCounterStep ==
  ASSUME IInv, SetCounter PROVE Good
<1> USE DEF SetCounter
<1>1. op.cmd = "write" /\ op.slot \in Hotp /\ op.todo = <<"counter", "slot">>
  BY DEF IInv, OpShape, Idle
<1>2. Len(op.todo) # 1 /\ Tail(op.todo) = <<"slot">>
  BY <1>1
<1>3. op' = [op EXCEPT !.todo = <<"slot">>, !.counted = TRUE] /\ UNCHANGED <<status, code>>
  BY <1>2 DEF NextUpdate
<1>4. op'.cmd = "write" /\ op'.slot = op.slot /\ op'.received = op.received /\ op'.by = op.by
      /\ op'.todo = <<"slot">> /\ op'.counted
  BY <1>1, <1>3 DEF IInv, TypeOK
<1>5. TypeOK'
  BY <1>3 DEF IInv, TypeOK, Stages, flash, ram, host
<1>6. op.slot \in Slots /\ op.received.name \in Names
  BY <1>1, NoOpType DEF IInv, OpShape
<1>7. OpShape' /\ Holder' /\ SessionsAgree' /\ CountersFirst' /\ HostAgrees' /\ KeysAgree'
  <2>1. OpShape' /\ Holder' /\ SessionsAgree' /\ CountersFirst' /\ HostAgrees'
    BY <1>1, <1>3, <1>4, <1>6
    DEF IInv, OpShape, Holder, Idle, SessionsAgree, CountersFirst, HostAgrees, ram, host
  <2>2. KeysAgree'
    BY <1>4 DEF IInv, KeysAgree, flash, host
  <2>3. QED
    BY <2>1, <2>2
<1>8. op' # NoOp
  BY <1>4, NoOpType
<1>9. code' = NoCode
  BY <1>3 DEF IInv, Holder
<1>10. QED
  BY <1>5, <1>7, <1>8, <1>9
  DEF Good, IInv, ChangeIsAuthorized, CodeIsAuthorized, WriteHitsItsSlot, WriteIsAsSent, Idle, flash, ram, host

LEMMA UpdateStep ==
  ASSUME IInv, Update PROVE Good
<1> USE DEF Update
<1>1. Len(op.todo) = 1
  BY DEF IInv, OpShape, Idle
<1>2. op' = NoOp /\ status' = "OK" /\ code' = NoCode
  BY <1>1 DEF NextUpdate, Reply
<1>3. slots' \in [Slots -> Records] /\ config' \in Configs
  BY NewType
<1>4. local' \in Received
  <2>1. CASE op.cmd = "write"
    <3>1. Place(op.slot) \in Slots
      BY <2>1, NoOpType, PlaceIsSlot DEF IInv, OpShape, Slots
    <3>2. NewSlots[Place(op.slot)].secret \in Secrets \union {FF}
      BY <3>1, NewType DEF Records
    <3>3. QED
      BY <2>1, <3>2 DEF IInv, TypeOK, Received
  <2>2. CASE op.cmd # "write"
    BY <2>2 DEF IInv, TypeOK
  <2>3. QED
    BY <2>1, <2>2
<1>5. behind' = {}
  BY <1>3, NewType, NoneBehind
<1>6. TypeOK'
  <2>1. assigned' \subseteq Keys \X Typed
    BY ConfigTypes DEF IInv, TypeOK
  <2>2. QED
    BY <1>2, <1>3, <1>4, <1>5, <2>1, NoOpType, NoCodeType DEF IInv, TypeOK, Statuses
<1>7. OpShape' /\ Holder' /\ SessionsAgree' /\ CountersFirst' /\ HostAgrees' /\ KeysAgree'
  <2>1. OpShape' /\ Holder' /\ SessionsAgree' /\ CountersFirst' /\ HostAgrees'
    BY <1>2, <1>5, NoOpType DEF IInv, OpShape, Holder, Idle, SessionsAgree, CountersFirst, HostAgrees
  <2>2. Gives(config') \subseteq assigned'
    BY NewType DEF IInv, KeysAgree
  <2>3. QED
    BY <1>2, <2>1, <2>2, NoOpType DEF KeysAgree
<1>8. session["admin"] # None
  BY SessionAssumption DEF IInv, Holder
<1>9. WriteHitsItsSlot
  BY NewType DEF WriteHitsItsSlot
<1>10. WriteIsAsSent
  <2>1. SUFFICES ASSUME op.cmd = "write", op.sure, op.slot \in Slots
                 PROVE  /\ slots'[op.slot].type # "erased" /\ slots'[op.slot].name = op.asked.name
                        /\ slots'[op.slot].secret = IF op.asked.secret = Empty
                                                    THEN slots[op.slot].secret
                                                    ELSE op.asked.secret
    BY DEF WriteIsAsSent
  <2>2. op.received = op.asked
    BY <2>1 DEF IInv, HostAgrees
  <2>3. slots' = [slots EXCEPT ![op.slot] = Merged(op.received, op.slot, slots[op.slot])]
    BY <2>1, PlaceIsSlot DEF NewSlots, Slots
  <2>4. slots'[op.slot] = Merged(op.asked, op.slot, slots[op.slot])
    BY <2>1, <2>2, <2>3 DEF IInv, TypeOK
  <2>5. QED
    BY <2>4 DEF Merged, TypeOf
<1>11. QED
  BY <1>2, <1>6, <1>7, <1>8, <1>9, <1>10 DEF Good, IInv, ChangeIsAuthorized, CodeIsAuthorized

LEMMA PowerLossStep ==
  ASSUME IInv, PowerLoss PROVE Good
<1> USE DEF PowerLoss, Reply
<1>1. /\ slots' \in [Slots -> Records] /\ config' \in Configs
      /\ behind' = {} /\ Gives(config') \subseteq assigned /\ (Idle => UNCHANGED flash)
  <2>1. CASE ~Idle /\ Head(op.todo) # "counter"
    <3>1. PICK p \in 1 .. NPages + 1, erased \in BOOLEAN : CutAt(p, erased)
      BY <2>1
    <3>2. NewSlots \in [Slots -> Records] /\ NewConfig \in Configs
      BY <2>1, NewType
    <3>3. slots \in [Slots -> Records] /\ config \in Configs /\ Blank \in Records
      BY DEF IInv, TypeOK, Blank, Records
    <3>4. slots' \in [Slots -> Records] /\ \A s \in Slots : slots'[s] \in {slots[s], NewSlots[s], Blank}
      BY <3>1, <3>2, <3>3 DEF CutAt
    <3>5. config' \in {config, NewConfig, ErasedConfig}
      BY <3>1 DEF CutAt
    <3>6. behind' = {}
      BY <2>1, <3>1, <3>4, NoneBehind DEF CutAt
    <3>7. config' \in Configs
      BY <3>2, <3>3, <3>5, ConfigTypes
    <3>8. Gives(config') \subseteq assigned
      <4>1. Gives(config) \subseteq assigned /\ Gives(NewConfig) \subseteq assigned
        BY <2>1, NewType DEF IInv, KeysAgree
      <4>2. QED
        BY <3>5, <4>1, ConfigTypes
    <3>9. QED
      BY <2>1, <3>4, <3>6, <3>7, <3>8
  <2>2. CASE Idle \/ Head(op.todo) = "counter"
    BY <2>2 DEF IInv, TypeOK, CountersFirst, KeysAgree, flash
  <2>3. QED
    BY <2>1, <2>2
<1>2. TypeOK'
  BY <1>1, SessionAssumption, NoOpType, NoCodeType, NothingType DEF IInv, TypeOK, Statuses, Cleared
<1>3. OpShape' /\ Holder' /\ SessionsAgree' /\ CountersFirst' /\ HostAgrees' /\ KeysAgree'
  BY <1>1, NoOpType DEF OpShape, Holder, Idle, SessionsAgree, CountersFirst, HostAgrees, KeysAgree, Cleared
<1>4. ChangeIsAuthorized
  BY <1>1 DEF ChangeIsAuthorized, flash
<1>5. QED
  BY <1>2, <1>3, <1>4 DEF Good, IInv, CodeIsAuthorized, WriteHitsItsSlot, WriteIsAsSent

-----------------------------------------------------------------------------
(* Together *)

LEMMA Initially == Init => IInv
<1> SUFFICES ASSUME Init PROVE IInv
  OBVIOUS
<1>1. Blank \in Records
  BY DEF Blank, Records
<1>2. TypeOK
  <2>1. slots \in [Slots -> Records]
    BY <1>1 DEF Init
  <2>2. temp \in [Roles -> [set : BOOLEAN, pw : Passwords]] /\ session \in [Roles -> Passwords \union {None}]
    BY SessionAssumption DEF Init, Cleared
  <2>3. QED
    BY <2>1, <2>2, ConfigTypes, NoOpType, NoCodeType, NothingType DEF Init, TypeOK, Statuses
<1>3. OpShape /\ Holder /\ SessionsAgree /\ CountersFirst /\ HostAgrees /\ KeysAgree
  BY NoOpType, ConfigTypes DEF Init, OpShape, Holder, Idle, SessionsAgree, CountersFirst, HostAgrees, KeysAgree, Cleared
<1>4. QED
  BY <1>2, <1>3 DEF IInv

LEMMA Step == ASSUME IInv, Next PROVE Good
<1>1. CASE \E r \in Roles, right \in BOOLEAN, p \in Passwords : Authenticate(r, right, p)
  BY <1>1, AuthenticateStep
<1>2. CASE Authorize \/ LockDevice
  BY <1>2, AuthorizeStep, LockDeviceStep
<1>3. ASSUME NEW p \in Passwords,
             \/ \E n \in Names : SendOtpData(p, "name", n)
             \/ \E v \in Secrets \union {Empty} : SendOtpData(p, "secret", v)
      PROVE  Good
  BY <1>3, SendOtpDataStep
<1>4. ASSUME NEW p \in Passwords, SendUnknownType(p) \/ WriteRefused(p) \/ ChangeRefused(p)
      PROVE  Good
  <2>1. CASE SendUnknownType(p)
    BY <2>1, AnswerStep DEF SendUnknownType, Statuses
  <2>2. CASE WriteRefused(p)
    BY <2>2, RefusedStep DEF WriteRefused
  <2>3. CASE ChangeRefused(p)
    <3>1. CASE Refused
      BY <2>3, <3>1, RefusedStep DEF ChangeRefused
    <3>2. CASE \E st \in {"WRONG_SLOT", "UNKNOWN_ERROR"} : Reply(st)
      BY <2>3, <3>2, AnswerOnly DEF ChangeRefused, Reply, Statuses
    <3>3. QED
      BY <2>3, <3>1, <3>2 DEF ChangeRefused
  <2>4. QED
    BY <1>4, <2>1, <2>2, <2>3
<1>5. ASSUME NEW p \in Passwords, NEW s \in Numbers,
             WriteToSlot(p, s) \/ EraseSlot(p, s) \/ GetCode(p, s)
      PROVE  Good
  BY <1>5, WriteToSlotStep, EraseSlotStep, GetCodeStep
<1>6. ASSUME NEW p \in Passwords, NEW setting \in Settings, WriteConfig(p, setting)
      PROVE  Good
  BY <1>6, WriteConfigStep
<1>7. ASSUME NEW s \in Numbers, ReadSlot(s) PROVE Good
  BY <1>7, AnswerStep DEF ReadSlot, Statuses
<1>8. CASE \E right \in BOOLEAN : FactoryReset(right)
  BY <1>8, FactoryResetStep
<1>9. ASSUME NEW k \in Keys, TypeCode(k) PROVE Good
  BY <1>9, TypeCodeStep
<1>10. CASE SetCounter \/ Update \/ PowerLoss
  BY <1>10, SetCounterStep, UpdateStep, PowerLossStep
<1>11. QED
  BY <1>1, <1>2, <1>3, <1>4, <1>5, <1>6, <1>7, <1>8, <1>9, <1>10 DEF Next

LEMMA Invariance == Spec => []IInv
<1>1. IInv /\ [Next]_vars => IInv'
  <2>1. ASSUME IInv, Next PROVE IInv'
    BY <2>1, Step DEF Good
  <2>2. ASSUME IInv, UNCHANGED vars PROVE IInv'
    BY <2>2 DEF vars, IInv, TypeOK, OpShape, Holder, Idle, SessionsAgree, CountersFirst, HostAgrees, KeysAgree
  <2>3. QED
    BY <2>1, <2>2
<1>2. QED
  BY Initially, <1>1, PTL DEF Spec

\* Flash, RAM and the command under way keep their types (report_protocol.c:472).
THEOREM TypeCorrect == Spec => []TypeOK
<1>1. IInv => TypeOK
  BY DEF IInv
<1>2. QED
  BY <1>1, Invariance, PTL

\* No record of a HOTP slot is ever left beside an older counter (cmd_write_to_slot).
THEOREM CounterComesFirst == Spec => []CounterIsNotOlder
<1>1. IInv => CounterIsNotOlder
  BY DEF IInv, CountersFirst, CounterIsNotOlder
<1>2. QED
  BY <1>1, Invariance, PTL

\* Only the holder of the admin session changes slots, configuration and the slot in transfer
\* (is_valid_admin_temp_password).
THEOREM ChangesNeedSession == Spec => ChangesAreAuthorized
<1>1. IInv /\ [Next]_vars => [ChangeIsAuthorized]_vars
  BY Step DEF Good
<1>2. QED
  BY <1>1, Invariance, PTL DEF Spec, ChangesAreAuthorized, ChangeIsAuthorized

\* Codes that are protected are answered to the holder of the user session only (CMD_GET_CODE); without
\* one, a code is typed for a key that the holder of the admin session gave the slot to (OTP_main).
THEOREM CodesNeedSession == Spec => CodesAreAuthorized
<1>1. IInv /\ [Next]_vars => [CodeIsAuthorized]_vars
  BY Step DEF Good
<1>2. QED
  BY <1>1, Invariance, PTL DEF Spec, CodesAreAuthorized, CodeIsAuthorized

\* A write of one slot leaves the others as they are (get_slot_offset).
THEOREM OthersAreLeftAlone == Spec => WritesOnlyItsSlot
<1>1. IInv /\ [Next]_vars => [WriteHitsItsSlot]_vars
  BY Step DEF Good
<1>2. QED
  BY <1>1, Invariance, PTL DEF Spec, WritesOnlyItsSlot, WriteHitsItsSlot

\* What is written is what the host sent in the transfer (CMD_SEND_OTP_DATA, write_to_slot).
THEOREM TransfersAreWhole == Spec => WritesAreAsSent
<1>1. IInv /\ [Next]_vars => [WriteIsAsSent]_vars
  BY Step DEF Good
<1>2. QED
  BY <1>1, Invariance, PTL DEF Spec, WritesAreAsSent, WriteIsAsSent

\* Changes and answered codes need the password of a session, typed codes a slot that was given to their
\* key in one (is_valid_admin_temp_password, is_valid_temp_user_password, send_hotp_slot).
THEOREM SessionsRule == Spec => Authorized
BY ChangesNeedSession, CodesNeedSession DEF Authorized

\* A slot that is written holds what was sent, and no other slot changes (cmd_write_to_slot).
THEOREM WritesHold == Spec => WritesAreRight
BY OthersAreLeftAlone, TransfersAreWhole DEF WritesAreRight
=============================================================================
