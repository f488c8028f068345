---------------------------- MODULE SmartcardLock ----------------------------
(***************************************************************************)
(* Who may talk to the smartcard: the two lock counters of                 *)
(* src/src/USB_CCID/USB_CCID.c and src/src/CCID/USART/ISO7816_ADPU.c.      *)
(*                                                                         *)
(* The CCID task serves the host's card reader interface, the IW task runs *)
(* the firmware's own commands; both drive the one card.  A task takes the *)
(* card by setting its lock counter, in a critical section, when the other *)
(* counter is 0.  A counter is a lease: usb_device_task counts it down     *)
(* every 10 ms whatever its owner is doing.                                *)
(*                                                                         *)
(* A command is the list of steps its handler takes (Commands); a step is  *)
(* one call of Set...LockCounter, one exchange with the card, the wait     *)
(* that precedes a CCID command, or a switch: the card is powered off or   *)
(* restarted with no lease at all.                                         *)
(***************************************************************************)
EXTENDS Integers, Sequences

CONSTANTS
  Long, PowerOn, Normal, Clear,  \* the leases, in ticks: 3000, 1000, 50 and 10 in the code
  AnswerTime,   \* how long the card may take to answer: 6000 ticks, 60 s, in the code
  MaxCommands,  \* bound: commands a task executes
  MaxAge        \* bound: the age of a lease is not counted beyond this value

ASSUME LockAssumption ==
  /\ Long \in Nat /\ PowerOn \in Nat /\ Normal \in Nat /\ Clear \in Nat
  /\ AnswerTime \in Nat /\ MaxCommands \in Nat /\ MaxAge \in Nat
  /\ Long <= MaxAge /\ PowerOn <= MaxAge /\ Normal <= MaxAge /\ Clear <= MaxAge
  /\ AnswerTime <= MaxAge
  /\ 0 < Long /\ 0 < PowerOn /\ 0 < Normal /\ 0 < Clear

VARIABLES
  lock,      \* lock[t]: the lock counter of task t
  todo,      \* todo[t]: what is left of the command t executes
  commands,  \* commands[t]: commands t has begun
  lease,     \* history: the value t last set its counter to
  age        \* history: the ticks since then

lockVars == <<lock, todo, commands, lease, age>>

Tasks == {"ccid", "iw"}
Other(t) == IF t = "ccid" THEN "iw" ELSE "ccid"

-----------------------------------------------------------------------------
(* Commands *)

Leases == {0, Long, PowerOn, Normal, Clear}

SetLockCounter(n) == [step |-> "lock", ticks |-> n]
Card == [step |-> "card", ticks |-> 0]
Wait == [step |-> "wait", ticks |-> 0]
Steps == [step : {"lock", "card", "wait", "switch"}, ticks : Leases]

\* ISO7816_InitSC as the CCID task starts and in CCID_RestartSmartcard_u8, which LA_SC_StartSmartcard
\* and BuildStorageKeys_u32 reach, and CCID_SmartcardOff_u8: the card is powered off, reset and given its
\* parameters whatever the lock counters are.
CardSwitch == [step |-> "switch", ticks |-> 0]

\* USB_CCID_GetDataFromUSB waits before USB_to_CRD_DispatchUSBMessage_v runs.
Dispatch(steps) == <<Wait, SetLockCounter(Long)>> \o steps

Commands(t) ==
  IF t = "ccid"
  THEN {Dispatch(<<SetLockCounter(PowerOn), Card, SetLockCounter(Normal)>>),  \* ICCPOWERON
        Dispatch(<<Card, SetLockCounter(Clear), SetLockCounter(Normal)>>),    \* ICCPOWEROFF
        Dispatch(<<Card, SetLockCounter(Normal)>>),                           \* XFRBLOCK
        Dispatch(<<SetLockCounter(Normal)>>),                                 \* parameters, escape
        Dispatch(<<SetLockCounter(Normal), SetLockCounter(Clear)>>)}          \* GETSLOTSTATUS
  ELSE {<<SetLockCounter(Normal), Card, SetLockCounter(Clear)>>,  \* ISO7816_SendAPDU_...
        <<CardSwitch>>,                                               \* LA_RestartSmartcard_u8
        <<SetLockCounter(0), CardSwitch>>}                            \* LockDevice: card off

Next_(t, kind) == todo[t] # <<>> /\ Head(todo[t]).step = kind
OnCard(t) == Next_(t, "card")

LockInit ==
  /\ lock = [t \in Tasks |-> 0]
  /\ todo = [t \in Tasks |-> IF t = "ccid" THEN <<CardSwitch>> ELSE <<>>]
  /\ commands = [t \in Tasks |-> 0]
  /\ lease = [t \in Tasks |-> 0]
  /\ age = [t \in Tasks |-> 0]

Begin(t) ==
  /\ todo[t] = <<>> /\ commands[t] < MaxCommands
  /\ \E c \in Commands(t) : todo' = [todo EXCEPT ![t] = c]
  /\ commands' = [commands EXCEPT ![t] = @ + 1]
  /\ UNCHANGED <<lock, lease, age>>

\* The busy wait of USB_CCID_GetDataFromUSB for the internal access to end.
WaitUnlocked(t) ==
  /\ Next_(t, "wait") /\ lock[Other(t)] = 0
  /\ todo' = [todo EXCEPT ![t] = Tail(@)]
  /\ UNCHANGED <<lock, commands, lease, age>>

\* Mutant: the counter is set without a look at the other one.
SetLockBlindly(t) ==
  /\ Next_(t, "lock")
  /\ lock'  = [lock  EXCEPT ![t] = Head(todo[t]).ticks]
  /\ lease' = [lease EXCEPT ![t] = Head(todo[t]).ticks]
  /\ age'   = [age   EXCEPT ![t] = 0]
  /\ todo'  = [todo  EXCEPT ![t] = Tail(@)]
  /\ UNCHANGED commands

\* USB_CCID_SetLockCounter and ISO7816_SetLockCounter: wait until the other counter is 0,
\* then, with interrupts still disabled, set one's own.
SetLock(t) ==
  /\ Next_(t, "lock") /\ lock[Other(t)] = 0
  /\ lock'  = [lock  EXCEPT ![t] = Head(todo[t]).ticks]
  /\ lease' = [lease EXCEPT ![t] = Head(todo[t]).ticks]
  /\ age'   = [age   EXCEPT ![t] = 0]
  /\ todo'  = [todo  EXCEPT ![t] = Tail(@)]
  /\ UNCHANGED commands

\* The card has answered, or has been switched on or off.
CardDone(t) ==
  /\ OnCard(t) \/ Next_(t, "switch")
  /\ todo' = [todo EXCEPT ![t] = Tail(@)]
  /\ UNCHANGED <<lock, commands, lease, age>>

\* Mutant: the counter is decremented at 0 too.
Underflow(n) == n - 1

\* USB_CCID_DecLockCounter, ISO7816_DecLockCounter
Decremented(n) == IF n # 0 THEN n - 1 ELSE 0

Aged(n) == IF n < MaxAge THEN n + 1 ELSE n

\* Mutant: only the external access is counted down.
TickCcidOnly ==
  /\ \A t \in Tasks : OnCard(t) => age[t] < AnswerTime
  /\ lock' = [lock EXCEPT !["ccid"] = Decremented(@)]
  /\ age'  = [t \in Tasks |-> Aged(age[t])]
  /\ UNCHANGED <<todo, commands, lease>>

\* Mutant: both counters are counted down twice.
TickTwice ==
  /\ \A t \in Tasks : OnCard(t) => age[t] < AnswerTime
  /\ lock' = [t \in Tasks |-> Decremented(Decremented(lock[t]))]
  /\ age'  = [t \in Tasks |-> Aged(age[t])]
  /\ UNCHANGED <<todo, commands, lease>>

\* usb_device_task, every 10 ms.  The card answers, or the wait for its first character is
\* given up, AnswerTime after the lease was taken at the latest.
Tick ==
  /\ \A t \in Tasks : OnCard(t) => age[t] < AnswerTime
  /\ lock' = [t \in Tasks |-> Decremented(lock[t])]
  /\ age'  = [t \in Tasks |-> Aged(age[t])]
  /\ UNCHANGED <<todo, commands, lease>>

LockNext == Tick \/ \E t \in Tasks : Begin(t) \/ WaitUnlocked(t) \/ SetLock(t) \/ CardDone(t)

LockSpec == LockInit /\ [][LockNext]_lockVars

\* The tick is given by a task above all others, the tasks share the processor by time
\* slices, and the card answers.
LockFairness == WF_lockVars(Tick) /\ \A t \in Tasks : WF_lockVars(WaitUnlocked(t) \/ SetLock(t) \/ CardDone(t))

FairLockSpec == LockSpec /\ LockFairness

-----------------------------------------------------------------------------
(* Properties *)

LockTypeOK ==
  /\ lock \in [Tasks -> Nat] /\ lease \in [Tasks -> Leases]
  /\ todo \in [Tasks -> Seq(Steps)]
  /\ commands \in [Tasks -> 0 .. MaxCommands]
  /\ age \in [Tasks -> 0 .. MaxAge]

\* At no time do both tasks hold a lease on the card, whatever the interleaving of the two
\* Set...LockCounter functions, the waits in them and the count-down.
LeasesExclude == \A t \in Tasks : lock[t] = 0 \/ lock[Other(t)] = 0

\* Both tasks exchange blocks with the card only when one of them is at it for as long as the lease
\* it took: an answer that comes in time is never mixed with another command.  A switch takes no lease
\* and shuts nobody out: a restart, or LockDevice, meets an exchange of the other task at any time.
CardSharedOnlyAfterOverrun ==
  (\A t \in Tasks : OnCard(t)) => \E t \in Tasks : lease[t] > 0 /\ age[t] >= lease[t]

\* As long as the host and the firmware do not send commands without end, every command is
\* completed: neither task waits for the other for ever, and no lease outlives its owner.
EveryCommandEnds == \A t \in Tasks : todo[t] # <<>> ~> todo[t] = <<>>
=============================================================================
