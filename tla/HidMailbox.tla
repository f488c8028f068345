----------------------------- MODULE HidMailbox -----------------------------
(***************************************************************************)
(* How a HID feature report becomes a command and its answer.              *)
(*                                                                         *)
(* The USB task puts the report into a buffer and raises a flag; OTP_main, *)
(* in the IW task, parses it.  A Stick 1.0 command is executed then and    *)
(* there; a Stick 2.0 command is left in a mailbox (HID_CmdGet_u8,         *)
(* HID_String_au8) for HID_ExcuteCmd, which the IW task calls every 100 ms *)
(* and which does nothing while the CCID task uses the smartcard.  Answers *)
(* are built in one buffer that both halves write and the USB task, which  *)
(* preempts the IW task, reads at any moment; its CRC is all that tells    *)
(* the host a finished answer.                                             *)
(*                                                                         *)
(* Requests are numbered; a number stands for the whole report, and for    *)
(* the CRC by which the host recognises its answer.  The host is patient:  *)
(* it has one request out and sends that again until it has its answer.    *)
(***************************************************************************)
EXTENDS Naturals

CONSTANTS
  MaxRequests,  \* bound: requests of the host
  MaxSends,     \* bound: premature transmissions of a request
  MaxAccesses,  \* bound: CCID accesses to the card
  Period        \* OTP_main runs per run of HID_ExcuteCmd, 10 in the code

ASSUME MailboxAssumption ==
  /\ MaxRequests \in Nat /\ MaxSends \in Nat /\ MaxAccesses \in Nat
  /\ MaxSends > 0 /\ Period \in Nat /\ Period > 0

VARIABLES
  kind,      \* kind[i]: what request i is, once it is sent
  req,       \* the host's current request
  waiting,   \* the host has not accepted an answer to it
  got,       \* the answer it accepted last
  rx,        \* HID_SetReport_Value_tmp: the report in it, 0 if none
  status,    \* OTP_device_status
  pc,        \* where the IW task is
  loop,      \* LoopCount_u32 % Period
  cmd,       \* cmd_type of parse_report
  tx,        \* HID_GetReport_Value_tmp: the request it answers and its bytes 20 ff.
  crc,       \* the contents of tx its CRC field was computed from
  stick20,   \* HID_Stick20Status_st
  mailbox,   \* HID_CmdGet_u8: the request whose command it is, 0 if none
  string,    \* HID_String_au8: the request whose payload it is, 0 if cleared
  sendData,  \* Stick20HIDSendConfigurationState_u8 # STICK20_SEND_STATUS_IDLE
  ccid,      \* USB_CCID_GetLockCounter () # 0
  accesses,  \* history: CCID accesses begun
  sends,     \* history: transmissions of request i, repeated ones of a lost report not counted
  execs      \* history: how often request i was executed, if its command is cleared then

host    == <<kind, req, waiting, got, sends>>
usb     == <<rx, status>>
answer  == <<tx, crc, stick20, sendData>>
box     == <<mailbox, string>>
card    == <<ccid, accesses>>
task    == <<pc, loop, cmd>>
vars    == <<host, usb, answer, box, card, task, execs>>

Requests == 1 .. MaxRequests

\* A Stick 1.0 command; Stick 2.0 commands that run to the end of HID_ExcuteCmd, ask for the
\* device status, ask for the smartcard's usage, or carry a matrix password.
Kinds == {"now", "job", "status", "check", "matrix"}
Stick20 == Kinds \ {"now"}

-----------------------------------------------------------------------------
(* Answers *)

Zero     == [cmd |-> 0, st |-> "zero"]
Own(i)   == [cmd |-> i, st |-> "own"]
States   == {"idle", "busy", "progress", "ok", "error"}
Fields   == [cmd : 0 .. MaxRequests, st : States \cup {"zero", "own"}]
Buffers  == [for : 0 .. MaxRequests, field : Fields]

Valid == crc = tx

\* What a GetReport delivers: bytes 25 ff. are overwritten and the CRC is computed anew, of
\* the copy, when status data are to be sent.
Delivered == [for |-> tx.for, field |-> tx.field, data |-> sendData, valid |-> Valid \/ sendData]

\* The host knows its answer by the CRC, and waits for a Stick 2.0 command to be done.
Acceptable ==
  /\ waiting /\ Delivered.valid /\ Delivered.for = req
  /\ kind[req] \in Stick20 => Delivered.field.st \notin {"busy", "progress"}

Init ==
  /\ kind = [i \in Requests |-> "now"]
  /\ req = 0 /\ waiting = FALSE
  /\ got = [for |-> 0, field |-> Zero, data |-> FALSE, valid |-> TRUE]
  /\ rx = 0 /\ status = "ready"
  /\ pc = "otp" /\ loop = 0 /\ cmd = 0
  /\ tx = [for |-> 0, field |-> [cmd |-> 0, st |-> "idle"]]
  /\ crc = [for |-> 0, field |-> Zero]
  /\ stick20 = [cmd |-> 0, st |-> "idle"]
  /\ mailbox = 0 /\ string = 0 /\ sendData = FALSE
  /\ ccid = FALSE /\ accesses = 0
  /\ sends = [i \in Requests |-> 0] /\ execs = [i \in Requests |-> 0]

-----------------------------------------------------------------------------
(* The host and the USB task *)

\* Keyboard_SetReport_Feature: the flag is raised whatever it was.
SetReport(i) == rx' = i /\ status' = "received"

NewRequest ==
  /\ ~waiting /\ req < MaxRequests
  /\ \E k \in Kinds : kind' = [kind EXCEPT ![req + 1] = k]
  /\ req' = req + 1 /\ waiting' = TRUE
  /\ sends' = [sends EXCEPT ![req + 1] = 1]
  /\ SetReport(req + 1)
  /\ UNCHANGED <<got, answer, box, card, task, execs>>

\* The host loses patience before the answer is there.
SendAgain ==
  /\ waiting /\ sends[req] < MaxSends
  /\ sends' = [sends EXCEPT ![req] = @ + 1]
  /\ SetReport(req)
  /\ UNCHANGED <<kind, req, waiting, got, answer, box, card, task, execs>>

\* The device has nothing to do and the answer is not there: the report was lost.
SendLost ==
  /\ waiting /\ status = "ready" /\ pc = "otp" /\ ~Acceptable
  /\ stick20.st # "busy" \/ mailbox = 0
  /\ SetReport(req)
  /\ UNCHANGED <<host, answer, box, card, task, execs>>

\* Mutant: Stick20HIDSendAccessStatusData leaves its state as it is.
AcceptKeepsSending ==
  /\ Acceptable
  /\ got' = Delivered
  /\ waiting' = FALSE
  /\ UNCHANGED <<kind, req, sends, usb, tx, crc, stick20, sendData, box, card, task, execs>>

\* Keyboard_GetReport_Feature, with an answer the host accepts ...
Accept ==
  /\ Acceptable
  /\ got' = Delivered
  /\ waiting' = FALSE
  /\ sendData' = FALSE
  /\ UNCHANGED <<kind, req, sends, usb, tx, crc, stick20, box, card, task, execs>>

\* ... and with one it does not: status data are gone all the same.
PollInVain ==
  /\ waiting /\ ~Acceptable /\ sendData
  /\ sendData' = FALSE
  /\ UNCHANGED <<host, usb, tx, crc, stick20, box, card, task, execs>>

\* The CCID task takes the smartcard, and leaves it.
CcidBegins ==
  /\ ~ccid /\ accesses < MaxAccesses
  /\ ccid' = TRUE /\ accesses' = accesses + 1
  /\ UNCHANGED <<host, usb, answer, box, task, execs>>

CcidEnds ==
  /\ ccid /\ ccid' = FALSE
  /\ UNCHANGED <<host, usb, answer, box, accesses, task, execs>>

-----------------------------------------------------------------------------
(* The IW task: OTP_main and parse_report *)

At(here) == pc = here

\* The flag is lowered; parse_report notes the command.
TakeReport ==
  /\ At("otp") /\ status = "received"
  /\ status' = "busy" /\ cmd' = rx /\ pc' = "crc"
  /\ UNCHANGED <<host, rx, answer, box, card, loop, execs>>

\* The answer is cleared, the CRC of the report copied to it and checked.
CheckCrc ==
  /\ At("crc")
  /\ tx' = [for |-> rx, field |-> Zero] /\ pc' = "handle"
  /\ UNCHANGED <<host, usb, crc, stick20, sendData, box, card, loop, cmd, execs>>

\* A Stick 1.0 command is executed, and its result is the answer.
ExecuteNow ==
  /\ At("handle") /\ kind[cmd] = "now"
  /\ execs' = [execs EXCEPT ![cmd] = @ + 1]
  /\ tx' = [tx EXCEPT !.field = Own(cmd)] /\ pc' = "seal"
  /\ UNCHANGED <<host, usb, crc, stick20, sendData, box, card, loop, cmd>>

\* StartStick20Command
StartStick20Command(i) == [cmd |-> i, st |-> "busy"]

\* A Stick 2.0 command goes to the mailbox, and its payload, read from rx only now.
PostCommand ==
  /\ At("handle") /\ kind[cmd] \in Stick20
  /\ stick20' = StartStick20Command(cmd)
  /\ tx' = [tx EXCEPT !.field = stick20']
  /\ mailbox' = cmd /\ string' = rx /\ pc' = "seal"
  /\ UNCHANGED <<host, usb, crc, sendData, card, loop, cmd, execs>>

\* The CRC of the answer is computed.
SealAnswer ==
  /\ At("seal")
  /\ crc' = tx /\ pc' = "parsed"
  /\ UNCHANGED <<host, usb, tx, stick20, sendData, box, card, loop, cmd, execs>>

\* OTP_main lowers the flag again, whether or not a report has come in since.
ReportDone ==
  /\ At("parsed")
  /\ status' = "ready" /\ pc' = "turn"
  /\ UNCHANGED <<host, rx, answer, box, card, loop, cmd, execs>>

NoReport ==
  /\ At("otp") /\ status # "received"
  /\ pc' = "turn"
  /\ UNCHANGED <<host, usb, answer, box, card, loop, cmd, execs>>

\* Mutant: the turns are counted and never taken modulo Period.
TurnCounts ==
  /\ At("turn")
  /\ loop' = loop + 1
  /\ pc' = IF loop' = Period THEN "exec" ELSE "otp"
  /\ UNCHANGED <<host, usb, answer, box, card, cmd, execs>>

\* IW_task calls HID_ExcuteCmd every Period turns.
Turn ==
  /\ At("turn")
  /\ loop' = (loop + 1) % Period
  /\ pc' = IF loop' = 0 THEN "exec" ELSE "otp"
  /\ UNCHANGED <<host, usb, answer, box, card, cmd, execs>>

-----------------------------------------------------------------------------
(* The IW task: HID_ExcuteCmd *)

\* UpdateStick20Command, up to its CRC
Update(st) ==
  /\ stick20' = [stick20 EXCEPT !.st = st]
  /\ tx' = [tx EXCEPT !.field = stick20']

In(kinds) == mailbox # 0 /\ kind[mailbox] \in kinds

\* The smartcard's usage is told even while it is used, and the mailbox not cleared.
CheckUsage ==
  /\ At("exec") /\ In({"check"})
  /\ Update(IF ccid THEN "error" ELSE "ok")
  /\ pc' = "sealReturn"
  /\ UNCHANGED <<host, usb, crc, sendData, box, card, loop, cmd, execs>>

\* Any other command waits until the card is free.
CardInUse ==
  /\ At("exec") /\ ~In({"check"}) /\ ccid
  /\ pc' = "otp"
  /\ UNCHANGED <<host, usb, answer, box, card, loop, cmd, execs>>

Free == At("exec") /\ ~ccid

\* A matrix password is refused, and the mailbox not cleared.
RefuseMatrix ==
  /\ Free /\ In({"matrix"})
  /\ Update("error")
  /\ pc' = "sealReturn"
  /\ UNCHANGED <<host, usb, crc, sendData, box, card, loop, cmd, execs>>

NothingToDo ==
  /\ Free /\ mailbox = 0
  /\ pc' = "clear"
  /\ UNCHANGED <<host, usb, answer, box, card, loop, cmd, execs>>

\* HTML_CMD_GET_DEVICE_STATUS: Stick20HIDInitSendConfiguration, then the status.
PrepareStatus ==
  /\ Free /\ In({"status"})
  /\ sendData' = TRUE /\ pc' = "run"
  /\ UNCHANGED <<host, usb, tx, crc, stick20, box, card, loop, cmd, execs>>

BeginJob ==
  /\ Free /\ In({"job"})
  /\ pc' = "run"
  /\ UNCHANGED <<host, usb, answer, box, card, loop, cmd, execs>>

\* A long job reports its progress ...
Progress ==
  /\ At("run") /\ In({"job"}) /\ stick20.st = "busy"
  /\ Update("progress") /\ pc' = "sealRun"
  /\ UNCHANGED <<host, usb, crc, sendData, box, card, loop, cmd, execs>>

\* ... and every one its end.
EndCommand ==
  /\ At("run")
  /\ \E st \in {"ok", "error"} : Update(st)
  /\ execs' = [execs EXCEPT ![mailbox] = @ + 1]
  /\ pc' = "sealClear"
  /\ UNCHANGED <<host, usb, crc, sendData, box, card, loop, cmd>>

\* Mutant: UpdateStick20Command leaves the CRC as it is.
UpdateWithoutCrc ==
  /\ \/ At("sealReturn") /\ pc' = "otp"
     \/ At("sealRun")    /\ pc' = "run"
     \/ At("sealClear")  /\ pc' = "clear"
  /\ UNCHANGED <<host, usb, answer, box, card, loop, cmd, execs>>

\* The CRC of UpdateStick20Command
SealUpdate ==
  /\ \/ At("sealReturn") /\ pc' = "otp"
     \/ At("sealRun")    /\ pc' = "run"
     \/ At("sealClear")  /\ pc' = "clear"
  /\ crc' = tx
  /\ UNCHANGED <<host, usb, tx, stick20, sendData, box, card, loop, cmd, execs>>

\* Mutant: the mailbox is left as it is.
ClearStringOnly ==
  /\ At("clear")
  /\ string' = 0 /\ pc' = "otp"
  /\ UNCHANGED <<host, usb, answer, mailbox, card, loop, cmd, execs>>

\* The end of HID_ExcuteCmd
Clear ==
  /\ At("clear")
  /\ mailbox' = 0 /\ string' = 0 /\ pc' = "otp"
  /\ UNCHANGED <<host, usb, answer, card, loop, cmd, execs>>

IW ==
  \/ TakeReport \/ CheckCrc \/ ExecuteNow \/ PostCommand \/ SealAnswer \/ ReportDone
  \/ NoReport \/ Turn
  \/ CheckUsage \/ CardInUse \/ RefuseMatrix \/ NothingToDo \/ PrepareStatus \/ BeginJob
  \/ Progress \/ EndCommand \/ SealUpdate \/ Clear

Next == \/ NewRequest \/ SendAgain \/ SendLost \/ Accept \/ PollInVain
        \/ CcidBegins \/ CcidEnds \/ IW

Spec == Init /\ [][Next]_vars

\* The IW task never blocks for ever, CCID accesses end, and the host goes on polling and
\* repeats a request that was lost.
Fairness == WF_vars(IW) /\ WF_vars(CcidEnds) /\ WF_vars(Accept) /\ SF_vars(SendLost)

FairSpec == Spec /\ Fairness

-----------------------------------------------------------------------------
(* Properties *)

TypeOK ==
  /\ kind \in [Requests -> Kinds]
  /\ req \in 0 .. MaxRequests /\ waiting \in BOOLEAN
  /\ got \in [for : 0 .. MaxRequests, field : Fields, data : BOOLEAN, valid : BOOLEAN]
  /\ rx \in 0 .. MaxRequests /\ status \in {"ready", "received", "busy"}
  /\ pc \in {"otp", "crc", "handle", "seal", "parsed", "turn", "exec", "run",
             "sealReturn", "sealRun", "sealClear", "clear"}
  /\ loop \in 0 .. Period - 1 /\ cmd \in 0 .. MaxRequests
  /\ tx \in Buffers /\ crc \in Buffers /\ stick20 \in Fields
  /\ mailbox \in 0 .. MaxRequests /\ string \in 0 .. MaxRequests
  /\ sendData \in BOOLEAN /\ ccid \in BOOLEAN /\ accesses \in 0 .. MaxAccesses
  /\ sends \in [Requests -> 0 .. MaxSends] /\ execs \in [Requests -> Nat]

\* The host repeated a request without need, or sent one that stays in the mailbox.
Disturbed == \E i \in Requests : \/ sends[i] > 1
                                 \/ sends[i] > 0 /\ kind[i] \in {"check", "matrix"}

\* However reports, polls and CCID accesses interleave with the two halves of the IW task,
\* the host accepts for a request the answer to that request: a Stick 1.0 answer with none
\* of its bytes overwritten by HID_ExcuteCmd, a Stick 2.0 answer with its own status.
AnswersAreOwn ==
  got.for # 0 /\ ~Disturbed =>
    IF kind[got.for] = "now" THEN got.field = Own(got.for) /\ ~got.data
                             ELSE got.field.cmd = got.for /\ got.field.st \in {"ok", "error"}

\* The host never takes a command for done that was not: what it has accepted was executed.
AcceptedWasExecuted == got.for # 0 /\ ~Disturbed => execs[got.for] > 0

\* No command is executed more often than it was sent without need, and once: a report that
\* is lost, overwritten, or parsed while another arrives is never executed a second time.
ExecutedAtMostAsSent == \A i \in Requests : execs[i] <= sends[i]

\* A command is executed as often as the host has reason to think: before it is answered, and
\* not more often than it was sent.
ExecutedAsSent == AcceptedWasExecuted /\ ExecutedAtMostAsSent

\* A patient host that repeats a lost request gets its answer in the end.
EveryRequestIsAnswered == waiting ~> ~waiting
=============================================================================
