----------------------------- MODULE HotpCounter -----------------------------
(***************************************************************************)
(* The HOTP counters of src/src/OTP/hotp.c.                                *)
(*                                                                         *)
(* Flash can only be cleared bit by bit and set page by page, so a slot's  *)
(* counter is a base value followed by a run of one-byte tokens: using a   *)
(* code clears one token, and when all tokens are used the page is erased  *)
(* and rewritten with a new base.  Every action below is the part of a     *)
(* handler up to and including ONE command to the flash controller, so     *)
(* that power may be cut (PowerLoss) between any two of them.              *)
(*                                                                         *)
(* A code is named by the counter value it is computed from (get_hotp_     *)
(* value is a pure function of secret and counter).                        *)
(***************************************************************************)
EXTENDS Integers

CONSTANTS
  Slots,        \* HOTP slots; NUMBER_OF_HOTP_SLOTS = 4 in the code
  VerifySlot,   \* the slot reserved for cmd_verify_code; slot 3 in the code
  Tokens,       \* TOKEN_PER_FLASHPAGE, 504 in the code
  LookAhead,    \* calculate_ahead_values, 10 in the code
  Modulus,      \* the counter is an unsigned number below Modulus; 2^64
  Seeds,        \* counter values the host programs
  MaxCounter,   \* bound: a counter is not used beyond this value
  MaxCut        \* bound: power losses between two codes of a slot

ASSUME CounterAssumption ==
  /\ VerifySlot \in Slots
  /\ Tokens \in Nat /\ LookAhead \in Nat
  /\ 0 < LookAhead /\ LookAhead <= Tokens
  /\ MaxCounter \in Nat /\ Modulus \in Nat /\ MaxCut \in Nat
  /\ MaxCounter + 1 < Modulus /\ Tokens < Modulus
  /\ Seeds \subseteq 0 .. MaxCounter

VARIABLES
  programmed,  \* programmed[s]: the slot record has type 'H'
  page,        \* page[s]: the counter page, a base and the number of used tokens
  op,          \* the command being executed; lost when power is cut
  last,        \* history: the code slot s handed out (or accepted) last
  times,       \* history: how often it did so
  torn,        \* history: power was cut while the counter page or the slot was rewritten
  cut          \* history: power losses in a command on s since its last code

vars == <<programmed, page, op, last, times, torn, cut>>

-----------------------------------------------------------------------------
(* The counter page *)

Pages == [base : 0 .. Modulus - 1, used : 0 .. Tokens]

\* An erased page reads 0xFF everywhere: the base is 2^64 - 1, no token is used.
Erased == [base |-> Modulus - 1, used |-> 0]

\* u64 arithmetic on numbers below 2 * Modulus.
Wrap(n) == IF n < Modulus THEN n ELSE n - Modulus

\* get_counter_value: base plus the tokens before the first 0xFF.
Value(p) == Wrap(p.base + p.used)

\* Mutant: the page is taken to hold one more token than it does.
FullMissed(p) == p.used = Tokens + 1

\* ptr[FLASH_PAGE_SIZE - 1] == 0x00
Full(p) == p.used = Tokens

\* The counter is not driven past MaxCounter (an erased page wraps to 0 first).
InRange(s) == \/ Value(page[s]) + LookAhead <= MaxCounter
              \/ Value(page[s]) = Modulus - 1

-----------------------------------------------------------------------------
(* Commands *)

Kinds == {"none", "get", "verify", "program"}
Ops == [kind : Kinds, slot : Slots, code : 0 .. Modulus - 1, left : 0 .. LookAhead,
        step : {"increment", "rewrite"}, saved : Pages]

\* A command on slot s for code c that is to increment the counter n times.
Command(kind, s, c, n) == [kind |-> kind, slot |-> s, code |-> c, left |-> n,
                           step |-> "increment", saved |-> Erased]

Idle == Command("none", VerifySlot, 0, 0)

Init ==
  /\ programmed = [s \in Slots |-> FALSE]
  /\ page  = [s \in Slots |-> Erased]
  /\ op    = Idle
  /\ last  = [s \in Slots |-> -1]
  /\ times = [s \in Slots |-> 0]
  /\ torn  = [s \in Slots |-> TRUE]
  /\ cut   = [s \in Slots |-> 0]

\* History: the codes of s up to now no longer count.
Forget(s) ==
  /\ last'  = [last EXCEPT ![s] = -1]
  /\ times' = [times EXCEPT ![s] = 0]

\* Mutant: the counter is incremented before and after the code is computed.
GetCodeTwice(s) ==
  /\ op = Idle /\ programmed[s] /\ s # VerifySlot /\ InRange(s)
  /\ op' = Command("get", s, Value(page[s]), 2)
  /\ UNCHANGED <<programmed, page, last, times, torn, cut>>

\* get_code_from_hotp_slot, for cmd_get_code and send_hotp_slot: the code is computed
\* first, then the counter is incremented once, then the code is returned.
GetCode(s) ==
  /\ op = Idle /\ programmed[s] /\ s # VerifySlot /\ InRange(s)
  /\ op' = Command("get", s, Value(page[s]), 1)
  /\ UNCHANGED <<programmed, page, last, times, torn, cut>>

\* validate_code_from_hotp_slot finds the submitted code k values ahead and increments the
\* counter k + 1 times.  A code outside the window changes nothing.
VerifyCode(k) ==
  LET s == VerifySlot IN
  /\ op = Idle /\ programmed[s] /\ InRange(s)
  /\ op' = Command("verify", s, Wrap(Value(page[s]) + k), k + 1)
  /\ UNCHANGED <<programmed, page, last, times, torn, cut>>

\* cmd_write_to_slot calls set_counter_value before it writes the slot record.
Program(s, c) ==
  /\ op = Idle
  /\ op' = [kind |-> "program", slot |-> s, code |-> c, left |-> 1,
            step |-> "rewrite", saved |-> [base |-> c, used |-> 0]]
  /\ page' = [page EXCEPT ![s] = Erased]
  /\ Forget(s)
  /\ UNCHANGED <<programmed, torn, cut>>

\* cmd_erase_slot clears the slot record.  erase_counter hands flashc_erase_page the
\* counter's ADDRESS, which as an int is negative: the controller then erases the page it
\* wrote last (a backup page) and the counter page stays as it is.
EraseSlot(s) ==
  /\ op = Idle
  /\ programmed' = [programmed EXCEPT ![s] = FALSE]
  /\ UNCHANGED <<page, op, last, times, torn, cut>>

-----------------------------------------------------------------------------
(* increment_counter_page, one flash command at a time *)

Incrementing == op.left > 0 /\ op.step = "increment"

\* The first free token is cleared.
MarkToken ==
  LET s == op.slot IN
  /\ Incrementing /\ ~Full(page[s])
  /\ page' = [page EXCEPT ![s].used = @ + 1]
  /\ op' = [op EXCEPT !.left = @ - 1]
  /\ UNCHANGED <<programmed, last, times, torn, cut>>

\* The token did not read back as 0: the page is erased to be written anew with it.
MarkTokenFails ==
  LET s == op.slot IN
  /\ Incrementing /\ ~Full(page[s])
  /\ op' = [op EXCEPT !.step = "rewrite", !.saved = [page[s] EXCEPT !.used = @ + 1]]
  /\ page' = [page EXCEPT ![s] = Erased]
  /\ UNCHANGED <<programmed, last, times, torn, cut>>

\* All tokens are used: the page is erased to be written anew with the counter as base.  The
\* code saves the base first, in the first backup page of the slots, which nothing reads back:
\* it is no state here, and what it does to that backup is in OtpSlotPages (ClearBackup).
EraseFullPage ==
  LET s == op.slot IN
  /\ Incrementing /\ Full(page[s])
  /\ op' = [op EXCEPT !.step = "rewrite", !.saved = [base |-> Value(page[s]), used |-> 0]]
  /\ page' = [page EXCEPT ![s] = Erased]
  /\ UNCHANGED <<programmed, last, times, torn, cut>>

\* Mutant: only the base is written back, not the tokens.
WriteBackBaseOnly ==
  /\ op.step = "rewrite"
  /\ page' = [page EXCEPT ![op.slot] = [op.saved EXCEPT !.used = 0]]
  /\ op' = [op EXCEPT !.step = "increment", !.left = @ - 1]
  /\ UNCHANGED <<programmed, last, times, torn, cut>>

\* The page image is written to the erased page.
WriteBack ==
  /\ op.step = "rewrite"
  /\ page' = [page EXCEPT ![op.slot] = op.saved]
  /\ op' = [op EXCEPT !.step = "increment", !.left = @ - 1]
  /\ UNCHANGED <<programmed, last, times, torn, cut>>

-----------------------------------------------------------------------------
(* The end of a command, and the cut of power *)

\* The code, or the verdict on it, is returned.
ReturnCode ==
  LET s == op.slot IN
  /\ op.kind \in {"get", "verify"} /\ op.left = 0
  /\ \/ /\ ~torn[s]
        /\ last'  = [last EXCEPT ![s] = op.code]
        /\ times' = [times EXCEPT ![s] = IF op.code = last[s] THEN @ + 1 ELSE 1]
     \/ torn[s] /\ UNCHANGED <<last, times>>
  /\ cut'   = [cut EXCEPT ![s] = 0]
  /\ op' = Idle
  /\ UNCHANGED <<programmed, page, torn>>

\* write_to_slot stores the record (its own flash commands are OtpSlotPages's subject).
WriteSlot ==
  LET s == op.slot IN
  /\ op.kind = "program" /\ op.left = 0
  /\ programmed' = [programmed EXCEPT ![s] = TRUE]
  /\ last'  = [last EXCEPT ![s] = op.code - 1]
  /\ times' = [times EXCEPT ![s] = 0]
  /\ torn'  = [torn EXCEPT ![s] = FALSE]
  /\ cut'   = [cut EXCEPT ![s] = 0]
  /\ op' = Idle
  /\ UNCHANGED page

\* Power is cut: RAM is lost, flash stays as the last command left it.
PowerLoss ==
  LET s == op.slot IN
  /\ op # Idle /\ cut[s] < MaxCut
  /\ \/ /\ op.step = "rewrite" \/ op.kind = "program"
        /\ torn' = [torn EXCEPT ![s] = TRUE]
        /\ Forget(s)
     \/ /\ op.step # "rewrite" /\ op.kind # "program"
        /\ UNCHANGED <<torn, last, times>>
  /\ cut'  = [cut EXCEPT ![s] = @ + 1]
  /\ op' = Idle
  /\ UNCHANGED <<programmed, page>>

Next ==
  \/ \E s \in Slots : GetCode(s) \/ EraseSlot(s)
  \/ \E s \in Slots, c \in Seeds : Program(s, c)
  \/ \E k \in 0 .. LookAhead - 1 : VerifyCode(k)
  \/ MarkToken \/ MarkTokenFails \/ EraseFullPage \/ WriteBack
  \/ ReturnCode \/ WriteSlot \/ PowerLoss

Spec == Init /\ [][Next]_vars

-----------------------------------------------------------------------------
(* Properties *)

TypeOK ==
  /\ programmed \in [Slots -> BOOLEAN]
  /\ page  \in [Slots -> Pages]
  /\ op    \in Ops
  /\ last  \in [Slots -> -1 .. Modulus - 1]
  /\ times \in [Slots -> Nat]
  /\ torn  \in [Slots -> BOOLEAN]
  /\ cut   \in [Slots -> 0 .. MaxCut]

\* The slot whose counter page is being rewritten has its number in RAM only.
Rewriting(s) == op.slot = s /\ op.step = "rewrite"

\* The counter of s as the command under way will leave it if it takes no further token.
Image(s) == IF Rewriting(s) THEN op.saved ELSE page[s]
Counter(s) == Value(Image(s))

\* s is being programmed, or was left half programmed, or lost its counter page.
Undefined(s) == torn[s] \/ (op.kind = "program" /\ op.slot = s)

\* No code is handed out three times and none from beyond the counter, however often power
\* is cut: when a page fills up the increment only moves the tokens into the base
\* (increment_counter_page), so one code may come twice, but never more often.
NoCodeMoreThanTwice ==
  \A s \in Slots : ~Undefined(s) => times[s] <= 2 /\ last[s] <= Counter(s)

\* The counter of a slot that only hands out codes is never further ahead of the last one
\* than the power losses since (and the command under way) account for: a server that
\* looks that many codes ahead stays in step.
NoGapWithoutPowerLoss ==
  \A s \in Slots \ {VerifySlot} :
    ~Undefined(s) => Counter(s) <= last[s] + 1 + cut[s]
                       + IF op.slot = s /\ op.kind = "get" THEN 1 ELSE 0

\* A slot never falls back to an older code: no command, no retry of a token and no cut of
\* power between two flash commands, other than one that tears the page, takes it back.
CodesNeverGoBack ==
  [][\A s \in Slots : ~Undefined(s) /\ ~Undefined(s)' => last'[s] >= last[s]]_vars

\* The multi-step flash protocol implements the atomic service.
CONSTANT Unknown
ASSUME UnknownAssumption == Unknown \notin Int
Service == INSTANCE HotpService WITH
  Codes <- 0 .. Modulus - 1,
  value <- [s \in Slots |-> IF Undefined(s) THEN Unknown ELSE Counter(s)]
RefinesService == Service!Spec
=============================================================================
