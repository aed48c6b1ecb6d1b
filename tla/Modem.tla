------------------------------- MODULE Modem -------------------------------
(***************************************************************************)
(* How the board gets on line: PyrnUSBModem::connect, called by the main   *)
(* thread, ATCommandsInterface::execute, the AT thread behind it,          *)
(* USBSerialStream between that thread and the dongle, PPPIPInterface's    *)
(* wait for the link, and the watchdog that is started before and fed      *)
(* only after.                                                             *)
(*                                                                         *)
(* Main and AT thread share two mails of one slot: env2AT brings commands  *)
(* and cancellations, AT2Env says that a result is there.  A slot is taken *)
(* by alloc and free again after free.  The AT thread sleeps in            *)
(* waitAvailable on a semaphore that arriving data and abortRead release.  *)
(*                                                                         *)
(* The dongle is external: it takes commands one after the other, echoes   *)
(* each and answers it line by line, as late as it likes or not at all.    *)
(* A line is [kind, cmd]: kind says what it is, cmd which command it       *)
(* answers (text of an echo, history otherwise).  Lines are taken whole.   *)
(*                                                                         *)
(* Time goes in ticks of 100 ms.  The AT thread needs none: no tick passes *)
(* while it can run.  The main thread may be late.                         *)
(***************************************************************************)
EXTENDS Integers, Sequences

CONSTANTS Timeout,        \* of execute, in ticks, for every command
          Pause,          \* ticks between two attempts
          InitTries, PinTries, ApnTries, ConnectTries,
          Polls,          \* of the PPP link, one tick apart
          WatchdogTime,   \* ticks
          StreamSize,     \* lines in m_inBuf
          DongleQueue     \* commands written and not yet taken by the dongle

Command == {"ATZ", "AT+CMEE", "AT+CPIN?", "AT+CPIN=", "AT+CREG?", "AT+CGDCONT"}
PinStatus == {"STATUS_READY", "STATUS_SIMPIN", "STATUS_SIMPUK"}
RegStatus == {"STATUS_REGISTERING", "STATUS_OK", "STATUS_FAILED"}
Final == {"OK", "ERROR", "CME 14"}

(* 600 polls of 100 ms are as long as the 60 s of the watchdog. *)
ASSUME ModemAssumption ==
  /\ Timeout \in [Command -> Nat \ {0}]
  /\ {Pause, InitTries, PinTries, ApnTries, ConnectTries, Polls, WatchdogTime, StreamSize,
      DongleQueue} \subseteq Nat \ {0}
  /\ WatchdogTime <= Polls

VARIABLES
  mpc, cmd, wait,              \* the main thread: where, in which command, ticks to wait
  ret, code,                   \* what execute returned; result.code of init
  tries, retries,              \* of the loop it is in
  transactionCommand, processor, pinStatus, regStatus,
  env2AT, AT2Env,              \* the mails: a message or "none"; a result is there
  apc, lines, transactionState, transactionResult,    \* the AT thread
  inBuf, available,            \* the stream: m_inBuf, m_availableSphre
  toDongle, reply,             \* the dongle
  connected,                   \* of the PPP interface
  watchdog,                    \* ticks left
  got, wasConnected, refused   \* history: the command whose result execute returned, whether
                               \* the link came up, and PINs refused since the last boot

loopVars == <<tries, retries>>
procVars == <<transactionCommand, processor, pinStatus, regStatus>>
mailVars == <<env2AT, AT2Env>>
atVars == <<apc, lines, transactionState, transactionResult>>
streamVars == <<inBuf, available>>
dongleVars == <<toDongle, reply, refused>>
linkVars == <<connected, wasConnected>>
resultVars == <<ret, code, got>>
vars == <<mpc, cmd, wait, resultVars, loopVars, procVars, mailVars, atVars, streamVars, dongleVars,
          linkVars, watchdog>>

Line(kind, c) == [kind |-> kind, cmd |-> c]
NoResult == Line("none", "none")

(* result.code is read before it is written when the first command times out.  *)
Init ==
  /\ mpc = "dongle" /\ cmd = "none" /\ wait = 0
  /\ ret = "OK" /\ code \in {0, 14} /\ got = "none"
  /\ tries = ConnectTries /\ retries = 0
  /\ transactionCommand = "none" /\ processor = "none"
  /\ pinStatus = "STATUS_NONE" /\ regStatus = "STATUS_REGISTERING"
  /\ env2AT = "none" /\ AT2Env = FALSE
  /\ apc = "closed" /\ lines = <<>> /\ transactionState = "IDLE" /\ transactionResult = NoResult
  /\ inBuf = <<>> /\ available = 0
  /\ toDongle = <<>> /\ reply = <<>> /\ refused = 0
  /\ connected = FALSE /\ wasConnected = FALSE
  /\ watchdog = WatchdogTime

(* NVIC_SystemReset, or the watchdog's: the board's memory starts anew, what   *)
(* the dongle is about to say does not.                                        *)
Reset ==
  /\ mpc = "reset" \/ watchdog = 0
  /\ mpc' = "dongle" /\ cmd' = "none" /\ wait' = 0
  /\ ret' = "OK" /\ code' \in {0, 14} /\ got' = "none"
  /\ tries' = ConnectTries /\ retries' = 0
  /\ transactionCommand' = "none" /\ processor' = "none"
  /\ pinStatus' = "STATUS_NONE" /\ regStatus' = "STATUS_REGISTERING"
  /\ env2AT' = "none" /\ AT2Env' = FALSE
  /\ apc' = "closed" /\ lines' = <<>> /\ transactionState' = "IDLE" /\ transactionResult' = NoResult
  /\ inBuf' = <<>> /\ available' = 0
  /\ toDongle' = <<>> /\ UNCHANGED reply /\ refused' = 0
  /\ connected' = FALSE /\ wasConnected' = FALSE
  /\ watchdog' = WatchdogTime

-----------------------------------------------------------------------------
(* execute, in the main thread.                                                *)

(* executeSimple's processor is the interface itself, which ignores lines. *)
ProcessorOf(c) == IF c \in {"AT+CPIN?", "AT+CREG?"} THEN c ELSE "none"

(* Mutant: the FIXME is fixed by leaving the 100 ms out. *)
ExecuteBeginAtOnce ==
  /\ mpc = "execute"
  /\ AT2Env' = FALSE
  /\ transactionCommand' = cmd /\ processor' = ProcessorOf(cmd)
  /\ pinStatus' = IF cmd = "AT+CPIN?" THEN "STATUS_NONE" ELSE pinStatus
  /\ mpc' = "ready"
  /\ UNCHANGED <<cmd, wait, resultVars, loopVars, regStatus, env2AT, atVars, streamVars, dongleVars,
                 linkVars, watchdog>>

(* A result that came too late is discarded, the command is published, and the *)
(* thread waits for 100 ms.  CPINProcessor is constructed anew per command.    *)
ExecuteBegin ==
  /\ mpc = "execute"
  /\ AT2Env' = FALSE
  /\ transactionCommand' = cmd /\ processor' = ProcessorOf(cmd)
  /\ pinStatus' = IF cmd = "AT+CPIN?" THEN "STATUS_NONE" ELSE pinStatus
  /\ wait' = 1
  /\ mpc' = "ready"
  /\ UNCHANGED <<cmd, resultVars, loopVars, regStatus, env2AT, atVars, streamVars, dongleVars,
                 linkVars, watchdog>>

(* alloc(osWaitForever) and put, to say that a command is there or given up. *)
PutMail(from, message, to) ==
  /\ mpc = from /\ wait = 0
  /\ env2AT = "none"
  /\ env2AT' = message
  /\ mpc' = to
  /\ UNCHANGED <<cmd, wait, resultVars, loopVars, procVars, AT2Env, atVars, streamVars, dongleVars,
                 linkVars, watchdog>>
PutReady == PutMail("ready", "AT_CMD_READY", "abort")
PutTimeout == PutMail("cancel", "AT_TIMEOUT", "abortCancel")

(* abortRead, to make the AT thread look; then the result is waited for. *)
AbortRead ==
  /\ mpc = "abort"
  /\ available' = available + 1
  /\ wait' = Timeout[cmd]
  /\ mpc' = "result"
  /\ UNCHANGED <<cmd, resultVars, loopVars, procVars, mailVars, atVars, inBuf, dongleVars, linkVars,
                 watchdog>>

(* The result is there. *)
GetResult ==
  /\ mpc = "result"
  /\ AT2Env
  /\ AT2Env' = FALSE
  /\ ret' = IF transactionResult.kind = "OK" THEN "OK" ELSE "NET_MOREINFO"
  /\ code' = IF cmd # "AT+CPIN?" THEN code            \* pResult is NULL, or another result
             ELSE IF transactionResult.kind = "CME 14" THEN 14 ELSE 0
  /\ got' = transactionResult.cmd
  /\ wait' = 0
  /\ mpc' = "return"
  /\ UNCHANGED <<cmd, loopVars, procVars, env2AT, atVars, streamVars, dongleVars, linkVars, watchdog>>

(* It is not there in time: the request is cancelled. *)
GetTimeout ==
  /\ mpc = "result" /\ wait = 0
  /\ ~AT2Env
  /\ mpc' = "cancel"
  /\ UNCHANGED <<cmd, wait, resultVars, loopVars, procVars, mailVars, atVars, streamVars, dongleVars,
                 linkVars, watchdog>>

AbortCancel ==
  /\ mpc = "abortCancel"
  /\ available' = available + 1
  /\ ret' = "NET_TIMEOUT" /\ got' = "none"
  /\ mpc' = "return"
  /\ UNCHANGED <<cmd, wait, code, loopVars, procVars, mailVars, atVars, inBuf, dongleVars, linkVars,
                 watchdog>>

-----------------------------------------------------------------------------
(* The AT thread.                                                              *)
ATUnchanged == UNCHANGED <<mpc, cmd, wait, resultVars, loopVars, transactionCommand, processor,
                           linkVars, watchdog>>

(* process: drop everything; a read that finds nothing takes one release. *)
ATStart ==
  /\ apc = "start"
  /\ inBuf' = <<>>
  /\ available' = IF inBuf # <<>> \/ available = 0 THEN 0 ELSE available - 1
  /\ apc' = "wait"
  /\ UNCHANGED <<pinStatus, regStatus, mailVars, lines, transactionState, transactionResult,
                 dongleVars>>
  /\ ATUnchanged

(* waitAvailable: data clears the semaphore; a release without data            *)
(* interrupts tryReadLine.                                                     *)
ATWait ==
  /\ apc = "wait"
  /\ \/ /\ inBuf # <<>>
        /\ available' = 0
        /\ apc' = "read"
     \/ /\ inBuf = <<>> /\ available > 0
        /\ available' = available - 1
        /\ apc' = "send"
  /\ UNCHANGED <<pinStatus, regStatus, mailVars, lines, transactionState, transactionResult, inBuf,
                 dongleVars>>
  /\ ATUnchanged

(* read: the semaphore is cleared once more and the data taken. *)
ATRead ==
  /\ apc = "read"
  /\ available' = 0
  /\ lines' = inBuf /\ inBuf' = <<>>
  /\ apc' = "line"
  /\ UNCHANGED <<pinStatus, regStatus, mailVars, transactionState, transactionResult, dongleVars>>
  /\ ATUnchanged

(* Mutant: the echo of the command is not waited for. *)
ProcessReadLineNoEcho ==
  LET l == Head(lines)
  IN /\ apc = "line" /\ lines # <<>>
     /\ lines' = Tail(lines)
     /\ IF transactionState # "IDLE" /\ l.kind \in Final
        THEN apc' = "result" /\ transactionResult' = l /\ transactionState' = "IDLE"
        ELSE UNCHANGED <<apc, transactionResult, transactionState>>
     /\ pinStatus' = IF transactionState # "IDLE" /\ processor = "AT+CPIN?" /\ l.kind \in PinStatus
                     THEN l.kind ELSE pinStatus
     /\ regStatus' = IF transactionState # "IDLE" /\ processor = "AT+CREG?" /\ l.kind \in RegStatus
                     THEN l.kind ELSE regStatus
     /\ UNCHANGED <<mailVars, streamVars, dongleVars>>
     /\ ATUnchanged

(* processReadLine.  Behind the echo of the command every line is its answer:  *)
(* a final one ends the transaction, any other goes to the processor.  Without *)
(* the echo nothing is, and no product code handles events.                    *)
ProcessReadLine ==
  LET l == Head(lines)
      reading == transactionState = "READING_RESULT"
  IN /\ apc = "line" /\ lines # <<>>
     /\ lines' = Tail(lines)
     /\ transactionState' =
          CASE transactionState = "COMMAND_SENT" /\ l = Line("echo", transactionCommand)
                                            -> "READING_RESULT"
            [] reading /\ l.kind \in Final  -> "IDLE"
            [] OTHER                        -> transactionState
     /\ IF reading /\ l.kind \in Final
        THEN apc' = "result" /\ transactionResult' = l
        ELSE UNCHANGED <<apc, transactionResult>>
     /\ pinStatus' = IF reading /\ processor = "AT+CPIN?" /\ l.kind \in PinStatus
                     THEN l.kind ELSE pinStatus
     /\ regStatus' = IF reading /\ processor = "AT+CREG?" /\ l.kind \in RegStatus
                     THEN l.kind ELSE regStatus
     /\ UNCHANGED <<mailVars, streamVars, dongleVars>>
     /\ ATUnchanged

(* alloc(osWaitForever) and put of AT_RESULT_READY. *)
PutResult ==
  /\ apc = "result"
  /\ ~AT2Env
  /\ AT2Env' = TRUE
  /\ apc' = "line"
  /\ UNCHANGED <<pinStatus, regStatus, env2AT, lines, transactionState, transactionResult, streamVars,
                 dongleVars>>
  /\ ATUnchanged

LinesDone ==
  /\ apc = "line" /\ lines = <<>>
  /\ apc' = "send"
  /\ UNCHANGED <<pinStatus, regStatus, mailVars, lines, transactionState, transactionResult, streamVars,
                 dongleVars>>
  /\ ATUnchanged

(* trySendCommand: nothing to do; a cancellation; or a command.  The slot is   *)
(* freed when the command is written, and write waits for space for ever.      *)
TrySendNothing ==
  /\ apc = "send" /\ env2AT = "none"
  /\ apc' = "wait"
  /\ UNCHANGED <<pinStatus, regStatus, mailVars, lines, transactionState, transactionResult, streamVars,
                 dongleVars>>
  /\ ATUnchanged

TrySendTimeout ==
  /\ apc = "send" /\ env2AT = "AT_TIMEOUT"
  /\ transactionState' = "IDLE"
  /\ env2AT' = "none"
  /\ apc' = "wait"
  /\ UNCHANGED <<pinStatus, regStatus, AT2Env, lines, transactionResult, streamVars, dongleVars>>
  /\ ATUnchanged

TrySendCommand ==
  /\ apc = "send" /\ env2AT = "AT_CMD_READY"
  /\ Len(toDongle) < DongleQueue
  /\ toDongle' = Append(toDongle, transactionCommand)
  /\ transactionState' = "COMMAND_SENT"
  /\ env2AT' = "none"
  /\ apc' = "wait"
  /\ UNCHANGED <<pinStatus, regStatus, AT2Env, lines, transactionResult, streamVars, reply, refused>>
  /\ ATUnchanged

ATThread == \/ ATStart \/ ATWait \/ ATRead \/ ProcessReadLine \/ PutResult \/ LinesDone
            \/ TrySendNothing \/ TrySendTimeout \/ TrySendCommand

(* What it can wait for. *)
ATBlocked == \/ apc = "closed"
             \/ apc = "wait" /\ available = 0 /\ inBuf = <<>>
             \/ apc = "result" /\ AT2Env
             \/ apc = "send" /\ env2AT = "AT_CMD_READY" /\ Len(toDongle) = DongleQueue

-----------------------------------------------------------------------------
(* The dongle (external).                                                      *)
DongleUnchanged == UNCHANGED <<mpc, cmd, wait, resultVars, loopVars, procVars, mailVars, atVars,
                               linkVars, watchdog>>

Answers(c) ==
  CASE c = "AT+CPIN?" -> {<<s, "OK">> : s \in PinStatus}
                           \cup {<<"OK">>, <<"ERROR">>, <<"CME 14">>}
    [] c = "AT+CREG?" -> {<<s, "OK">> : s \in RegStatus} \cup {<<"ERROR">>}
    [] OTHER          -> {<<"OK">>, <<"ERROR">>}

(* It takes a command and answers it, or loses it. *)
DongleAnswer ==
  /\ toDongle # <<>> /\ reply = <<>>
  /\ LET c == Head(toDongle)
     IN \E a \in Answers(c) :
          /\ reply' = <<Line("echo", c)>> \o [k \in DOMAIN a |-> Line(a[k], c)]
          /\ refused' = IF c = "AT+CPIN=" /\ a = <<"ERROR">> THEN refused + 1 ELSE refused
  /\ toDongle' = Tail(toDongle)
  /\ UNCHANGED streamVars
  /\ DongleUnchanged

DongleLose ==
  /\ toDongle # <<>>
  /\ toDongle' = Tail(toDongle)
  /\ UNCHANGED <<reply, refused, streamVars>>
  /\ DongleUnchanged

(* USBSerialStream::readable: a line is queued, which waits for room, and the  *)
(* semaphore released.                                                         *)
Readable ==
  /\ reply # <<>>
  /\ Len(inBuf) < StreamSize
  /\ inBuf' = Append(inBuf, Head(reply)) /\ reply' = Tail(reply)
  /\ available' = available + 1
  /\ UNCHANGED <<toDongle, refused>>
  /\ DongleUnchanged

-----------------------------------------------------------------------------
(* PyrnUSBModem::connect and init, in the main thread.                         *)
MainUnchanged == UNCHANGED <<resultVars, procVars, mailVars, streamVars, dongleVars, linkVars>>

(* The thread goes on with command c, after a pause of w ticks, or elsewhere.  *)
Execute(c, w) ==
  /\ mpc' = IF w = 0 THEN "execute" ELSE "pause"
  /\ cmd' = c /\ wait' = w
GoTo(where) == mpc' = where /\ cmd' = "none" /\ wait' = 0

PauseEnds ==
  /\ mpc = "pause" /\ wait = 0
  /\ mpc' = "execute"
  /\ UNCHANGED <<cmd, wait, loopVars, atVars, watchdog>>
  /\ MainUnchanged

(* The dongle connects, and at.open starts the AT thread. *)
DongleConnects ==
  /\ mpc = "dongle" /\ wait = 0
  /\ tries > 0
  /\ apc' = "start"
  /\ tries' = InitTries
  /\ Execute("ATZ", 0)
  /\ UNCHANGED <<retries, lines, transactionState, transactionResult, watchdog>>
  /\ MainUnchanged

(* It does not, and connect gives up after some tries. *)
DongleMissing ==
  /\ mpc = "dongle" /\ wait = 0
  /\ IF tries > 0
     THEN tries' = tries - 1 /\ wait' = Pause /\ UNCHANGED <<mpc, cmd>>
     ELSE GoTo("reset") /\ UNCHANGED tries
  /\ UNCHANGED <<retries, atVars, watchdog>>
  /\ MainUnchanged

Returned(c) == mpc = "return" /\ cmd = c

(* at.init and AT+CMEE; a dongle of another type is not sent AT+CMEE. *)
ReturnATZ ==
  /\ Returned("ATZ")
  /\ \/ /\ ret = "OK"
        /\ \E c \in {"AT+CMEE", "AT+CPIN?"} : Execute(c, 0)
        /\ tries' = 0 /\ retries' = PinTries
     \/ /\ ret # "OK" /\ tries > 0
        /\ Execute("ATZ", Pause)
        /\ tries' = tries - 1 /\ UNCHANGED retries
     \/ /\ ret # "OK" /\ tries = 0
        /\ GoTo("reset")
        /\ UNCHANGED loopVars
  /\ UNCHANGED <<atVars, watchdog>>
  /\ MainUnchanged

ReturnCMEE ==
  /\ Returned("AT+CMEE")
  /\ IF ret = "OK" THEN Execute("AT+CPIN?", 0) ELSE GoTo("reset")
  /\ UNCHANGED <<loopVars, atVars, watchdog>>
  /\ MainUnchanged

(* result.code is looked at first, and is that of an earlier attempt if this   *)
(* one timed out.  14 is a busy SIM, asked again as often as it says so.       *)
ReturnCPIN ==
  /\ Returned("AT+CPIN?")
  /\ \/ code = 14 /\ Execute("AT+CPIN?", Pause)
     \/ code # 14 /\ ret = "OK" /\ pinStatus = "STATUS_READY" /\ Execute("AT+CREG?", 0)
     \/ code # 14 /\ ret = "OK" /\ pinStatus = "STATUS_SIMPIN" /\ Execute("AT+CPIN=", 0)
     \/ code # 14 /\ ret = "OK" /\ pinStatus \in {"STATUS_SIMPUK", "STATUS_NONE"} /\ GoTo("reset")
     \/ code # 14 /\ ret # "OK" /\ GoTo("reset")
  /\ UNCHANGED <<loopVars, atVars, watchdog>>
  /\ MainUnchanged

(* Mutant: a refused PIN is tried again. *)
ReturnPINAgain ==
  /\ Returned("AT+CPIN=")
  /\ retries' = retries - 1
  /\ IF retries > 1 THEN Execute("AT+CPIN?", 0) ELSE GoTo("reset")
  /\ UNCHANGED <<tries, atVars, watchdog>>
  /\ MainUnchanged

(* The PIN is accepted and the state asked again, or "do not retry". *)
ReturnPIN ==
  /\ Returned("AT+CPIN=")
  /\ retries' = retries - 1
  /\ IF ret = "OK" /\ retries > 1 THEN Execute("AT+CPIN?", 0) ELSE GoTo("reset")
  /\ UNCHANGED <<tries, atVars, watchdog>>
  /\ MainUnchanged

(* The registration: only the status counts, whatever execute returned. *)
ReturnCREG ==
  /\ Returned("AT+CREG?")
  /\ \/ /\ regStatus = "STATUS_REGISTERING"
        /\ Execute("AT+CREG?", Pause)
        /\ UNCHANGED loopVars
     \/ /\ regStatus = "STATUS_FAILED"
        /\ GoTo("reset")
        /\ UNCHANGED loopVars
     \/ /\ regStatus = "STATUS_OK"
        /\ Execute("AT+CGDCONT", 0)
        /\ tries' = ApnTries /\ retries' = 0
  /\ UNCHANGED <<atVars, watchdog>>
  /\ MainUnchanged

(* Mutant: tries-- instead of --tries. *)
ReturnAPNLate ==
  /\ Returned("AT+CGDCONT")
  /\ IF ret = "OK"
     THEN GoTo("cleanup") /\ tries' = 0
     ELSE /\ tries' = tries - 1
          /\ IF tries > 0 THEN Execute("AT+CGDCONT", Pause)
                          ELSE mpc' = "cleanup" /\ wait' = Pause /\ cmd' = "none"
  /\ UNCHANGED <<retries, atVars, watchdog>>
  /\ MainUnchanged

(* The APN is set, or not after ApnTries; PPP is tried anyway. *)
ReturnAPN ==
  /\ Returned("AT+CGDCONT")
  /\ IF ret = "OK"
     THEN GoTo("cleanup") /\ tries' = 0
     ELSE /\ tries' = tries - 1
          /\ IF tries > 1 THEN Execute("AT+CGDCONT", Pause)
                          ELSE mpc' = "cleanup" /\ wait' = Pause /\ cmd' = "none"
  /\ UNCHANGED <<retries, atVars, watchdog>>
  /\ MainUnchanged

-----------------------------------------------------------------------------
(* PPPIPInterface.                                                             *)

(* cleanupLink ends with a read that brings nothing for 100 ms. *)
CleanupLink ==
  /\ mpc = "cleanup" /\ wait = 0
  /\ mpc' = "dial" /\ wait' = 1
  /\ UNCHANGED <<cmd, loopVars, atVars, watchdog>>
  /\ MainUnchanged

(* dial, whose result is ignored, and pppOverSerialOpen. *)
OpenSession ==
  /\ mpc = "dial" /\ wait = 0
  /\ \/ GoTo("poll") /\ retries' = Polls
     \/ GoTo("reset") /\ UNCHANGED retries
  /\ UNCHANGED <<tries, atVars, watchdog>>
  /\ MainUnchanged

(* linkStatusCb, by lwIP's PPP (external). *)
LinkStatus ==
  /\ mpc \in {"poll", "main"}
  /\ connected' \in BOOLEAN
  /\ wasConnected' = (wasConnected \/ connected')
  /\ UNCHANGED <<mpc, cmd, wait, resultVars, loopVars, procVars, mailVars, atVars, streamVars,
                 dongleVars, watchdog>>

(* Mutant: the watchdog is fed while the link is waited for. *)
PollFeeding ==
  /\ mpc = "poll" /\ wait = 0
  /\ ~connected
  /\ retries > 0
  /\ retries' = retries - 1
  /\ wait' = 1
  /\ watchdog' = WatchdogTime
  /\ UNCHANGED <<mpc, cmd, tries, atVars>>
  /\ MainUnchanged

(* !connected && retries-- > 0. *)
Poll ==
  /\ mpc = "poll" /\ wait = 0
  /\ ~connected
  /\ retries > 0
  /\ retries' = retries - 1
  /\ wait' = 1
  /\ UNCHANGED <<mpc, cmd, tries, atVars, watchdog>>
  /\ MainUnchanged

(* The loop ends: retries is -1 if the polls ran out, and connect returns OK   *)
(* unless it is 0.  The main loop feeds the watchdog.                          *)
PollEnds ==
  /\ mpc = "poll" /\ wait = 0
  /\ connected \/ retries = 0
  /\ LET left == IF connected THEN retries ELSE -1
     IN IF left # 0 THEN GoTo("main") /\ watchdog' = WatchdogTime
                    ELSE GoTo("reset") /\ UNCHANGED watchdog
  /\ retries' = 0
  /\ UNCHANGED <<tries, atVars>>
  /\ MainUnchanged

-----------------------------------------------------------------------------
(* 100 ms pass.  In the main loop other modules take over. *)
Tick ==
  /\ ATBlocked
  /\ mpc # "main"
  /\ watchdog' = watchdog - 1
  /\ wait' = IF wait = 0 THEN 0 ELSE wait - 1
  /\ UNCHANGED <<mpc, cmd, resultVars, loopVars, procVars, mailVars, atVars, streamVars, dongleVars,
                 linkVars>>

Main == \/ ExecuteBegin \/ PutReady \/ AbortRead \/ GetResult \/ GetTimeout \/ PutTimeout
        \/ AbortCancel
        \/ PauseEnds \/ DongleConnects \/ DongleMissing
        \/ ReturnATZ \/ ReturnCMEE \/ ReturnCPIN \/ ReturnPIN \/ ReturnCREG \/ ReturnAPN
        \/ CleanupLink \/ OpenSession \/ Poll \/ PollEnds

Next == \/ Reset
        \/ /\ watchdog > 0
           /\ Main \/ ATThread \/ DongleAnswer \/ DongleLose \/ Readable \/ LinkStatus \/ Tick

Spec == Init /\ [][Next]_vars

-----------------------------------------------------------------------------
(* Types of the state. *)
LineType == [kind : PinStatus \cup RegStatus \cup Final \cup {"echo"}, cmd : Command]
TypeOK ==
  /\ mpc \in {"dongle", "pause", "execute", "ready", "abort", "result", "cancel", "abortCancel",
              "return", "cleanup", "dial", "poll", "main", "reset"}
  /\ {cmd, transactionCommand, got} \subseteq Command \cup {"none"}
  /\ {wait, watchdog, tries, retries, available} \subseteq Nat
  /\ ret \in {"OK", "NET_MOREINFO", "NET_TIMEOUT"} /\ code \in {0, 14}
  /\ processor \in Command \cup {"none"}
  /\ pinStatus \in PinStatus \cup {"STATUS_NONE"} /\ regStatus \in RegStatus
  /\ env2AT \in {"none", "AT_CMD_READY", "AT_TIMEOUT"} /\ AT2Env \in BOOLEAN
  /\ apc \in {"closed", "start", "wait", "read", "line", "result", "send"}
  /\ transactionState \in {"IDLE", "COMMAND_SENT", "READING_RESULT"}
  /\ transactionResult \in LineType \cup {NoResult}
  /\ lines \in Seq(LineType) /\ inBuf \in Seq(LineType) /\ reply \in Seq(LineType)
  /\ toDongle \in Seq(Command)
  /\ connected \in BOOLEAN /\ wasConnected \in BOOLEAN /\ refused \in Nat

(* What execute returns as the result of a command is the last line of an      *)
(* answer to this command, perhaps to an earlier attempt: neither results that *)
(* come after their timeout, nor answers from before a reset, nor the rest of  *)
(* an answer that was no longer expected are taken for those of another one.   *)
(* The one exception is AT+CGDCONT: init goes on without a pause when the      *)
(* status line of AT+CREG? arrives with its timeout, and the OK behind it may  *)
(* then come after "Previous result discarded".                                *)
ResultMatchesCommand ==
  mpc = "return" => got \in {cmd, "none"} \/ (cmd = "AT+CGDCONT" /\ got = "AT+CREG?")

(* A message in env2AT is looked at: the AT thread does not sleep unless main  *)
(* is just about to wake it.  Otherwise the cancellation of the command waits  *)
(* for ever for the slot the command takes.                                    *)
NoLostWakeUp ==
  env2AT # "none" /\ apc = "wait" /\ mpc \notin {"abort", "abortCancel"} =>
    available > 0 \/ inBuf # <<>>

(* The main loop starts only after the link came up: connect would also return *)
(* OK when its polls run out, but the watchdog is faster.                      *)
MainOnlyConnected == mpc = "main" => wasConnected

(* A boot has at most one PIN refused, of the three that lock a SIM. *)
PinRefusedOnce == refused <= 1
=============================================================================
