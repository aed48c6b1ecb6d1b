---------------------------- MODULE ModemProofs ----------------------------
(***************************************************************************)
(* The start-up of the modem, for all timeouts, pauses, numbers of         *)
(* attempts and polls, and sizes of the buffers.                           *)
(*                                                                         *)
(* The inductive invariant has one part per question, each resting on the  *)
(* ones before it:                                                         *)
(*   TypeInv     types, and that the loops never count below zero;         *)
(*   WakeInv     no message sleeps in env2AT;                              *)
(*   PollInv     the watchdog has no more ticks left than the polls;       *)
(*   SettledInv  one transaction at a time, whatever timed out;            *)
(*   PipeInv     the lines between dongle and AT thread are whole answers; *)
(*   MatchInv    a transaction under way reads an answer to its command;   *)
(*   PinInv      one PIN at a time is sent, and none after a refusal.      *)
(***************************************************************************)
EXTENDS Modem, SequenceTheorems, TLAPS

(* The main thread is in execute, or on its way there or back. *)
Executing == mpc \in {"pause", "execute", "ready", "abort", "result", "cancel", "abortCancel",
                      "return"}

(* The counters that the loops of init and connect test after they count down. *)
LoopInv ==
  /\ Executing => /\ cmd \in Command
                  /\ cmd \in {"AT+CMEE", "AT+CPIN?", "AT+CPIN="} => retries > 0
                  /\ cmd = "AT+CGDCONT" => tries > 0
  /\ mpc \in {"ready", "abort", "result", "cancel", "abortCancel", "return"} =>
       transactionCommand = cmd
  /\ env2AT = "AT_CMD_READY" => transactionCommand \in Command

(* The types, by the part of the system that keeps the state. *)
MainTypes ==
  /\ mpc \in {"dongle", "pause", "execute", "ready", "abort", "result", "cancel", "abortCancel",
              "return", "cleanup", "dial", "poll", "main", "reset"}
  /\ cmd \in Command \cup {"none"} /\ wait \in Nat /\ watchdog \in Nat
  /\ tries \in Nat /\ retries \in Nat
  /\ ret \in {"OK", "NET_MOREINFO", "NET_TIMEOUT"} /\ code \in {0, 14}
  /\ got \in Command \cup {"none"} /\ connected \in BOOLEAN /\ wasConnected \in BOOLEAN
SharedTypes ==
  /\ transactionCommand \in Command \cup {"none"} /\ processor \in Command \cup {"none"}
  /\ pinStatus \in PinStatus \cup {"STATUS_NONE"} /\ regStatus \in RegStatus
  /\ env2AT \in {"none", "AT_CMD_READY", "AT_TIMEOUT"} /\ AT2Env \in BOOLEAN
  /\ available \in Nat
ATTypes ==
  /\ apc \in {"closed", "start", "wait", "read", "line", "result", "send"}
  /\ transactionState \in {"IDLE", "COMMAND_SENT", "READING_RESULT"}
  /\ transactionResult \in LineType \cup {NoResult}
  /\ lines \in Seq(LineType)
LineTypes ==
  /\ inBuf \in Seq(LineType) /\ reply \in Seq(LineType) /\ toDongle \in Seq(Command)
  /\ refused \in Nat

TypeInv == MainTypes /\ SharedTypes /\ ATTypes /\ LineTypes /\ LoopInv

LEMMA TypesAgree == TypeOK <=> MainTypes /\ SharedTypes /\ ATTypes /\ LineTypes
BY Zenon DEF TypeOK, MainTypes, SharedTypes, ATTypes, LineTypes

-----------------------------------------------------------------------------
(* Types.                                                                      *)
LEMMA Constants ==
  /\ \A c \in Command : Timeout[c] \in Nat /\ Timeout[c] > 0
  /\ Pause \in Nat /\ Pause > 0 /\ InitTries \in Nat /\ InitTries > 0
  /\ PinTries \in Nat /\ PinTries > 0 /\ ApnTries \in Nat /\ ApnTries > 0
  /\ ConnectTries \in Nat /\ ConnectTries > 0 /\ Polls \in Nat /\ Polls > 0
  /\ WatchdogTime \in Nat /\ WatchdogTime > 0 /\ WatchdogTime <= Polls
  /\ StreamSize \in Nat /\ DongleQueue \in Nat
BY ModemAssumption

LEMMA TypeExecute ==
  ASSUME TypeInv,
         \/ ExecuteBegin \/ PutReady \/ AbortRead \/ GetResult \/ GetTimeout \/ PutTimeout
         \/ AbortCancel
  PROVE  TypeInv'
<1>0. /\ transactionResult.cmd \in Command \cup {"none"}
      /\ pinStatus \in PinStatus \cup {"STATUS_NONE"} /\ code \in {0, 14}
  BY DEF TypeInv, MainTypes, SharedTypes, ATTypes, LineType, NoResult, Line
<1>00. mpc = "execute" => cmd \in Command
  BY DEF TypeInv, LoopInv, Executing
<1> USE DEF resultVars, loopVars, procVars, mailVars, atVars, streamVars, dongleVars, linkVars
<1>a. ASSUME ExecuteBegin
      PROVE  processor' \in Command \cup {"none"} /\ pinStatus' \in PinStatus \cup {"STATUS_NONE"}
  BY <1>a, <1>0, <1>00 DEF ExecuteBegin, ProcessorOf
<1>b. ASSUME GetResult
      PROVE  /\ ret' \in {"OK", "NET_MOREINFO", "NET_TIMEOUT"} /\ code' \in {0, 14}
             /\ got' \in Command \cup {"none"}
  BY <1>b, <1>0 DEF GetResult
<1> USE DEF TypeInv, MainTypes, SharedTypes, ATTypes, LineTypes, LoopInv, Executing
<1>1. CASE ExecuteBegin
  <2>1. processor' \in Command \cup {"none"} /\ pinStatus' \in PinStatus \cup {"STATUS_NONE"}
    BY <1>1, <1>a
  <2>2. SharedTypes'
    BY <1>1, <2>1 DEF ExecuteBegin
  <2> QED
    BY <1>1, <2>2 DEF ExecuteBegin
<1>2. CASE PutReady
  BY <1>2 DEF PutReady, PutMail
<1>3. CASE AbortRead
  BY <1>3, Constants DEF AbortRead
<1>4. CASE GetResult
  <2>1. /\ ret' \in {"OK", "NET_MOREINFO", "NET_TIMEOUT"} /\ code' \in {0, 14}
        /\ got' \in Command \cup {"none"}
    BY <1>4, <1>b
  <2>2. /\ mpc = "result" /\ mpc' = "return" /\ wait' = 0 /\ AT2Env' = FALSE
        /\ UNCHANGED <<cmd, loopVars, procVars, env2AT, atVars, streamVars, dongleVars, linkVars,
                       watchdog>>
    BY ZenonT(60), <1>4 DEF GetResult
  <2>3. MainTypes'
    BY SMTT(40), <2>1, <2>2
  <2>4. SharedTypes' /\ ATTypes' /\ LineTypes'
    BY ZenonT(60), <2>2
  <2>5. LoopInv'
    BY <2>2
  <2> QED
    BY <2>3, <2>4, <2>5
<1>5. CASE GetTimeout
  BY <1>5 DEF GetTimeout
<1>6. CASE PutTimeout
  BY <1>6 DEF PutTimeout, PutMail
<1>7. CASE AbortCancel
  BY <1>7 DEF AbortCancel
<1> QED
  BY <1>1, <1>2, <1>3, <1>4, <1>5, <1>6, <1>7

LEMMA TypeAT ==
  ASSUME TypeInv, ATThread
  PROVE  TypeInv'
<1> USE DEF TypeInv, MainTypes, SharedTypes, ATTypes, LineTypes, LoopInv, Executing, resultVars, loopVars, procVars, mailVars, atVars,
        streamVars, dongleVars, linkVars, ATUnchanged
<1>1. CASE ATStart
  BY <1>1 DEF ATStart
<1>2. CASE ATWait
  BY <1>2 DEF ATWait
<1>3. CASE ATRead
  BY <1>3 DEF ATRead
<1>4. CASE ProcessReadLine
  <2>1. Head(lines) \in LineType /\ Tail(lines) \in Seq(LineType)
    BY <1>4 DEF ProcessReadLine
  <2>2. /\ transactionState' \in {"IDLE", "COMMAND_SENT", "READING_RESULT"}
        /\ apc' \in {"line", "result"} /\ transactionResult' \in LineType \cup {NoResult}
        /\ lines' \in Seq(LineType)
    BY <1>4, <2>1 DEF ProcessReadLine
  <2>3. pinStatus' \in PinStatus \cup {"STATUS_NONE"} /\ regStatus' \in RegStatus
    BY <1>4, <2>1 DEF ProcessReadLine
  <2>4. UNCHANGED <<mailVars, streamVars, dongleVars>> /\ ATUnchanged
    BY <1>4 DEF ProcessReadLine
  <2> QED
    BY <2>2, <2>3, <2>4
<1>5. CASE PutResult
  BY <1>5 DEF PutResult
<1>6. CASE LinesDone
  BY <1>6 DEF LinesDone
<1>7. CASE TrySendNothing
  BY <1>7 DEF TrySendNothing
<1>8. CASE TrySendTimeout
  BY <1>8 DEF TrySendTimeout
<1>9. CASE TrySendCommand
  BY <1>9 DEF TrySendCommand
<1> QED
  BY <1>1, <1>2, <1>3, <1>4, <1>5, <1>6, <1>7, <1>8, <1>9 DEF ATThread

(* An answer of the dongle, as the lines of its reply. *)
Answer(c, a) == <<Line("echo", c)>> \o [k \in DOMAIN a |-> Line(a[k], c)]

LEMMA AnswerShape ==
  ASSUME NEW c \in Command, NEW a \in Answers(c)
  PROVE  /\ Answer(c, a) \in Seq(LineType)
         /\ \/ /\ Len(Answer(c, a)) = 2 /\ Len(a) = 1
               /\ Answer(c, a)[2] = Line(a[1], c) /\ a[1] \in Final
            \/ /\ Len(Answer(c, a)) = 3 /\ Len(a) = 2
               /\ Answer(c, a)[2].cmd = c /\ Answer(c, a)[2].kind \in PinStatus \cup RegStatus
               /\ Answer(c, a)[3] = Line("OK", c) /\ a[1] # "ERROR"
         /\ Answer(c, a)[1] = Line("echo", c)
<1> DEFINE body == [k \in DOMAIN a |-> Line(a[k], c)]
           echo == <<Line("echo", c)>>
<1>1. \/ \E s \in PinStatus \cup RegStatus : a = <<s, "OK">>
      \/ \E f \in Final : a = <<f>>
  BY DEF Answers, Final
<1>2. Line("echo", c) \in LineType
  BY DEF Line, LineType
<1>3. echo \in Seq(LineType) /\ Len(echo) = 1 /\ echo[1] = Line("echo", c)
  BY <1>2
<1>4. CASE \E s \in PinStatus \cup RegStatus : a = <<s, "OK">>
  <2>1. PICK s \in PinStatus \cup RegStatus : a = <<s, "OK">>
    BY <1>4
  <2>2. body = <<Line(s, c), Line("OK", c)>>
    BY <2>1
  <2>3. Line(s, c) \in LineType /\ Line("OK", c) \in LineType
    BY DEF Line, LineType, Final
  <2>4. body \in Seq(LineType) /\ Len(body) = 2 /\ body[1] = Line(s, c) /\ body[2] = Line("OK", c)
    BY <2>2, <2>3
  <2>5. Answer(c, a) = echo \o body
    BY DEF Answer
  <2>6. /\ Answer(c, a) \in Seq(LineType) /\ Len(Answer(c, a)) = 3
        /\ Answer(c, a)[1] = Line("echo", c) /\ Answer(c, a)[2] = Line(s, c)
        /\ Answer(c, a)[3] = Line("OK", c)
    <3> HIDE DEF body, echo
    <3>0. /\ echo \o body \in Seq(LineType) /\ Len(echo \o body) = Len(echo) + Len(body)
          /\ \A i \in 1 .. Len(echo) + Len(body) :
               (echo \o body)[i] = IF i <= Len(echo) THEN echo[i] ELSE body[i - Len(echo)]
      BY <2>4, <1>3, ConcatProperties, Zenon
    <3>1. /\ echo \o body \in Seq(LineType) /\ Len(echo \o body) = 3
          /\ \A i \in 1 .. 3 : (echo \o body)[i] = IF i <= 1 THEN echo[i] ELSE body[i - 1]
      BY <3>0, <2>4, <1>3
    <3>2. (echo \o body)[1] = echo[1] /\ (echo \o body)[2] = body[1] /\ (echo \o body)[3] = body[2]
      BY <3>1
    <3> QED
      BY <2>4, <2>5, <1>3, <3>1, <3>2
  <2>7. s # "ERROR" /\ Len(a) = 2 /\ a[1] = s
    BY <2>1 DEF PinStatus, RegStatus
  <2> QED
    BY <2>6, <2>7 DEF Line
<1>5. CASE \E f \in Final : a = <<f>>
  <2>1. PICK f \in Final : a = <<f>>
    BY <1>5
  <2>2. body = <<Line(f, c)>>
    BY <2>1
  <2>3. Line(f, c) \in LineType
    BY DEF Line, LineType
  <2>4. body \in Seq(LineType) /\ Len(body) = 1 /\ body[1] = Line(f, c)
    BY <2>2, <2>3
  <2>5. Answer(c, a) = echo \o body
    BY DEF Answer
  <2>6. /\ Answer(c, a) \in Seq(LineType) /\ Len(Answer(c, a)) = 2
        /\ Answer(c, a)[1] = Line("echo", c) /\ Answer(c, a)[2] = Line(f, c)
    <3> HIDE DEF body, echo
    <3> QED
      BY SMTT(40), <2>4, <2>5, <1>3, ConcatProperties
  <2>7. Len(a) = 1 /\ a[1] = f
    BY <2>1
  <2> QED
    BY <2>6, <2>7
<1> QED
  BY <1>1, <1>4, <1>5

LEMMA AnswerLines ==
  ASSUME NEW c \in Command, NEW a \in Answers(c)
  PROVE  LET new == Answer(c, a)
         IN /\ new \in Seq(LineType) /\ Len(new) \in {2, 3}
            /\ \A k \in 1 .. Len(new) : new[k].cmd = c
            /\ \A k \in 1 .. Len(new) : new[k].kind = "echo" <=> k = 1
            /\ \A k \in 1 .. Len(new) : new[k].kind \in Final <=> k = Len(new)
            /\ new[Len(new)].kind = "OK" => a # <<"ERROR">>
<1> DEFINE new == Answer(c, a)
<1>0. /\ new \in Seq(LineType) /\ new[1] = Line("echo", c)
      /\ \/ Len(new) = 2 /\ Len(a) = 1 /\ new[2] = Line(a[1], c) /\ a[1] \in Final
         \/ /\ Len(new) = 3 /\ Len(a) = 2 /\ new[2].cmd = c
            /\ new[2].kind \in PinStatus \cup RegStatus /\ new[3] = Line("OK", c)
  BY AnswerShape
<1>1. /\ "echo" \notin Final /\ "OK" \in Final /\ "OK" # "ERROR" /\ "OK" # "echo"
      /\ \A k \in PinStatus \cup RegStatus : k \notin Final /\ k # "echo"
      /\ \A k \in Final : k # "echo"
  BY DEF Final, PinStatus, RegStatus
<1>2. new[1].kind = "echo" /\ new[1].cmd = c
  BY <1>0 DEF Line
<1> HIDE DEF new
<1>3. CASE Len(new) = 2 /\ Len(a) = 1 /\ new[2] = Line(a[1], c) /\ a[1] \in Final
  <2>1. new[2].kind = a[1] /\ new[2].cmd = c
    BY <1>3 DEF Line
  <2>2. \A k \in 1 .. Len(new) : k = 1 \/ k = 2
    BY <1>3
  <2>3. new[2].kind = "OK" => a # <<"ERROR">>
    <3>1. <<"ERROR">>[1] = "ERROR"
      OBVIOUS
    <3> QED
      BY <2>1, <1>1, <3>1
  <2> QED
    BY <1>0, <1>1, <1>2, <1>3, <2>1, <2>2, <2>3 DEF new
<1>4. CASE /\ Len(new) = 3 /\ Len(a) = 2 /\ new[2].cmd = c
           /\ new[2].kind \in PinStatus \cup RegStatus /\ new[3] = Line("OK", c)
  <2>1. new[3].kind = "OK" /\ new[3].cmd = c
    BY <1>4 DEF Line
  <2>2. \A k \in 1 .. Len(new) : k = 1 \/ k = 2 \/ k = 3
    BY <1>4
  <2>3. a # <<"ERROR">>
    BY <1>4
  <2> QED
    BY <1>0, <1>1, <1>2, <1>4, <2>1, <2>2, <2>3 DEF new
<1> QED
  BY <1>0, <1>3, <1>4

LEMMA TypeOutside ==
  ASSUME TypeInv, DongleAnswer \/ DongleLose \/ Readable \/ LinkStatus \/ (watchdog > 0 /\ Tick)
  PROVE  TypeInv'
<1> USE DEF TypeInv, MainTypes, SharedTypes, ATTypes, LineTypes, LoopInv, Executing, resultVars, loopVars, procVars, mailVars, atVars,
        streamVars, dongleVars, linkVars, DongleUnchanged
<1>1. CASE DongleAnswer
  <2>1. Head(toDongle) \in Command /\ toDongle' \in Seq(Command)
    BY <1>1 DEF DongleAnswer
  <2>2. PICK a \in Answers(Head(toDongle)) :
          /\ reply' = Answer(Head(toDongle), a)
          /\ refused' = IF Head(toDongle) = "AT+CPIN=" /\ a = <<"ERROR">>
                        THEN refused + 1 ELSE refused
    BY <1>1 DEF DongleAnswer, Answer
  <2>3. reply' \in Seq(LineType) /\ refused' \in Nat
    BY <2>1, <2>2, AnswerShape
  <2>4. UNCHANGED streamVars /\ DongleUnchanged
    BY <1>1 DEF DongleAnswer
  <2> QED
    BY <2>1, <2>3, <2>4
<1>2. CASE DongleLose
  BY <1>2 DEF DongleLose
<1>3. CASE Readable
  BY <1>3 DEF Readable
<1>4. CASE LinkStatus
  BY <1>4 DEF LinkStatus
<1>5. CASE watchdog > 0 /\ Tick
  BY <1>5 DEF Tick
<1> QED
  BY <1>1, <1>2, <1>3, <1>4, <1>5

LEMMA TypeMain ==
  ASSUME TypeInv,
         \/ PauseEnds \/ DongleConnects \/ DongleMissing
         \/ ReturnATZ \/ ReturnCMEE \/ ReturnCPIN \/ ReturnPIN \/ ReturnCREG \/ ReturnAPN
         \/ CleanupLink \/ OpenSession \/ Poll \/ PollEnds
  PROVE  TypeInv'
<1> USE Constants DEF TypeInv, MainTypes, SharedTypes, ATTypes, LineTypes, LoopInv, Executing, resultVars, loopVars, procVars, mailVars,
        atVars, streamVars, dongleVars, linkVars, MainUnchanged, Execute, GoTo, Returned, Command
<1>1. CASE PauseEnds
  BY SMTT(40), <1>1 DEF PauseEnds
<1>2. CASE DongleConnects
  BY SMTT(40), <1>2 DEF DongleConnects
<1>3. CASE DongleMissing
  BY SMTT(40), <1>3 DEF DongleMissing
<1>4. CASE ReturnATZ
  <2>1. CASE \E c \in {"AT+CMEE", "AT+CPIN?"} : Execute(c, 0) /\ tries' = 0 /\ retries' = PinTries
    BY SMTT(40), <1>4, <2>1 DEF ReturnATZ
  <2>2. CASE tries > 0 /\ Execute("ATZ", Pause) /\ tries' = tries - 1 /\ UNCHANGED retries
    BY SMTT(40), <1>4, <2>2 DEF ReturnATZ
  <2>3. CASE GoTo("reset") /\ UNCHANGED loopVars
    BY SMTT(40), <1>4, <2>3 DEF ReturnATZ
  <2> QED
    BY SMTT(40), <1>4, <2>1, <2>2, <2>3 DEF ReturnATZ
<1>5. CASE ReturnCMEE
  BY SMTT(40), <1>5 DEF ReturnCMEE
<1>6. CASE ReturnCPIN
  BY SMTT(40), <1>6 DEF ReturnCPIN
<1>7. CASE ReturnPIN
  BY SMTT(40), <1>7 DEF ReturnPIN
<1>8. CASE ReturnCREG
  BY SMTT(40), <1>8 DEF ReturnCREG
<1>9. CASE ReturnAPN
  BY SMTT(40), <1>9 DEF ReturnAPN
<1>10. CASE CleanupLink
  BY SMTT(40), <1>10 DEF CleanupLink
<1>11. CASE OpenSession
  BY SMTT(40), <1>11 DEF OpenSession
<1>12. CASE Poll
  BY SMTT(40), <1>12 DEF Poll
<1>13. CASE PollEnds
  BY SMTT(40), <1>13 DEF PollEnds
<1> QED
  BY <1>1, <1>2, <1>3, <1>4, <1>5, <1>6, <1>7, <1>8, <1>9, <1>10, <1>11, <1>12, <1>13

LEMMA TypeBoot ==
  /\ Init => TypeInv
  /\ TypeInv /\ Reset => TypeInv'
<1> USE DEF TypeInv, MainTypes, SharedTypes, ATTypes, LineTypes, LoopInv, Executing
<1>0. <<>> \in Seq(LineType) /\ <<>> \in Seq(Command) /\ "STATUS_REGISTERING" \in RegStatus
  BY DEF RegStatus
<1>1. ASSUME Init PROVE TypeInv
  <2>1. MainTypes /\ LoopInv
    BY <1>1, Constants DEF Init
  <2>2. SharedTypes
    BY <1>0, <1>1 DEF Init
  <2>3. ATTypes /\ LineTypes
    BY <1>0, <1>1 DEF Init
  <2> QED
    BY <2>1, <2>2, <2>3
<1>2. ASSUME TypeInv, Reset PROVE TypeInv'
  <2>1. MainTypes' /\ LoopInv'
    BY <1>2, Constants DEF Reset
  <2>2. SharedTypes'
    BY <1>0, <1>2 DEF Reset
  <2>3. ATTypes' /\ LineTypes'
    BY <1>0, <1>2 DEF Reset
  <2> QED
    BY <2>1, <2>2, <2>3
<1> QED
  BY <1>1, <1>2

LEMMA TypeStep == TypeInv /\ [Next]_vars => TypeInv'
<1> SUFFICES ASSUME TypeInv, [Next]_vars PROVE TypeInv'
  OBVIOUS
<1>1. CASE UNCHANGED vars
  BY <1>1 DEF TypeInv, MainTypes, SharedTypes, ATTypes, LineTypes, LoopInv, Executing, vars,
     resultVars, loopVars, procVars, mailVars, atVars, streamVars, dongleVars, linkVars
<1> QED
  BY <1>1, TypeBoot, TypeExecute, TypeMain, TypeAT, TypeOutside DEF Next, Main

-----------------------------------------------------------------------------
(* Waking the AT thread.  The slot of env2AT is empty until the thread has     *)
(* started, for execute waits for 100 ms first and no tick passes before.      *)
WakeInv ==
  /\ mpc = "dongle" => apc = "closed" /\ env2AT = "none"
  /\ apc = "start" => /\ env2AT = "none" /\ cmd = "ATZ"
                      /\ mpc = "execute" \/ (mpc = "ready" /\ wait > 0)
  /\ Executing => apc # "closed"
  /\ NoLostWakeUp

LEMMA WakeMain ==
  ASSUME TypeInv, WakeInv, Main
  PROVE  WakeInv'
<1> USE DEF TypeInv, MainTypes, SharedTypes, LoopInv, Executing, WakeInv, NoLostWakeUp, MainUnchanged, Execute,
        GoTo, Returned, resultVars, loopVars, procVars, mailVars, atVars, streamVars, dongleVars,
        linkVars
<1>1. CASE ExecuteBegin
  BY <1>1 DEF ExecuteBegin
<1>2. CASE PutReady
  BY <1>2 DEF PutReady, PutMail
<1>3. CASE AbortRead
  BY <1>3 DEF AbortRead
<1>4. CASE GetResult
  BY <1>4 DEF GetResult
<1>5. CASE GetTimeout
  BY <1>5 DEF GetTimeout
<1>6. CASE PutTimeout
  BY <1>6 DEF PutTimeout, PutMail
<1>7. CASE AbortCancel
  BY <1>7 DEF AbortCancel
<1>8. CASE PauseEnds
  BY <1>8 DEF PauseEnds
<1>9. CASE DongleConnects
  BY <1>9 DEF DongleConnects
<1>10. CASE DongleMissing
  BY <1>10 DEF DongleMissing
<1>11. CASE ReturnATZ
  BY <1>11 DEF ReturnATZ
<1>12. CASE ReturnCMEE
  BY <1>12 DEF ReturnCMEE
<1>13. CASE ReturnCPIN
  BY <1>13 DEF ReturnCPIN
<1>14. CASE ReturnPIN
  BY <1>14 DEF ReturnPIN
<1>15. CASE ReturnCREG
  BY <1>15 DEF ReturnCREG
<1>16. CASE ReturnAPN
  BY <1>16 DEF ReturnAPN
<1>17. CASE CleanupLink
  BY <1>17 DEF CleanupLink
<1>18. CASE OpenSession
  BY <1>18 DEF OpenSession
<1>19. CASE Poll
  BY <1>19 DEF Poll
<1>20. CASE PollEnds
  BY <1>20 DEF PollEnds
<1> QED
  BY <1>1, <1>2, <1>3, <1>4, <1>5, <1>6, <1>7, <1>8, <1>9, <1>10, <1>11, <1>12, <1>13, <1>14, <1>15, <1>16, <1>17, <1>18, <1>19, <1>20 DEF Main

LEMMA WakeAT ==
  ASSUME TypeInv, WakeInv, ATThread
  PROVE  WakeInv'
<1> USE DEF TypeInv, SharedTypes, Executing, WakeInv, NoLostWakeUp, ATUnchanged, resultVars, loopVars, mailVars,
        streamVars, dongleVars, linkVars
<1>1. CASE ATStart
  BY <1>1 DEF ATStart
<1>2. CASE ATWait
  BY <1>2 DEF ATWait
<1>3. CASE ATRead
  BY <1>3 DEF ATRead
<1>4. CASE ProcessReadLine
  BY <1>4 DEF ProcessReadLine
<1>5. CASE PutResult
  BY <1>5 DEF PutResult
<1>6. CASE LinesDone
  BY <1>6 DEF LinesDone
<1>7. CASE TrySendNothing
  BY <1>7 DEF TrySendNothing
<1>8. CASE TrySendTimeout
  BY <1>8 DEF TrySendTimeout
<1>9. CASE TrySendCommand
  BY <1>9 DEF TrySendCommand
<1> QED
  BY <1>1, <1>2, <1>3, <1>4, <1>5, <1>6, <1>7, <1>8, <1>9 DEF ATThread

LEMMA WakeOutside ==
  ASSUME TypeInv, WakeInv, DongleAnswer \/ DongleLose \/ Readable \/ LinkStatus \/ Tick
  PROVE  WakeInv'
<1> USE DEF TypeInv, MainTypes, SharedTypes, LineTypes, Executing, WakeInv, NoLostWakeUp, DongleUnchanged, resultVars,
        loopVars, procVars, mailVars, atVars, streamVars, dongleVars, linkVars
<1>1. CASE DongleAnswer
  BY <1>1 DEF DongleAnswer
<1>2. CASE DongleLose
  BY <1>2 DEF DongleLose
<1>3. CASE Readable
  BY <1>3 DEF Readable
<1>4. CASE LinkStatus
  BY <1>4 DEF LinkStatus
<1>5. CASE Tick
  BY <1>5 DEF Tick, ATBlocked
<1> QED
  BY <1>1, <1>2, <1>3, <1>4, <1>5

LEMMA WakeStep == TypeInv /\ WakeInv /\ [Next]_vars => WakeInv'
<1> SUFFICES ASSUME TypeInv, WakeInv, [Next]_vars PROVE WakeInv'
  OBVIOUS
<1>1. CASE UNCHANGED vars
  BY <1>1 DEF WakeInv, Executing, NoLostWakeUp, vars, mailVars, atVars, streamVars
<1>2. CASE Reset
  BY <1>2 DEF Reset, WakeInv, Executing, NoLostWakeUp
<1> QED
  BY <1>1, <1>2, WakeMain, WakeAT, WakeOutside DEF Next

-----------------------------------------------------------------------------
(* The watchdog against the polls of the link.  Every poll but the last takes  *)
(* a tick, and no tick feeds the watchdog.                                     *)
PollInv ==
  /\ watchdog <= WatchdogTime
  /\ mpc = "poll" => retries <= Polls /\ watchdog <= WatchdogTime - Polls + retries + wait
  /\ connected => wasConnected
  /\ MainOnlyConnected

LEMMA PollMain ==
  ASSUME TypeInv, PollInv, Main, watchdog > 0
  PROVE  PollInv'
<1> USE Constants DEF TypeInv, MainTypes, PollInv, MainOnlyConnected, MainUnchanged, Execute, GoTo,
        Returned, resultVars, loopVars, procVars, mailVars, atVars, streamVars, dongleVars, linkVars
<1>1. CASE ExecuteBegin
  BY <1>1 DEF ExecuteBegin
<1>2. CASE PutReady
  BY <1>2 DEF PutReady, PutMail
<1>3. CASE AbortRead
  BY <1>3 DEF AbortRead
<1>4. CASE GetResult
  BY <1>4 DEF GetResult
<1>5. CASE GetTimeout
  BY <1>5 DEF GetTimeout
<1>6. CASE PutTimeout
  BY <1>6 DEF PutTimeout, PutMail
<1>7. CASE AbortCancel
  BY <1>7 DEF AbortCancel
<1>8. CASE PauseEnds
  BY <1>8 DEF PauseEnds
<1>9. CASE DongleConnects
  BY <1>9 DEF DongleConnects
<1>10. CASE DongleMissing
  BY <1>10 DEF DongleMissing
<1>11. CASE ReturnATZ
  BY <1>11 DEF ReturnATZ
<1>12. CASE ReturnCMEE
  BY <1>12 DEF ReturnCMEE
<1>13. CASE ReturnCPIN
  BY <1>13 DEF ReturnCPIN
<1>14. CASE ReturnPIN
  BY <1>14 DEF ReturnPIN
<1>15. CASE ReturnCREG
  BY <1>15 DEF ReturnCREG
<1>16. CASE ReturnAPN
  BY <1>16 DEF ReturnAPN
<1>17. CASE CleanupLink
  BY <1>17 DEF CleanupLink
<1>18. CASE OpenSession
  BY <1>18 DEF OpenSession
<1>19. CASE Poll
  BY <1>19 DEF Poll
<1>20. CASE PollEnds
  BY <1>20 DEF PollEnds
<1> QED
  BY <1>1, <1>2, <1>3, <1>4, <1>5, <1>6, <1>7, <1>8, <1>9, <1>10, <1>11, <1>12, <1>13, <1>14, <1>15, <1>16, <1>17, <1>18, <1>19, <1>20 DEF Main

LEMMA PollStep == TypeInv /\ PollInv /\ [Next]_vars => PollInv'
<1> SUFFICES ASSUME TypeInv, PollInv, [Next]_vars PROVE PollInv'
  OBVIOUS
<1>1. CASE UNCHANGED vars
  BY <1>1 DEF PollInv, MainOnlyConnected, vars, loopVars, linkVars
<1>2. CASE Reset
  BY <1>2, Constants DEF Reset, PollInv, MainOnlyConnected
<1>3. CASE Main /\ watchdog > 0
  BY <1>3, PollMain
<1>4. CASE ATThread
  <2>1. ATUnchanged
    BY <1>4 DEF ATThread, ATStart, ATWait, ATRead, ProcessReadLine, PutResult, LinesDone,
       TrySendNothing, TrySendTimeout, TrySendCommand
  <2> QED
    BY <2>1 DEF ATUnchanged, PollInv, MainOnlyConnected, loopVars, linkVars
<1>5. CASE DongleAnswer \/ DongleLose \/ Readable
  <2>1. DongleUnchanged
    BY <1>5 DEF DongleAnswer, DongleLose, Readable
  <2> QED
    BY <2>1 DEF DongleUnchanged, PollInv, MainOnlyConnected, loopVars, linkVars
<1>6. CASE LinkStatus
  BY <1>6 DEF LinkStatus, TypeInv, MainTypes, PollInv, MainOnlyConnected, loopVars
<1>7. CASE Tick
  BY <1>7, Constants DEF Tick, TypeInv, MainTypes, PollInv, MainOnlyConnected, loopVars, linkVars
<1> QED
  BY <1>1, <1>2, <1>3, <1>4, <1>5, <1>6, <1>7 DEF Next

-----------------------------------------------------------------------------
(* One transaction at a time: nothing of an attempt is left when the next one  *)
(* is published, except before AT+CGDCONT, which may follow an AT+CREG? that   *)
(* timed out without a pause.                                                  *)
Quiet == transactionState = "IDLE" /\ apc # "result" /\ env2AT = "none" /\ ~AT2Env

SettledInv ==
  /\ mpc = "dongle" => Quiet
  /\ Executing /\ cmd # "AT+CGDCONT" =>
       /\ apc = "result" => transactionState = "IDLE" /\ ~AT2Env
       /\ AT2Env => transactionState = "IDLE"
       /\ env2AT = "AT_CMD_READY" => /\ mpc \in {"abort", "result", "cancel"}
                                     /\ transactionState = "IDLE" /\ apc # "result" /\ ~AT2Env
       /\ env2AT = "AT_TIMEOUT" => mpc \in {"abortCancel", "return", "pause"}
       /\ mpc \in {"abortCancel", "return", "pause"} /\ env2AT = "none" => transactionState = "IDLE"
       /\ (mpc = "pause" /\ wait < Pause) \/ mpc \in {"execute", "ready"} =>
            transactionState = "IDLE" /\ apc # "result" /\ env2AT = "none"
       /\ mpc = "ready" \/ (mpc = "return" /\ ret # "NET_TIMEOUT") => Quiet

LEMMA SettledMain ==
  ASSUME TypeInv, WakeInv, SettledInv, Main
  PROVE  SettledInv'
<1> USE Constants DEF TypeInv, MainTypes, SharedTypes, Executing, WakeInv, SettledInv, Quiet, MainUnchanged, Execute,
        GoTo, Returned, resultVars, loopVars, procVars, mailVars, atVars, streamVars, dongleVars,
        linkVars
<1>1. CASE ExecuteBegin
  BY <1>1 DEF ExecuteBegin
<1>2. CASE PutReady
  BY <1>2 DEF PutReady, PutMail
<1>3. CASE AbortRead
  BY <1>3 DEF AbortRead
<1>4. CASE GetResult
  BY <1>4 DEF GetResult
<1>5. CASE GetTimeout
  BY <1>5 DEF GetTimeout
<1>6. CASE PutTimeout
  BY <1>6 DEF PutTimeout, PutMail
<1>7. CASE AbortCancel
  BY <1>7 DEF AbortCancel
<1>8. CASE PauseEnds
  BY <1>8 DEF PauseEnds
<1>9. CASE DongleConnects
  BY <1>9 DEF DongleConnects
<1>10. CASE DongleMissing
  BY <1>10 DEF DongleMissing
<1>11. CASE ReturnATZ
  BY <1>11 DEF ReturnATZ
<1>12. CASE ReturnCMEE
  BY <1>12 DEF ReturnCMEE
<1>13. CASE ReturnCPIN
  BY <1>13 DEF ReturnCPIN
<1>14. CASE ReturnPIN
  BY <1>14 DEF ReturnPIN
<1>15. CASE ReturnCREG
  BY <1>15 DEF ReturnCREG
<1>16. CASE ReturnAPN
  BY <1>16 DEF ReturnAPN
<1>17. CASE CleanupLink
  BY <1>17 DEF CleanupLink
<1>18. CASE OpenSession
  BY <1>18 DEF OpenSession
<1>19. CASE Poll
  BY <1>19 DEF Poll
<1>20. CASE PollEnds
  BY <1>20 DEF PollEnds
<1> QED
  BY <1>1, <1>2, <1>3, <1>4, <1>5, <1>6, <1>7, <1>8, <1>9, <1>10, <1>11, <1>12, <1>13, <1>14, <1>15, <1>16, <1>17, <1>18, <1>19, <1>20 DEF Main

LEMMA SettledAT ==
  ASSUME TypeInv, WakeInv, SettledInv, ATThread
  PROVE  SettledInv'
<1> USE DEF TypeInv, MainTypes, SharedTypes, ATTypes, Executing, WakeInv, SettledInv, Quiet, ATUnchanged, resultVars,
        loopVars, mailVars, streamVars, dongleVars, linkVars
<1>1. CASE ATStart
  BY <1>1 DEF ATStart
<1>2. CASE ATWait
  BY <1>2 DEF ATWait
<1>3. CASE ATRead
  BY <1>3 DEF ATRead
<1>4. CASE ProcessReadLine
  BY <1>4 DEF ProcessReadLine
<1>5. CASE PutResult
  BY <1>5 DEF PutResult
<1>6. CASE LinesDone
  BY <1>6 DEF LinesDone
<1>7. CASE TrySendNothing
  BY <1>7 DEF TrySendNothing
<1>8. CASE TrySendTimeout
  BY <1>8 DEF TrySendTimeout
<1>9. CASE TrySendCommand
  BY <1>9 DEF TrySendCommand
<1> QED
  BY <1>1, <1>2, <1>3, <1>4, <1>5, <1>6, <1>7, <1>8, <1>9 DEF ATThread

LEMMA SettledStep == TypeInv /\ WakeInv /\ SettledInv /\ [Next]_vars => SettledInv'
<1> SUFFICES ASSUME TypeInv, WakeInv, SettledInv, [Next]_vars PROVE SettledInv'
  OBVIOUS
<1>1. CASE UNCHANGED vars
  BY <1>1 DEF SettledInv, Quiet, Executing, vars, mailVars, atVars, resultVars
<1>2. CASE Reset
  BY <1>2 DEF Reset, SettledInv, Quiet, Executing
<1>3. CASE DongleAnswer \/ DongleLose \/ Readable
  <2>1. DongleUnchanged
    BY <1>3 DEF DongleAnswer, DongleLose, Readable
  <2> QED
    BY <2>1 DEF DongleUnchanged, SettledInv, Quiet, Executing, mailVars, atVars, resultVars
<1>4. CASE LinkStatus
  BY <1>4 DEF LinkStatus, SettledInv, Quiet, Executing, mailVars, atVars, resultVars
<1>5. CASE Tick
  <2>1. Executing /\ mpc \notin {"abort", "abortCancel"} /\ apc = "wait" => env2AT = "none"
    BY <1>5 DEF Tick, ATBlocked, WakeInv, NoLostWakeUp, TypeInv, SharedTypes
  <2> QED
    BY <1>5, <2>1, Constants DEF Tick, ATBlocked, TypeInv, MainTypes, SharedTypes, WakeInv, SettledInv, Quiet,
       Executing, mailVars, atVars, resultVars
<1> QED
  BY <1>1, <1>2, <1>3, <1>4, <1>5, SettledMain, SettledAT DEF Next

-----------------------------------------------------------------------------
(* All that the dongle has said and the AT thread has not yet looked at. *)
Pipe == lines \o (inBuf \o reply)

(* Line m comes right behind line l: the answers are whole and in order. *)
Follows(l, m) == IF l.kind \in Final THEN m.kind = "echo" ELSE m.kind # "echo" /\ m.cmd = l.cmd

PipeInv ==
  /\ apc \notin {"line", "result"} => lines = <<>>
  /\ \A k \in 1 .. Len(Pipe) - 1 : Follows(Pipe[k], Pipe[k + 1])
  /\ Pipe # <<>> => Pipe[Len(Pipe)].kind \in Final

LEMMA PipeSeq ==
  ASSUME TypeInv
  PROVE  /\ Pipe \in Seq(LineType)
         /\ lines \in Seq(LineType) /\ inBuf \in Seq(LineType) /\ reply \in Seq(LineType)
         /\ inBuf \o reply \in Seq(LineType)
BY ConcatProperties DEF TypeInv, ATTypes, LineTypes, Pipe

(* The first n lines of the pipe are gone. *)
Dropped(n) ==
  /\ n \in 0 .. Len(Pipe) /\ Len(Pipe') = Len(Pipe) - n
  /\ \A k \in 1 .. Len(Pipe') : Pipe'[k] = Pipe[k + n]

LEMMA DropFront ==
  ASSUME NEW s \in Seq(LineType), NEW t \in Seq(LineType)
  PROVE  /\ Len(s) \in 0 .. Len(s \o t) /\ Len(t) = Len(s \o t) - Len(s)
         /\ \A k \in 1 .. Len(t) : t[k] = (s \o t)[k + Len(s)]
<1>1. /\ Len(s \o t) = Len(s) + Len(t)
      /\ \A i \in 1 .. Len(s) + Len(t) : (s \o t)[i] = IF i <= Len(s) THEN s[i] ELSE t[i - Len(s)]
  BY ConcatProperties
<1>2. Len(s) \in Nat /\ Len(t) \in Nat
  OBVIOUS
<1>3. ASSUME NEW k \in 1 .. Len(t) PROVE t[k] = (s \o t)[k + Len(s)]
  <2>1. k + Len(s) \in 1 .. Len(s) + Len(t) /\ ~(k + Len(s) <= Len(s)) /\ (k + Len(s)) - Len(s) = k
    BY <1>2
  <2> QED
    BY <1>1, <2>1
<1> QED
  BY <1>1, <1>2, <1>3

LEMMA PipeReset ==
  ASSUME TypeInv, Reset
  PROVE  Pipe' = reply /\ \E n \in 0 .. Len(Pipe) : Dropped(n)
<1>1. Pipe' = reply
  BY PipeSeq, ConcatEmptySeq DEF Reset, Pipe
<1>2. Pipe = (lines \o inBuf) \o reply /\ lines \o inBuf \in Seq(LineType)
  BY SMTT(40), PipeSeq, ConcatAssociative, ConcatProperties DEF Pipe
<1>3. /\ Len(lines \o inBuf) \in 0 .. Len(Pipe) /\ Len(reply) = Len(Pipe) - Len(lines \o inBuf)
      /\ \A k \in 1 .. Len(reply) : reply[k] = Pipe[k + Len(lines \o inBuf)]
  BY <1>2, PipeSeq, DropFront
<1> QED
  BY <1>1, <1>3 DEF Dropped

LEMMA PipeStart ==
  ASSUME TypeInv, PipeInv, ATStart
  PROVE  \E n \in 0 .. Len(Pipe) : Dropped(n)
<1>1. Pipe' = reply /\ Pipe = inBuf \o reply
  BY PipeSeq, ConcatEmptySeq DEF ATStart, PipeInv, Pipe, ATUnchanged, dongleVars
<1>2. /\ Len(inBuf) \in 0 .. Len(Pipe) /\ Len(reply) = Len(Pipe) - Len(inBuf)
      /\ \A k \in 1 .. Len(reply) : reply[k] = Pipe[k + Len(inBuf)]
  BY <1>1, PipeSeq, DropFront
<1> QED
  BY <1>1, <1>2 DEF Dropped

LEMMA PipeRead ==
  ASSUME TypeInv, PipeInv, ATRead
  PROVE  Pipe' = Pipe
<1>1. lines = <<>> /\ lines' = inBuf /\ inBuf' = <<>> /\ reply' = reply
  BY DEF ATRead, PipeInv, dongleVars
<1>2. inBuf \o (<<>> \o reply) = inBuf \o reply /\ <<>> \o (inBuf \o reply) = inBuf \o reply
  BY PipeSeq, ConcatEmptySeq
<1> QED
  BY <1>1, <1>2 DEF Pipe

LEMMA PipeLine ==
  ASSUME TypeInv, ProcessReadLine
  PROVE  /\ Pipe # <<>> /\ Head(lines) = Pipe[1] /\ Dropped(1)
<1>1. /\ lines # <<>> /\ lines' = Tail(lines) /\ inBuf' = inBuf /\ reply' = reply
  BY DEF ProcessReadLine, streamVars, dongleVars
<1> DEFINE rest == inBuf \o reply
<1>2. rest \in Seq(LineType) /\ lines \in Seq(LineType) /\ Pipe = lines \o rest
      /\ Pipe' = Tail(lines) \o rest
  BY <1>1, PipeSeq DEF Pipe
<1> HIDE DEF rest
<1>3. Len(lines) \in Nat \ {0} /\ Len(rest) \in Nat /\ Head(lines) = lines[1]
  BY <1>1, <1>2
<1>4. /\ Tail(lines) \in Seq(LineType) /\ Len(Tail(lines)) = Len(lines) - 1
      /\ \A i \in 1 .. Len(Tail(lines)) : Tail(lines)[i] = lines[i + 1]
  BY <1>1, <1>2, HeadTailProperties
<1>5. /\ Len(Pipe) = Len(lines) + Len(rest)
      /\ \A i \in 1 .. Len(lines) + Len(rest) :
           Pipe[i] = IF i <= Len(lines) THEN lines[i] ELSE rest[i - Len(lines)]
  BY <1>2, ConcatProperties
<1>6. /\ Len(Pipe') = Len(Tail(lines)) + Len(rest)
      /\ \A i \in 1 .. Len(Tail(lines)) + Len(rest) :
           Pipe'[i] = IF i <= Len(Tail(lines)) THEN Tail(lines)[i] ELSE rest[i - Len(Tail(lines))]
  BY <1>2, <1>4, ConcatProperties
<1>7. ASSUME NEW k \in 1 .. Len(Pipe') PROVE Pipe'[k] = Pipe[k + 1]
  <2>1. CASE k <= Len(Tail(lines))
    BY <2>1, <1>3, <1>4, <1>5, <1>6
  <2>2. CASE ~(k <= Len(Tail(lines)))
    <3>1. k - Len(Tail(lines)) = (k + 1) - Len(lines)
      BY <1>3, <1>4
    <3> QED
      BY <2>2, <3>1, <1>3, <1>4, <1>5, <1>6
  <2> QED
    BY <2>1, <2>2
<1>8. Pipe[1] = lines[1] /\ Len(Pipe) > 0 /\ Len(Pipe') = Len(Pipe) - 1 /\ 1 \in 0 .. Len(Pipe)
  BY <1>3, <1>4, <1>5, <1>6
<1> QED
  BY <1>3, <1>7, <1>8, PipeSeq DEF Dropped

LEMMA PipeReadable ==
  ASSUME TypeInv, Readable
  PROVE  Pipe' = Pipe
<1>1. /\ lines' = lines /\ reply # <<>>
      /\ inBuf' = Append(inBuf, Head(reply)) /\ reply' = Tail(reply)
  BY DEF Readable, DongleUnchanged, atVars
<1>2. inBuf \o reply = Append(inBuf, Head(reply)) \o Tail(reply)
  BY <1>1, PipeSeq
<1> QED
  BY <1>1, <1>2 DEF Pipe

LEMMA PipeAnswer ==
  ASSUME TypeInv, DongleAnswer
  PROVE  \E a \in Answers(Head(toDongle)) :
           /\ reply = <<>> /\ reply' = Answer(Head(toDongle), a)
           /\ Pipe' = Pipe \o Answer(Head(toDongle), a)
           /\ refused' = IF Head(toDongle) = "AT+CPIN=" /\ a = <<"ERROR">>
                         THEN refused + 1 ELSE refused
<1>1. Head(toDongle) \in Command
  BY DEF DongleAnswer, TypeInv, LineTypes
<1>2. PICK a \in Answers(Head(toDongle)) :
        /\ reply' = Answer(Head(toDongle), a)
        /\ refused' = IF Head(toDongle) = "AT+CPIN=" /\ a = <<"ERROR">>
                      THEN refused + 1 ELSE refused
  BY DEF DongleAnswer, Answer
<1>3. Answer(Head(toDongle), a) \in Seq(LineType)
  BY <1>1, AnswerShape
<1>4. reply = <<>> /\ lines' = lines /\ inBuf' = inBuf
  BY DEF DongleAnswer, streamVars, DongleUnchanged, atVars
<1>5. Pipe = lines \o inBuf
  BY <1>4, PipeSeq, ConcatEmptySeq DEF Pipe
<1>6. Pipe' = lines \o (inBuf \o Answer(Head(toDongle), a))
  BY <1>2, <1>4 DEF Pipe
<1>7. Pipe' = Pipe \o Answer(Head(toDongle), a)
  <2> DEFINE new == Answer(Head(toDongle), a)
  <2> HIDE DEF new
  <2>1. new \in Seq(LineType) /\ lines \in Seq(LineType) /\ inBuf \in Seq(LineType)
    BY <1>3, PipeSeq DEF new
  <2>2. (lines \o inBuf) \o new = lines \o (inBuf \o new)
    BY <2>1, ConcatAssociative
  <2> QED
    BY <1>5, <1>6, <2>2 DEF new
<1> QED
  BY <1>2, <1>4, <1>7

(* All other steps leave the pipe alone. *)
LEMMA PipeSame ==
  ASSUME UNCHANGED vars \/ Main \/ LinkStatus \/ Tick \/ DongleLose \/ ATWait \/ PutResult
           \/ LinesDone \/ TrySendNothing \/ TrySendTimeout \/ TrySendCommand
  PROVE  Pipe' = Pipe /\ lines' = lines /\ reply' = reply
<1>1. UNCHANGED <<lines, inBuf, reply>>
  <2> USE DEF atVars, streamVars, dongleVars
  <2>1. CASE UNCHANGED vars
    BY <2>1 DEF vars
  <2>2. CASE ExecuteBegin \/ PutReady \/ AbortRead \/ GetResult \/ GetTimeout \/ PutTimeout
               \/ AbortCancel
    BY <2>2 DEF ExecuteBegin, PutReady, PutTimeout, PutMail, AbortRead, GetResult, GetTimeout,
       AbortCancel
  <2>3. CASE PauseEnds \/ DongleConnects \/ DongleMissing \/ CleanupLink \/ OpenSession \/ Poll
               \/ PollEnds
    BY <2>3 DEF MainUnchanged, PauseEnds, DongleConnects, DongleMissing, CleanupLink, OpenSession,
       Poll, PollEnds
  <2>4. CASE ReturnATZ \/ ReturnCMEE \/ ReturnCPIN \/ ReturnPIN \/ ReturnCREG \/ ReturnAPN
    BY <2>4 DEF MainUnchanged, ReturnATZ, ReturnCMEE, ReturnCPIN, ReturnPIN, ReturnCREG, ReturnAPN
  <2>5. CASE LinkStatus \/ Tick \/ DongleLose
    BY <2>5 DEF LinkStatus, Tick, DongleLose, DongleUnchanged
  <2>6. CASE ATWait \/ PutResult \/ LinesDone \/ TrySendNothing \/ TrySendTimeout \/ TrySendCommand
    BY <2>6 DEF ATWait, PutResult, LinesDone, TrySendNothing, TrySendTimeout, TrySendCommand
  <2> QED
    BY <2>1, <2>2, <2>3, <2>4, <2>5, <2>6 DEF Main
<1> QED
  BY <1>1 DEF Pipe

LEMMA PipeInvDropped ==
  ASSUME TypeInv, TypeInv', PipeInv, NEW n \in 0 .. Len(Pipe), Dropped(n)
  PROVE  /\ \A k \in 1 .. Len(Pipe') - 1 : Follows(Pipe'[k], Pipe'[k + 1])
         /\ Pipe' # <<>> => Pipe'[Len(Pipe')].kind \in Final
<1>1. Pipe \in Seq(LineType) /\ Pipe' \in Seq(LineType)
  BY PipeSeq DEF Pipe, TypeInv, ATTypes, LineTypes
<1>2. Len(Pipe) \in Nat /\ Len(Pipe') \in Nat /\ Len(Pipe') = Len(Pipe) - n
  BY <1>1 DEF Dropped
<1>3. ASSUME NEW k \in 1 .. Len(Pipe') - 1 PROVE Follows(Pipe'[k], Pipe'[k + 1])
  <2>1. k \in 1 .. Len(Pipe') /\ k + 1 \in 1 .. Len(Pipe') /\ k + n \in 1 .. Len(Pipe) - 1
        /\ (k + 1) + n = (k + n) + 1
    BY <1>2
  <2>2. Pipe'[k] = Pipe[k + n] /\ Pipe'[k + 1] = Pipe[(k + n) + 1]
    BY SMTT(40), <2>1 DEF Dropped
  <2> QED
    BY <2>1, <2>2 DEF PipeInv
<1>4. ASSUME Pipe' # <<>> PROVE Pipe'[Len(Pipe')].kind \in Final
  <2>1. Len(Pipe') \in 1 .. Len(Pipe') /\ Len(Pipe') + n = Len(Pipe) /\ Pipe # <<>>
    BY <1>1, <1>2, <1>4
  <2> QED
    BY <2>1 DEF Dropped, PipeInv
<1> QED
  BY <1>3, <1>4

LEMMA PipeInvAnswer ==
  ASSUME TypeInv, PipeInv, NEW c \in Command, NEW a \in Answers(c), Pipe' = Pipe \o Answer(c, a)
  PROVE  /\ \A k \in 1 .. Len(Pipe') - 1 : Follows(Pipe'[k], Pipe'[k + 1])
         /\ Pipe' # <<>> => Pipe'[Len(Pipe')].kind \in Final
<1> DEFINE new == Answer(c, a)
<1>1. /\ new \in Seq(LineType) /\ Len(new) \in {2, 3}
      /\ \A k \in 1 .. Len(new) : new[k].cmd = c
      /\ \A k \in 1 .. Len(new) : new[k].kind = "echo" <=> k = 1
      /\ \A k \in 1 .. Len(new) : new[k].kind \in Final <=> k = Len(new)
  BY AnswerLines
<1> HIDE DEF new
<1>2. Pipe \in Seq(LineType) /\ Len(Pipe) \in Nat /\ Len(new) \in Nat
  BY PipeSeq, <1>1
<1>3. /\ Len(Pipe') = Len(Pipe) + Len(new)
      /\ \A i \in 1 .. Len(Pipe) + Len(new) :
           Pipe'[i] = IF i <= Len(Pipe) THEN Pipe[i] ELSE new[i - Len(Pipe)]
  BY <1>1, <1>2, ConcatProperties DEF new
<1>4. new[1].kind = "echo"
  BY <1>1
<1>5. ASSUME NEW k \in 1 .. Len(new) - 1 PROVE Follows(new[k], new[k + 1])
  <2>1. k \in 1 .. Len(new) /\ k + 1 \in 1 .. Len(new) /\ k # Len(new) /\ k + 1 # 1
    BY <1>2
  <2> QED
    BY <2>1, <1>1 DEF Follows
<1>6. ASSUME NEW k \in 1 .. Len(Pipe') - 1 PROVE Follows(Pipe'[k], Pipe'[k + 1])
  <2>1. CASE k < Len(Pipe)
    <3>1. Pipe'[k] = Pipe[k] /\ Pipe'[k + 1] = Pipe[k + 1] /\ k \in 1 .. Len(Pipe) - 1
      BY <2>1, <1>2, <1>3
    <3> QED
      BY <3>1 DEF PipeInv
  <2>2. CASE k = Len(Pipe)
    <3>0. /\ k \in 1 .. Len(Pipe) + Len(new) /\ k + 1 \in 1 .. Len(Pipe) + Len(new)
          /\ k <= Len(Pipe) /\ ~(k + 1 <= Len(Pipe)) /\ (k + 1) - Len(Pipe) = 1
      BY <2>2, <1>2, <1>3
    <3>1. Pipe'[k] = Pipe[k] /\ Pipe'[k + 1] = new[1] /\ Pipe # <<>>
      BY <2>2, <3>0, <1>2, <1>3
    <3> QED
      BY <2>2, <3>1, <1>4 DEF PipeInv, Follows
  <2>3. CASE k > Len(Pipe)
    <3>1. k - Len(Pipe) \in 1 .. Len(new) - 1 /\ (k + 1) - Len(Pipe) = (k - Len(Pipe)) + 1
      BY <2>3, <1>2, <1>3
    <3>2. Pipe'[k] = new[k - Len(Pipe)] /\ Pipe'[k + 1] = new[(k - Len(Pipe)) + 1]
      BY <2>3, <3>1, <1>2, <1>3
    <3> QED
      BY <3>1, <3>2, <1>5
  <2> QED
    BY <2>1, <2>2, <2>3, <1>2
<1>7. Pipe'[Len(Pipe')] = new[Len(new)]
  BY <1>1, <1>2, <1>3
<1> QED
  BY SMTT(40), <1>1, <1>6, <1>7

LEMMA PipeInvStep == TypeInv /\ WakeInv /\ PipeInv /\ [Next]_vars => PipeInv'
<1> SUFFICES ASSUME TypeInv, WakeInv, PipeInv, [Next]_vars PROVE PipeInv'
  OBVIOUS
<1>0. TypeInv'
  BY TypeStep
<1>1. CASE Reset
  BY <1>0, <1>1, PipeReset, PipeInvDropped DEF PipeInv, Reset
<1>2. CASE ATStart
  <2>1. lines' = <<>>
    BY <1>2 DEF ATStart, PipeInv
  <2> QED
    BY <2>1, <1>0, <1>2, PipeStart, PipeInvDropped DEF PipeInv
<1>3. CASE ATRead
  BY <1>3, PipeRead DEF PipeInv, ATRead
<1>4. CASE ProcessReadLine
  <2>1. 1 \in 0 .. Len(Pipe) /\ Dropped(1) /\ apc' \in {"line", "result"}
    BY <1>4, PipeLine DEF ProcessReadLine, Dropped
  <2> QED
    BY <2>1, <1>0, PipeInvDropped DEF PipeInv
<1>5. CASE Readable
  BY <1>5, PipeReadable DEF PipeInv, Readable, DongleUnchanged, atVars
<1>6. CASE DongleAnswer
  <2>1. Head(toDongle) \in Command /\ lines' = lines /\ apc' = apc
    BY <1>6 DEF DongleAnswer, TypeInv, LineTypes, DongleUnchanged, atVars
  <2> QED
    BY <2>1, <1>6, PipeAnswer, PipeInvAnswer DEF PipeInv
<1>7. CASE UNCHANGED vars \/ Main \/ LinkStatus \/ Tick \/ DongleLose
  <2>1. apc' \notin {"line", "result"} => apc \notin {"line", "result"}
    <3>1. CASE DongleConnects
      BY <3>1 DEF DongleConnects, WakeInv
    <3>2. CASE ~DongleConnects
      <4>1. apc' = apc
        <5> USE DEF atVars
        <5>1. CASE UNCHANGED vars \/ LinkStatus \/ Tick \/ DongleLose
          BY <5>1 DEF vars, LinkStatus, Tick, DongleLose, DongleUnchanged
        <5>2. CASE ExecuteBegin \/ PutReady \/ AbortRead \/ GetResult \/ GetTimeout \/ PutTimeout
                     \/ AbortCancel
          BY <5>2 DEF ExecuteBegin, PutReady, PutTimeout, PutMail, AbortRead, GetResult, GetTimeout,
             AbortCancel
        <5>3. CASE PauseEnds \/ DongleMissing \/ CleanupLink \/ OpenSession \/ Poll \/ PollEnds
          BY <5>3 DEF PauseEnds, DongleMissing, CleanupLink, OpenSession, Poll, PollEnds
        <5>4. CASE ReturnATZ \/ ReturnCMEE \/ ReturnCPIN \/ ReturnPIN \/ ReturnCREG \/ ReturnAPN
          BY <5>4 DEF ReturnATZ, ReturnCMEE, ReturnCPIN, ReturnPIN, ReturnCREG, ReturnAPN
        <5> QED
          BY <1>7, <3>2, <5>1, <5>2, <5>3, <5>4 DEF Main
      <4> QED
        BY <4>1
    <3> QED
      BY <3>1, <3>2
  <2> QED
    BY <1>7, <2>1, PipeSame DEF PipeInv
<1>8. CASE ATWait \/ PutResult \/ LinesDone \/ TrySendNothing \/ TrySendTimeout \/ TrySendCommand
  <2>1. apc' \notin {"line", "result"} => lines = <<>>
    BY <1>8 DEF PipeInv, ATWait, PutResult, LinesDone, TrySendNothing, TrySendTimeout, TrySendCommand
  <2> QED
    BY <1>8, <2>1, PipeSame DEF PipeInv
<1> QED
  BY <1>1, <1>2, <1>3, <1>4, <1>5, <1>6, <1>7, <1>8 DEF Next, ATThread

(* The commands whose result may be returned as that of the command under way. *)
Allowed == IF cmd = "AT+CGDCONT" THEN {"AT+CGDCONT", "AT+CREG?"} ELSE {cmd}

MatchInv ==
  /\ Executing =>
       /\ env2AT = "AT_CMD_READY" \/ transactionState = "COMMAND_SENT" =>
            transactionCommand \in Allowed
       /\ transactionState = "READING_RESULT" =>
            Pipe # <<>> /\ Pipe[1].kind # "echo" /\ Pipe[1].cmd \in Allowed
       /\ apc = "result" \/ AT2Env => transactionResult.cmd \in Allowed
  /\ ResultMatchesCommand

LEMMA MatchMain ==
  ASSUME TypeInv, SettledInv, MatchInv, Main
  PROVE  MatchInv'
<1>0. Pipe' = Pipe
  BY PipeSame
<1> USE <1>0, Constants DEF TypeInv, MainTypes, LoopInv, Executing, SettledInv, Quiet, MatchInv, Allowed,
        ResultMatchesCommand, MainUnchanged, Execute, GoTo, Returned, resultVars, loopVars, procVars,
        mailVars, atVars, streamVars, dongleVars, linkVars
<1>1. CASE ExecuteBegin
  BY <1>1 DEF ExecuteBegin
<1>2. CASE PutReady
  BY <1>2 DEF PutReady, PutMail
<1>3. CASE AbortRead
  BY <1>3 DEF AbortRead
<1>4. CASE GetResult
  BY <1>4 DEF GetResult
<1>5. CASE GetTimeout
  BY <1>5 DEF GetTimeout
<1>6. CASE PutTimeout
  BY <1>6 DEF PutTimeout, PutMail
<1>7. CASE AbortCancel
  BY <1>7 DEF AbortCancel
<1>8. CASE PauseEnds
  BY <1>8 DEF PauseEnds
<1>9. CASE DongleConnects
  BY <1>9 DEF DongleConnects
<1>10. CASE DongleMissing
  BY <1>10 DEF DongleMissing
<1>11. CASE ReturnATZ
  BY <1>11 DEF ReturnATZ
<1>12. CASE ReturnCMEE
  BY <1>12 DEF ReturnCMEE
<1>13. CASE ReturnCPIN
  BY <1>13 DEF ReturnCPIN
<1>14. CASE ReturnPIN
  BY <1>14 DEF ReturnPIN
<1>15. CASE ReturnCREG
  BY <1>15 DEF ReturnCREG
<1>16. CASE ReturnAPN
  BY <1>16 DEF ReturnAPN
<1>17. CASE CleanupLink
  BY <1>17 DEF CleanupLink
<1>18. CASE OpenSession
  BY <1>18 DEF OpenSession
<1>19. CASE Poll
  BY <1>19 DEF Poll
<1>20. CASE PollEnds
  BY <1>20 DEF PollEnds
<1> QED
  BY <1>1, <1>2, <1>3, <1>4, <1>5, <1>6, <1>7, <1>8, <1>9, <1>10, <1>11, <1>12, <1>13, <1>14, <1>15, <1>16, <1>17, <1>18, <1>19, <1>20 DEF Main

LEMMA MatchLine ==
  ASSUME TypeInv, SettledInv, PipeInv, MatchInv, ProcessReadLine
  PROVE  MatchInv'
<1>1. Pipe # <<>> /\ Head(lines) = Pipe[1] /\ Dropped(1)
  BY PipeLine
<1>2. ATUnchanged /\ UNCHANGED mailVars /\ apc = "line"
  BY DEF ProcessReadLine
<1>3. Pipe \in Seq(LineType) /\ Len(Pipe) \in Nat \ {0} /\ Pipe[1] \in LineType
  BY <1>1, PipeSeq
<1>4. ASSUME Pipe[1].kind \notin Final
      PROVE  Pipe' # <<>> /\ Pipe'[1].kind # "echo" /\ Pipe'[1].cmd = Pipe[1].cmd
  <2>1. Len(Pipe) # 1
    BY <1>1, <1>4 DEF PipeInv
  <2>2. 1 \in 1 .. Len(Pipe) - 1 /\ 1 \in 1 .. Len(Pipe')
    BY <2>1, <1>1, <1>3 DEF Dropped
  <2>3. Pipe'[1] = Pipe[2] /\ Pipe' # <<>>
    BY <2>2, <1>1 DEF Dropped
  <2> QED
    BY <1>4, <2>2, <2>3 DEF PipeInv, Follows
<1>5. CASE transactionState = "READING_RESULT" /\ Pipe[1].kind \in Final
  <2>1. transactionState' = "IDLE" /\ apc' = "result" /\ transactionResult' = Pipe[1]
    BY <1>1, <1>5 DEF ProcessReadLine
  <2> QED
    BY <1>2, <1>5, <2>1 DEF MatchInv, Executing, Allowed, ResultMatchesCommand, ATUnchanged, mailVars,
       resultVars
<1>6. CASE transactionState = "READING_RESULT" /\ Pipe[1].kind \notin Final
  <2>1. UNCHANGED <<transactionState, apc, transactionResult>>
    BY <1>1, <1>6 DEF ProcessReadLine
  <2> QED
    BY <1>2, <1>4, <1>6, <2>1 DEF MatchInv, Executing, Allowed, ResultMatchesCommand, ATUnchanged,
       mailVars, resultVars
<1>7. CASE transactionState = "COMMAND_SENT" /\ Pipe[1] = Line("echo", transactionCommand)
  <2>1. transactionState' = "READING_RESULT" /\ UNCHANGED <<apc, transactionResult>>
    BY <1>1, <1>7 DEF ProcessReadLine
  <2>2. Pipe[1].kind \notin Final /\ Pipe[1].cmd = transactionCommand
    BY <1>7 DEF Line, Final
  <2> QED
    BY <1>2, <1>4, <1>7, <2>1, <2>2 DEF MatchInv, Executing, Allowed, ResultMatchesCommand, ATUnchanged,
       mailVars, resultVars
<1>8. CASE /\ transactionState # "READING_RESULT"
           /\ ~(transactionState = "COMMAND_SENT" /\ Pipe[1] = Line("echo", transactionCommand))
  <2>1. UNCHANGED <<transactionState, apc, transactionResult>>
    BY <1>1, <1>8 DEF ProcessReadLine
  <2> QED
    BY <1>2, <1>8, <2>1 DEF MatchInv, Executing, Allowed, ResultMatchesCommand, ATUnchanged, mailVars,
       resultVars
<1> QED
  BY <1>5, <1>6, <1>7, <1>8

LEMMA MatchStep ==
  TypeInv /\ WakeInv /\ SettledInv /\ PipeInv /\ MatchInv /\ [Next]_vars => MatchInv'
<1> SUFFICES ASSUME TypeInv, WakeInv, SettledInv, PipeInv, MatchInv, [Next]_vars PROVE MatchInv'
  OBVIOUS
<1> USE DEF MatchInv, Executing, Allowed, ResultMatchesCommand
<1>1. CASE Reset
  BY <1>1 DEF Reset
<1>2. CASE ATStart
  BY <1>2 DEF ATStart, WakeInv, SettledInv, ATUnchanged, mailVars, resultVars
<1>3. CASE ATRead
  BY <1>3, PipeRead DEF ATRead, ATUnchanged, mailVars, resultVars
<1>4. CASE Readable
  BY <1>4, PipeReadable DEF Readable, DongleUnchanged, mailVars, atVars, resultVars, procVars
<1>5. CASE DongleAnswer
  <2>1. Head(toDongle) \in Command
    BY <1>5 DEF DongleAnswer, TypeInv, LineTypes
  <2>2. PICK new \in Seq(LineType) : Pipe' = Pipe \o new
    BY <2>1, <1>5, PipeAnswer, AnswerLines
  <2>3. Pipe # <<>> => Pipe' # <<>> /\ Pipe'[1] = Pipe[1]
    BY <2>2, PipeSeq
  <2> QED
    BY <1>5, <2>3 DEF DongleAnswer, DongleUnchanged, mailVars, atVars, resultVars, procVars
<1>6. CASE UNCHANGED vars \/ LinkStatus \/ Tick \/ DongleLose
  <2>1. Pipe' = Pipe
    BY <1>6, PipeSame
  <2> QED
    BY <1>6, <2>1 DEF vars, LinkStatus, Tick, DongleLose, DongleUnchanged, mailVars, atVars, resultVars,
       procVars
<1>7. CASE ATWait \/ PutResult \/ LinesDone \/ TrySendNothing \/ TrySendTimeout \/ TrySendCommand
  <2>1. Pipe' = Pipe
    BY <1>7, PipeSame
  <2> QED
    BY <1>7, <2>1 DEF ATWait, PutResult, LinesDone, TrySendNothing, TrySendTimeout, TrySendCommand,
       ATUnchanged, mailVars, resultVars
<1> QED
  BY <1>1, <1>2, <1>3, <1>4, <1>5, <1>6, <1>7, MatchMain, MatchLine DEF Next, ATThread

-----------------------------------------------------------------------------
(* AT+CPIN= on its way to the dongle or back, and nothing of it at all. *)
PinSent == \E k \in DOMAIN toDongle : toDongle[k] = "AT+CPIN="
PinAnswered == \E k \in DOMAIN Pipe : Pipe[k].cmd = "AT+CPIN="
PinClean == refused = 0 /\ ~PinSent /\ ~PinAnswered

PinSentOnce ==
  \A j, k \in DOMAIN toDongle : toDongle[j] = "AT+CPIN=" /\ toDongle[k] = "AT+CPIN=" => j = k

(* One answer at most, and none of the PIN's lines behind its end; an OK in it *)
(* means that no PIN was refused.                                              *)
PinAnsweredOnce ==
  \A j, k \in DOMAIN Pipe :
    j < k /\ Pipe[j].cmd = "AT+CPIN=" /\ Pipe[j].kind \in Final => Pipe[k].cmd # "AT+CPIN="
PinOkIsClean ==
  \A k \in DOMAIN Pipe : Pipe[k].cmd = "AT+CPIN=" /\ Pipe[k].kind = "OK" => refused = 0

(* What a reset leaves is the rest of one answer: behind the first line that   *)
(* answers ATZ all lines do.                                                   *)
OneReply == \A j, k \in DOMAIN reply : reply[j].cmd = reply[k].cmd
OneInPipe == \A j, k \in DOMAIN Pipe : Pipe[j].cmd = Pipe[k].cmd
ATZSent == \A k \in DOMAIN toDongle : toDongle[k] = "ATZ"
ATZLast == \A j, k \in DOMAIN Pipe : j < k /\ Pipe[j].cmd = "ATZ" => Pipe[k].cmd = "ATZ"
ATZOnly == \A k \in DOMAIN Pipe : Pipe[k].cmd = "ATZ"

PinInv ==
  /\ refused <= 1 /\ PinSentOnce /\ OneReply
  /\ PinSent => refused = 0 /\ ~PinAnswered
  /\ env2AT = "AT_CMD_READY" /\ transactionCommand = "AT+CPIN=" => Executing /\ cmd = "AT+CPIN="
  /\ mpc = "dongle" => refused = 0 /\ toDongle = <<>> /\ OneInPipe
  /\ Executing /\ cmd = "ATZ" =>
       /\ refused = 0 /\ ATZSent /\ ATZLast
       /\ apc = "result" \/ AT2Env \/ (mpc = "return" /\ ret # "NET_TIMEOUT") => ATZOnly
  /\ Executing /\ cmd \in {"AT+CMEE", "AT+CPIN?"} => PinClean
  /\ Executing /\ cmd = "AT+CPIN=" =>
       /\ mpc \in {"execute", "ready"} \/ env2AT = "AT_CMD_READY" => PinClean
       /\ PinAnsweredOnce /\ PinOkIsClean
       /\ apc = "result" \/ AT2Env => /\ ~PinSent /\ ~PinAnswered
                                      /\ transactionResult.kind = "OK" => refused = 0
       /\ mpc = "return" /\ ret = "OK" => PinClean
       /\ mpc # "pause"

LEMMA CleanFacts ==
  /\ toDongle = <<>> => ATZSent /\ ~PinSent
  /\ OneInPipe => ATZLast
  /\ refused = 0 /\ ATZSent /\ ATZOnly => PinClean
  /\ ~PinAnswered => PinAnsweredOnce /\ PinOkIsClean
BY DEF ATZSent, PinSent, OneInPipe, ATZLast, ATZOnly, PinClean, PinAnswered, PinAnsweredOnce,
   PinOkIsClean

(* Steps that neither send, nor answer, nor read a line. *)
LEMMA PinSame ==
  ASSUME Pipe' = Pipe, toDongle' = toDongle, reply' = reply, refused' = refused
  PROVE  /\ PinSent' = PinSent /\ PinAnswered' = PinAnswered /\ PinClean' = PinClean
         /\ PinSentOnce' = PinSentOnce /\ PinAnsweredOnce' = PinAnsweredOnce
         /\ PinOkIsClean' = PinOkIsClean /\ OneReply' = OneReply /\ OneInPipe' = OneInPipe
         /\ ATZSent' = ATZSent /\ ATZLast' = ATZLast /\ ATZOnly' = ATZOnly
BY DEF PinSent, PinAnswered, PinClean, PinSentOnce, PinAnsweredOnce, PinOkIsClean, OneReply,
   OneInPipe, ATZSent, ATZLast, ATZOnly

LEMMA PinMain ==
  ASSUME TypeInv, SettledInv, PinInv, Main
  PROVE  PinInv'
<1>0. UNCHANGED <<toDongle, refused>>
  <2> USE DEF dongleVars
  <2>1. CASE ExecuteBegin \/ PutReady \/ AbortRead \/ GetResult \/ GetTimeout \/ PutTimeout
               \/ AbortCancel
    BY <2>1 DEF ExecuteBegin, PutReady, PutTimeout, PutMail, AbortRead, GetResult, GetTimeout,
       AbortCancel
  <2>2. CASE PauseEnds \/ DongleConnects \/ DongleMissing \/ CleanupLink \/ OpenSession \/ Poll
               \/ PollEnds
    BY <2>2 DEF MainUnchanged, PauseEnds, DongleConnects, DongleMissing, CleanupLink, OpenSession,
       Poll, PollEnds
  <2>3. CASE ReturnATZ \/ ReturnCMEE \/ ReturnCPIN \/ ReturnPIN \/ ReturnCREG \/ ReturnAPN
    BY <2>3 DEF MainUnchanged, ReturnATZ, ReturnCMEE, ReturnCPIN, ReturnPIN, ReturnCREG, ReturnAPN
  <2> QED
    BY <2>1, <2>2, <2>3 DEF Main
<1>a. /\ PinSent' = PinSent /\ PinAnswered' = PinAnswered /\ PinClean' = PinClean
      /\ PinSentOnce' = PinSentOnce /\ PinAnsweredOnce' = PinAnsweredOnce
      /\ PinOkIsClean' = PinOkIsClean /\ OneReply' = OneReply /\ OneInPipe' = OneInPipe
      /\ ATZSent' = ATZSent /\ ATZLast' = ATZLast /\ ATZOnly' = ATZOnly
  BY <1>0, PipeSame, PinSame
<1>b. PinClean <=> refused = 0 /\ ~PinSent /\ ~PinAnswered
  BY DEF PinClean
<1> USE <1>0, <1>a, <1>b, CleanFacts, Constants DEF TypeInv, MainTypes, LoopInv, Executing, SettledInv,
        Quiet, PinInv, MainUnchanged, Execute, GoTo, Returned, resultVars, loopVars, procVars,
        mailVars, atVars, streamVars, linkVars
<1>1. CASE ExecuteBegin
  BY <1>1 DEF ExecuteBegin
<1>2. CASE PutReady
  BY <1>2 DEF PutReady, PutMail
<1>3. CASE AbortRead
  BY <1>3 DEF AbortRead
<1>4. CASE GetResult
  BY <1>4 DEF GetResult
<1>5. CASE GetTimeout
  BY <1>5 DEF GetTimeout
<1>6. CASE PutTimeout
  BY <1>6 DEF PutTimeout, PutMail
<1>7. CASE AbortCancel
  BY <1>7 DEF AbortCancel
<1>8. CASE PauseEnds
  BY <1>8 DEF PauseEnds
<1>9. CASE DongleConnects
  BY <1>9 DEF DongleConnects
<1>10. CASE DongleMissing
  BY <1>10 DEF DongleMissing
<1>11. CASE ReturnATZ
  BY <1>11 DEF ReturnATZ
<1>12. CASE ReturnCMEE
  BY <1>12 DEF ReturnCMEE
<1>13. CASE ReturnCPIN
  BY <1>13 DEF ReturnCPIN
<1>14. CASE ReturnPIN
  BY <1>14 DEF ReturnPIN
<1>15. CASE ReturnCREG
  BY <1>15 DEF ReturnCREG
<1>16. CASE ReturnAPN
  BY <1>16 DEF ReturnAPN
<1>17. CASE CleanupLink
  BY <1>17 DEF CleanupLink
<1>18. CASE OpenSession
  BY <1>18 DEF OpenSession
<1>19. CASE Poll
  BY <1>19 DEF Poll
<1>20. CASE PollEnds
  BY <1>20 DEF PollEnds
<1> QED
  BY <1>1, <1>2, <1>3, <1>4, <1>5, <1>6, <1>7, <1>8, <1>9, <1>10, <1>11, <1>12, <1>13, <1>14, <1>15, <1>16, <1>17, <1>18, <1>19, <1>20 DEF Main

(* Lines that are gone take nothing away from what is known of the others. *)
LEMMA PinDropped ==
  ASSUME TypeInv, TypeInv', NEW n \in 0 .. Len(Pipe), Dropped(n), UNCHANGED refused
  PROVE  /\ ~PinAnswered => ~PinAnswered'
         /\ PinAnsweredOnce => PinAnsweredOnce'
         /\ PinOkIsClean => PinOkIsClean'
         /\ OneInPipe => OneInPipe'
         /\ ATZLast => ATZLast'
         /\ ATZOnly => ATZOnly'
<1>1. /\ DOMAIN Pipe = 1 .. Len(Pipe) /\ DOMAIN Pipe' = 1 .. Len(Pipe')
      /\ Len(Pipe) \in Nat /\ Len(Pipe') \in Nat
  BY PipeSeq DEF Pipe, TypeInv, ATTypes, LineTypes
<1>2. \A k \in DOMAIN Pipe' : k + n \in DOMAIN Pipe /\ Pipe'[k] = Pipe[k + n]
  BY <1>1 DEF Dropped
<1>3. \A j, k \in DOMAIN Pipe' : j < k => j + n < k + n
  BY <1>1
<1>4. ~PinAnswered => ~PinAnswered'
  BY <1>2 DEF PinAnswered
<1>5. PinAnsweredOnce => PinAnsweredOnce'
  BY <1>2, <1>3 DEF PinAnsweredOnce
<1>6. PinOkIsClean => PinOkIsClean'
  BY <1>2 DEF PinOkIsClean
<1>7. OneInPipe => OneInPipe'
  BY <1>2 DEF OneInPipe
<1>8. ATZLast => ATZLast'
  BY <1>2, <1>3 DEF ATZLast
<1>9. ATZOnly => ATZOnly'
  BY <1>2 DEF ATZOnly
<1> QED
  BY <1>4, <1>5, <1>6, <1>7, <1>8, <1>9

LEMMA PinReset ==
  ASSUME TypeInv, PinInv, Reset
  PROVE  PinInv'
<1>1. Pipe' = reply /\ reply' = reply
  BY PipeReset DEF Reset
<1>2. OneReply' /\ OneInPipe'
  BY <1>1 DEF PinInv, OneReply, OneInPipe
<1>3. PinSentOnce' /\ ~PinSent'
  BY DEF Reset, PinSentOnce, PinSent
<1> QED
  BY <1>2, <1>3 DEF Reset, PinInv, Executing

(* What the AT thread drops when it starts. *)
LEMMA PinStart ==
  ASSUME TypeInv, TypeInv', PipeInv, PinInv, ATStart
  PROVE  PinInv'
<1>1. PICK n \in 0 .. Len(Pipe) : Dropped(n)
  BY PipeStart
<1>2. /\ UNCHANGED <<toDongle, reply, refused>> /\ apc = "start" /\ apc' = "wait"
      /\ UNCHANGED <<mpc, cmd, ret, env2AT, AT2Env, transactionCommand, transactionResult>>
  BY DEF ATStart, ATUnchanged, dongleVars, mailVars, resultVars
<1>3. /\ ~PinAnswered => ~PinAnswered'
      /\ PinAnsweredOnce => PinAnsweredOnce'
      /\ PinOkIsClean => PinOkIsClean'
      /\ OneInPipe => OneInPipe'
      /\ ATZLast => ATZLast'
      /\ ATZOnly => ATZOnly'
  BY <1>1, <1>2, PinDropped
<1>4. /\ PinSent' = PinSent /\ PinSentOnce' = PinSentOnce /\ OneReply' = OneReply
      /\ ATZSent' = ATZSent
  BY <1>2 DEF PinSent, PinSentOnce, OneReply, ATZSent
<1> QED
  BY <1>2, <1>3, <1>4 DEF PinInv, PinClean, Executing

(* A line is read.  When it ends the transaction of ATZ, all that is left      *)
(* answers ATZ; when it ends that of AT+CPIN=, nothing is left of it.          *)
LEMMA PinLine ==
  ASSUME TypeInv, TypeInv', SettledInv, PipeInv, MatchInv, PinInv, ProcessReadLine
  PROVE  PinInv'
<1>1. Pipe # <<>> /\ Head(lines) = Pipe[1] /\ Dropped(1)
  BY PipeLine
<1>2. /\ UNCHANGED <<toDongle, reply, refused>> /\ apc = "line"
      /\ UNCHANGED <<mpc, cmd, ret, env2AT, AT2Env, transactionCommand>>
  BY DEF ProcessReadLine, ATUnchanged, dongleVars, mailVars, resultVars
<1>3. /\ ~PinAnswered => ~PinAnswered'
      /\ PinAnsweredOnce => PinAnsweredOnce'
      /\ PinOkIsClean => PinOkIsClean'
      /\ OneInPipe => OneInPipe'
      /\ ATZLast => ATZLast'
      /\ ATZOnly => ATZOnly'
  BY <1>1, <1>2, PinDropped DEF Dropped
<1>4. /\ PinSent' = PinSent /\ PinSentOnce' = PinSentOnce /\ OneReply' = OneReply
      /\ ATZSent' = ATZSent
  BY <1>2 DEF PinSent, PinSentOnce, OneReply, ATZSent
<1>5. /\ Pipe \in Seq(LineType) /\ DOMAIN Pipe = 1 .. Len(Pipe) /\ Len(Pipe) \in Nat \ {0}
      /\ Pipe' \in Seq(LineType) /\ DOMAIN Pipe' = 1 .. Len(Pipe') /\ Len(Pipe') = Len(Pipe) - 1
  BY <1>1, PipeSeq DEF Dropped, Pipe, TypeInv, ATTypes, LineTypes
<1>6. \A k \in DOMAIN Pipe' : k + 1 \in DOMAIN Pipe /\ 1 < k + 1 /\ Pipe'[k] = Pipe[k + 1]
  BY <1>1, <1>5 DEF Dropped
<1>7. 1 \in DOMAIN Pipe
  BY <1>5
<1>8. CASE transactionState = "READING_RESULT" /\ Pipe[1].kind \in Final
  <2>1. apc' = "result" /\ transactionResult' = Pipe[1]
    BY <1>1, <1>8 DEF ProcessReadLine
  <2>2. Executing => Pipe[1].cmd \in Allowed
    BY <1>8 DEF MatchInv
  <2>3. ASSUME Executing, cmd = "ATZ" PROVE ATZOnly'
    <3>1. Pipe[1].cmd = "ATZ" /\ ATZLast
      BY <2>2, <2>3 DEF Allowed, PinInv
    <3> QED
      BY <3>1, <1>6, <1>7 DEF ATZLast, ATZOnly
  <2>4. ASSUME Executing, cmd = "AT+CPIN="
        PROVE  ~PinSent /\ ~PinAnswered' /\ (Pipe[1].kind = "OK" => refused = 0)
    <3>1. Pipe[1].cmd = "AT+CPIN=" /\ PinAnsweredOnce /\ PinOkIsClean
      BY <2>2, <2>4 DEF Allowed, PinInv
    <3>2. PinAnswered
      BY <3>1, <1>7 DEF PinAnswered
    <3>3. ~PinAnswered'
      BY <3>1, <1>6, <1>7, <1>8 DEF PinAnsweredOnce, PinAnswered
    <3>4. Pipe[1].kind = "OK" => refused = 0
      BY <3>1, <1>7 DEF PinOkIsClean
    <3> QED
      BY <3>2, <3>3, <3>4 DEF PinInv
  <2> QED
    BY <1>2, <1>3, <1>4, <2>1, <2>3, <2>4 DEF PinInv, PinClean, Executing
<1>9. CASE ~(transactionState = "READING_RESULT" /\ Pipe[1].kind \in Final)
  <2>1. UNCHANGED <<apc, transactionResult>>
    BY <1>1, <1>9 DEF ProcessReadLine
  <2> QED
    BY <1>2, <1>3, <1>4, <2>1 DEF PinInv, PinClean, Executing
<1> QED
  BY <1>8, <1>9

LEMMA PinSend ==
  ASSUME TypeInv, SettledInv, MatchInv, PinInv, TrySendCommand
  PROVE  PinInv'
<1>0. Pipe' = Pipe /\ reply' = reply
  BY PipeSame
<1>1. /\ env2AT = "AT_CMD_READY" /\ env2AT' = "none" /\ toDongle' = Append(toDongle, transactionCommand)
      /\ apc = "send" /\ apc' = "wait" /\ UNCHANGED refused
      /\ UNCHANGED <<mpc, cmd, ret, AT2Env, transactionCommand, transactionResult>>
  BY DEF TrySendCommand, ATUnchanged, resultVars
<1>2. /\ toDongle \in Seq(Command) /\ Len(toDongle) \in Nat /\ DOMAIN toDongle = 1 .. Len(toDongle)
      /\ DOMAIN toDongle' = 1 .. Len(toDongle) + 1
      /\ toDongle'[Len(toDongle) + 1] = transactionCommand
      /\ \A k \in DOMAIN toDongle : toDongle'[k] = toDongle[k]
  BY <1>1 DEF TypeInv, LineTypes, LoopInv
<1>3. \A k \in DOMAIN toDongle' : k \in DOMAIN toDongle \/ k = Len(toDongle) + 1
  BY <1>2
<1>4. /\ PinAnswered' = PinAnswered /\ PinAnsweredOnce' = PinAnsweredOnce
      /\ PinOkIsClean' = PinOkIsClean /\ OneReply' = OneReply /\ OneInPipe' = OneInPipe
      /\ ATZLast' = ATZLast /\ ATZOnly' = ATZOnly
  BY <1>0, <1>1 DEF PinAnswered, PinAnsweredOnce, PinOkIsClean, OneReply, OneInPipe, ATZLast, ATZOnly
<1>5. Executing => transactionCommand \in Allowed
  BY <1>1 DEF MatchInv
<1>6. CASE transactionCommand = "AT+CPIN="
  <2>1. Executing /\ cmd = "AT+CPIN=" /\ PinClean
    BY <1>1, <1>6 DEF PinInv
  <2>2. PinSentOnce'
    BY <2>1, <1>2, <1>3 DEF PinClean, PinSent, PinSentOnce
  <2>3. mpc \in {"abort", "result", "cancel"} /\ ~AT2Env
    BY <2>1, <1>1 DEF SettledInv
  <2> QED
    BY <2>1, <2>2, <2>3, <1>1, <1>4 DEF PinInv, PinClean, Executing
<1>7. CASE transactionCommand # "AT+CPIN="
  <2>1. PinSent' = PinSent /\ PinSentOnce'
    <3>1. PinSent' <=> PinSent
      BY <1>2, <1>3, <1>7 DEF PinSent
    <3>2. PinSentOnce'
      BY <1>2, <1>3, <1>7 DEF PinSentOnce, PinInv
    <3> QED
      BY <3>1, <3>2 DEF PinSent
  <2>2. Executing /\ cmd = "ATZ" => ATZSent'
    <3> SUFFICES ASSUME Executing, cmd = "ATZ" PROVE ATZSent'
      OBVIOUS
    <3>1. transactionCommand = "ATZ" /\ ATZSent
      BY <1>5 DEF Allowed, PinInv
    <3> QED
      BY <3>1, <1>2, <1>3 DEF ATZSent
  <2>3. Executing => cmd # "AT+CPIN="
    BY <1>5, <1>7 DEF Allowed
  <2>4. mpc # "dongle"
    BY <1>1 DEF SettledInv, Quiet
  <2> QED
    BY <2>1, <2>2, <2>3, <2>4, <1>1, <1>4 DEF PinInv, PinClean, Executing
<1> QED
  BY <1>6, <1>7

(* The dongle takes a command.  A PIN is answered once, when none is answered. *)
LEMMA PinTaken ==
  ASSUME TypeInv, toDongle # <<>>, toDongle' = Tail(toDongle)
  PROVE  /\ PinSent' => PinSent
         /\ PinSentOnce => PinSentOnce'
         /\ ATZSent => ATZSent'
         /\ PinSentOnce /\ Head(toDongle) = "AT+CPIN=" => PinSent /\ ~PinSent'
         /\ ATZSent => Head(toDongle) = "ATZ"
<1>1. /\ toDongle \in Seq(Command) /\ Len(toDongle) \in Nat \ {0} /\ Head(toDongle) = toDongle[1]
      /\ DOMAIN toDongle = 1 .. Len(toDongle) /\ DOMAIN toDongle' = 1 .. Len(toDongle) - 1
      /\ \A k \in DOMAIN toDongle' : toDongle'[k] = toDongle[k + 1]
  BY DEF TypeInv, LineTypes
<1>2. /\ 1 \in DOMAIN toDongle
      /\ \A k \in DOMAIN toDongle' : k + 1 \in DOMAIN toDongle /\ k + 1 # 1
      /\ \A j, k \in DOMAIN toDongle' : j + 1 = k + 1 => j = k
  BY <1>1
<1>3. PinSent' => PinSent
  BY <1>1, <1>2 DEF PinSent
<1>4. PinSentOnce => PinSentOnce'
  BY <1>1, <1>2 DEF PinSentOnce
<1>5. ATZSent => ATZSent' /\ Head(toDongle) = "ATZ"
  BY <1>1, <1>2 DEF ATZSent
<1>6. PinSentOnce /\ Head(toDongle) = "AT+CPIN=" => PinSent /\ ~PinSent'
  BY <1>1, <1>2 DEF PinSentOnce, PinSent
<1> QED
  BY <1>3, <1>4, <1>5, <1>6

LEMMA PinAnswer ==
  ASSUME TypeInv, TypeInv', PinInv, DongleAnswer
  PROVE  PinInv'
<1> DEFINE c == Head(toDongle)
<1>0. /\ toDongle # <<>> /\ toDongle' = Tail(toDongle) /\ c \in Command
      /\ UNCHANGED <<mpc, cmd, ret, env2AT, AT2Env, apc, transactionCommand, transactionResult>>
  BY DEF DongleAnswer, DongleUnchanged, resultVars, mailVars, atVars, procVars, TypeInv, LineTypes
<1>1. PICK a \in Answers(c) :
        /\ reply = <<>> /\ reply' = Answer(c, a) /\ Pipe' = Pipe \o Answer(c, a)
        /\ refused' = IF c = "AT+CPIN=" /\ a = <<"ERROR">> THEN refused + 1 ELSE refused
  BY PipeAnswer
<1> DEFINE new == Answer(c, a)
<1>2. /\ new \in Seq(LineType) /\ Len(new) \in {2, 3}
      /\ \A k \in 1 .. Len(new) : new[k].cmd = c
      /\ \A k \in 1 .. Len(new) : new[k].kind \in Final <=> k = Len(new)
      /\ new[Len(new)].kind = "OK" => a # <<"ERROR">>
  BY <1>0, AnswerLines
<1>3. reply' = new /\ Pipe' = Pipe \o new
  BY <1>1
<1> HIDE DEF new, c
<1>4. /\ Pipe \in Seq(LineType) /\ Len(Pipe) \in Nat /\ DOMAIN Pipe = 1 .. Len(Pipe)
      /\ Len(new) \in Nat
  BY <1>2, PipeSeq
<1>5. /\ DOMAIN Pipe' = 1 .. Len(Pipe) + Len(new)
      /\ \A i \in 1 .. Len(Pipe) + Len(new) :
           Pipe'[i] = IF i <= Len(Pipe) THEN Pipe[i] ELSE new[i - Len(Pipe)]
  BY <1>2, <1>3, <1>4, ConcatProperties
<1>6. ASSUME NEW k \in DOMAIN Pipe'
      PROVE  \/ k \in DOMAIN Pipe /\ Pipe'[k] = Pipe[k]
             \/ /\ k - Len(Pipe) \in 1 .. Len(new) /\ Pipe'[k] = new[k - Len(Pipe)]
                /\ Pipe'[k].cmd = c
                /\ Pipe'[k].kind \in Final <=> k = Len(Pipe) + Len(new)
  <2>1. CASE k <= Len(Pipe)
    BY <2>1, <1>4, <1>5
  <2>2. CASE ~(k <= Len(Pipe))
    <3>1. k - Len(Pipe) \in 1 .. Len(new) /\ (k - Len(Pipe) = Len(new) <=> k = Len(Pipe) + Len(new))
      BY <2>2, <1>4, <1>5
    <3> QED
      BY <2>2, <3>1, <1>2, <1>5
  <2> QED
    BY <2>1, <2>2
<1>7. OneReply'
  BY <1>2, <1>3, <1>4 DEF OneReply
<1>8. /\ PinSent' => PinSent
      /\ PinSentOnce'
      /\ ATZSent => ATZSent' /\ c = "ATZ"
      /\ c = "AT+CPIN=" => PinSent /\ ~PinSent'
  BY <1>0, PinTaken DEF PinInv, c
<1>9. mpc # "dongle"
  BY <1>0 DEF PinInv
<1>10. CASE c = "AT+CPIN="
  <2>1. PinSent /\ ~PinSent' /\ refused = 0 /\ ~PinAnswered
    BY <1>8, <1>10 DEF PinInv
  <2>2. refused' \in {0, 1}
    BY <1>1, <2>1
  <2>3. PinAnsweredOnce'
    <3> SUFFICES ASSUME NEW j \in DOMAIN Pipe', NEW k \in DOMAIN Pipe', j < k,
                        Pipe'[j].cmd = "AT+CPIN=", Pipe'[j].kind \in Final
                 PROVE  FALSE
      BY DEF PinAnsweredOnce
    <3>1. j = Len(Pipe) + Len(new)
      BY <1>6, <2>1 DEF PinAnswered
    <3> QED
      BY <3>1, <1>4, <1>5
  <2>4. PinOkIsClean'
    <3> SUFFICES ASSUME NEW k \in DOMAIN Pipe', Pipe'[k].cmd = "AT+CPIN=", Pipe'[k].kind = "OK"
                 PROVE  refused' = 0
      BY DEF PinOkIsClean
    <3>1. Pipe'[k] = new[k - Len(Pipe)] /\ Pipe'[k].kind \in Final
      BY <1>6, <2>1 DEF PinAnswered, Final
    <3>2. k = Len(Pipe) + Len(new) /\ k - Len(Pipe) = Len(new)
      BY <3>1, <1>4, <1>6, <2>1 DEF PinAnswered
    <3> QED
      BY <3>1, <3>2, <1>1, <1>2, <2>1 DEF new
  <2>5. Executing => cmd \notin {"ATZ", "AT+CMEE", "AT+CPIN?"}
    BY <1>8, <1>10, <2>1 DEF PinInv, PinClean
  <2>6. Executing /\ cmd = "AT+CPIN=" =>
          /\ mpc \notin {"execute", "ready"} /\ env2AT # "AT_CMD_READY" /\ apc # "result" /\ ~AT2Env
          /\ ~(mpc = "return" /\ ret = "OK") /\ mpc # "pause"
    BY <2>1 DEF PinInv, PinClean
  <2>7. refused' <= 1
    BY <2>2
  <2> QED
    BY <2>1, <2>3, <2>4, <2>5, <2>6, <2>7, <1>0, <1>7, <1>8, <1>9 DEF PinInv, Executing
<1>11. CASE c # "AT+CPIN="
  <2>1. refused' = refused
    BY <1>1, <1>11
  <2>2. PinAnswered' <=> PinAnswered
    <3>1. ASSUME PinAnswered' PROVE PinAnswered
      BY <3>1, <1>6, <1>11 DEF PinAnswered
    <3>2. \A k \in DOMAIN Pipe : k \in DOMAIN Pipe' /\ Pipe'[k] = Pipe[k]
      BY <1>4, <1>5
    <3>3. ASSUME PinAnswered PROVE PinAnswered'
      BY <3>2, <3>3 DEF PinAnswered
    <3> QED
      BY <3>1, <3>3
  <2>3. PinAnsweredOnce => PinAnsweredOnce'
    BY <1>6, <1>11 DEF PinAnsweredOnce
  <2>4. PinOkIsClean => PinOkIsClean'
    BY <1>6, <1>11, <2>1 DEF PinOkIsClean
  <2>5. c = "ATZ" /\ ATZOnly => ATZOnly'
    BY <1>6 DEF ATZOnly
  <2>6. c = "ATZ" /\ ATZLast => ATZLast'
    <3> SUFFICES ASSUME c = "ATZ", ATZLast, NEW j \in DOMAIN Pipe', NEW k \in DOMAIN Pipe', j < k,
                        Pipe'[j].cmd = "ATZ"
                 PROVE  Pipe'[k].cmd = "ATZ"
      BY DEF ATZLast
    <3>1. CASE k \in DOMAIN Pipe /\ Pipe'[k] = Pipe[k]
      <4>1. j \in DOMAIN Pipe /\ Pipe'[j] = Pipe[j]
        BY <3>1, <1>4, <1>5
      <4> QED
        BY <3>1, <4>1 DEF ATZLast
    <3>2. CASE Pipe'[k].cmd = c
      BY <3>2
    <3> QED
      BY <3>1, <3>2, <1>6
  <2> QED
    BY <2>1, <2>2, <2>3, <2>4, <2>5, <2>6, <1>0, <1>7, <1>8, <1>9 DEF PinInv, PinClean, Executing
<1> QED
  BY <1>10, <1>11

LEMMA PinStep ==
  /\ TypeInv /\ SettledInv /\ PipeInv /\ MatchInv /\ PinInv /\ [Next]_vars => PinInv'
<1> SUFFICES ASSUME TypeInv, SettledInv, PipeInv, MatchInv, PinInv, [Next]_vars PROVE PinInv'
  OBVIOUS
<1>0. TypeInv'
  BY TypeStep
<1>1. CASE DongleLose
  <2>1. /\ Pipe' = Pipe /\ reply' = reply /\ toDongle # <<>> /\ toDongle' = Tail(toDongle)
        /\ UNCHANGED <<mpc, cmd, ret, env2AT, AT2Env, apc, transactionCommand, transactionResult, refused>>
    BY <1>1, PipeSame DEF DongleLose, DongleUnchanged, resultVars, mailVars, atVars, procVars
  <2>2. /\ PinAnswered' = PinAnswered /\ PinAnsweredOnce' = PinAnsweredOnce
        /\ PinOkIsClean' = PinOkIsClean /\ OneReply' = OneReply /\ OneInPipe' = OneInPipe
        /\ ATZLast' = ATZLast /\ ATZOnly' = ATZOnly
    BY <2>1 DEF PinAnswered, PinAnsweredOnce, PinOkIsClean, OneReply, OneInPipe, ATZLast, ATZOnly
  <2>3. /\ PinSent' => PinSent
        /\ PinSentOnce'
        /\ ATZSent => ATZSent'
    BY <2>1, PinTaken DEF PinInv
  <2> QED
    BY <2>1, <2>2, <2>3 DEF PinInv, PinClean, Executing
<1>2. CASE \/ UNCHANGED vars \/ LinkStatus \/ Tick \/ ATWait \/ PutResult \/ LinesDone
           \/ TrySendNothing \/ TrySendTimeout \/ Readable \/ ATRead
  <2>1. Pipe' = Pipe
    BY <1>2, PipeSame, PipeReadable, PipeRead
  <2>2. /\ toDongle' = toDongle /\ refused' = refused
        /\ UNCHANGED <<mpc, cmd, ret, transactionCommand, transactionResult>>
        /\ apc' = "result" => apc = "result"
        /\ AT2Env' => apc = "result" \/ AT2Env
        /\ env2AT' = "AT_CMD_READY" => env2AT = "AT_CMD_READY"
    BY <1>2 DEF vars, LinkStatus, Tick, ATWait, PutResult, LinesDone, TrySendNothing, TrySendTimeout,
       Readable, ATRead, ATUnchanged, DongleUnchanged, resultVars, procVars, mailVars, atVars, dongleVars
  <2>3. OneReply'
    <3>1. CASE Readable
      BY <3>1 DEF Readable, OneReply, PinInv, TypeInv, LineTypes
    <3>2. CASE ~Readable
      <4>1. reply' = reply
        BY <1>2, <3>2 DEF vars, LinkStatus, Tick, ATWait, PutResult, LinesDone, TrySendNothing,
           TrySendTimeout, ATRead, dongleVars
      <4> QED
        BY <4>1 DEF OneReply, PinInv
    <3> QED
      BY <3>1, <3>2
  <2>4. /\ PinSent' = PinSent /\ PinAnswered' = PinAnswered /\ PinClean' = PinClean
        /\ PinSentOnce' = PinSentOnce /\ PinAnsweredOnce' = PinAnsweredOnce
        /\ PinOkIsClean' = PinOkIsClean /\ OneInPipe' = OneInPipe
        /\ ATZSent' = ATZSent /\ ATZLast' = ATZLast /\ ATZOnly' = ATZOnly
    BY <2>1, <2>2 DEF PinSent, PinAnswered, PinClean, PinSentOnce, PinAnsweredOnce, PinOkIsClean,
       OneInPipe, ATZSent, ATZLast, ATZOnly
  <2> QED
    BY <2>2, <2>3, <2>4 DEF PinInv, Executing
<1> QED
  BY <1>0, <1>1, <1>2, PinMain, PinReset, PinStart, PinLine, PinSend, PinAnswer DEF Next, ATThread

-----------------------------------------------------------------------------
ModemInv == /\ TypeInv /\ WakeInv /\ PollInv /\ SettledInv /\ PipeInv /\ MatchInv /\ PinInv

LEMMA InitGood == Init => ModemInv
<1> SUFFICES ASSUME Init PROVE ModemInv
  OBVIOUS
<1>1. TypeInv
  BY TypeBoot
<1>2. WakeInv /\ SettledInv
  BY DEF Init, WakeInv, SettledInv, NoLostWakeUp, Quiet, Executing
<1>3. PollInv
  BY Constants DEF Init, PollInv, MainOnlyConnected
<1>4. Pipe = <<>> /\ lines = <<>>
  BY <1>1, PipeSeq, ConcatEmptySeq DEF Init, Pipe
<1>5. PipeInv
  BY <1>4 DEF PipeInv
<1>6. MatchInv
  BY DEF Init, MatchInv, ResultMatchesCommand, Executing
<1>7. PinSentOnce /\ OneReply /\ OneInPipe /\ ~PinSent
  BY <1>4 DEF Init, PinSentOnce, OneReply, OneInPipe, PinSent
<1>8. PinInv
  BY <1>7 DEF Init, PinInv, Executing
<1> QED
  BY <1>1, <1>2, <1>3, <1>5, <1>6, <1>8 DEF ModemInv

(* The inductive invariant of the start-up. *)
THEOREM ModemInvariant == Spec => []ModemInv
<1>1. ModemInv /\ [Next]_vars => ModemInv'
  BY TypeStep, WakeStep, PollStep, SettledStep, PipeInvStep, MatchStep, PinStep DEF ModemInv
<1> QED
  BY <1>1, InitGood, PTL DEF Spec

(* Types: no counter of the loops of init and connect ever gets below zero. *)
THEOREM TypeCorrect == Spec => []TypeOK
<1>1. ModemInv => TypeOK
  BY TypesAgree DEF ModemInv, TypeInv
<1> QED
  BY <1>1, ModemInvariant, PTL

(* The AT thread does not sleep on a message of execute.  *)
THEOREM WakeUpNotLost == Spec => []NoLostWakeUp
<1>1. ModemInv => NoLostWakeUp
  BY DEF ModemInv, WakeInv
<1> QED
  BY <1>1, ModemInvariant, PTL

(* Whatever the polls and the watchdog, as long as the watchdog is not the     *)
(* slower one, connect returns OK only when the link came up.                  *)
THEOREM ConnectedBeforeMain == Spec => []MainOnlyConnected
<1>1. ModemInv => MainOnlyConnected
  BY DEF ModemInv, PollInv
<1> QED
  BY <1>1, ModemInvariant, PTL

(* The echo keeps late answers apart, for all timeouts, pauses and numbers of  *)
(* attempts: execute returns the result of another command only to AT+CGDCONT. *)
THEOREM ResultsMatch == Spec => []ResultMatchesCommand
<1>1. ModemInv => ResultMatchesCommand
  BY DEF ModemInv, MatchInv
<1> QED
  BY <1>1, ModemInvariant, PTL

(* init never has a second PIN refused, even if the answer to the first comes  *)
(* late, is lost, or is preceded by answers from before a reset.               *)
THEOREM OnePinRefused == Spec => []PinRefusedOnce
<1>1. ModemInv => PinRefusedOnce
  BY DEF ModemInv, PinInv, PinRefusedOnce
<1> QED
  BY <1>1, ModemInvariant, PTL
=============================================================================
