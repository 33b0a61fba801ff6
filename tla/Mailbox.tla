------------------------------- MODULE Mailbox -------------------------------
(***************************************************************************)
(* mailbox_t with its signaler_t: how any thread of 0MQ sends a command to *)
(* the one thread that owns an object. Senders share the writing end of a  *)
(* YPipe under a mutex; a sender that finds the reader asleep adds one to  *)
(* an eventfd, on which the reader waits. Commands are numbered per sender.*)
(***************************************************************************)
EXTENDS YPipe

CONSTANTS
    Senders,
    MaxSends    \* bound: commands per sender

VARIABLES
    lock,       \* the sender that holds sync, or Null
    snd,        \* where each sender is in send
    sent,       \* commands each sender has written
    signals,    \* the eventfd's counter
    active,     \* of mailbox_t
    mpc,        \* where the owner is in recv
    got         \* the last command received from each sender

mbVars == <<lock, snd, sent, signals, active, mpc, got>>
vars == <<ypVars, mbVars>>

Commands == Senders \X (1..MaxSends)
ASSUME MailboxAssumption == MaxSends \in Nat /\ Commands \subseteq Values /\ Null \notin Senders

(* The constructor reads once, so that the first command is signalled. *)
MBInit ==
    /\ QueueInit /\ PointersInit /\ c = Null
    /\ lock = Null /\ snd = [s \in Senders |-> "idle"] /\ sent = [s \in Senders |-> 0]
    /\ signals = 0 /\ active = FALSE /\ mpc = "idle" /\ got = [s \in Senders |-> 0]

-------------------------------------------------------------------------------
(* send *)

Step(s, from, to) == snd[s] = from /\ snd' = [snd EXCEPT ![s] = to]
ReaderSame == UNCHANGED <<signals, active, mpc, got>>

SendWrite(s) ==
    /\ sent[s] < MaxSends
    /\ Step(s, "idle", "written")
    /\ lock = Null /\ lock' = s
    /\ sent' = [sent EXCEPT ![s] = @ + 1]
    /\ Write(<<s, sent[s] + 1>>, FALSE)
    /\ ReaderSame

SendFlush(s) ==
    /\ Step(s, "written", IF c = w THEN "ok" ELSE "asleep")
    /\ Flush
    /\ UNCHANGED <<lock, sent>> /\ ReaderSame

SendWakes(s) ==
    /\ Step(s, "asleep", "not ok")
    /\ FlushAsleep
    /\ UNCHANGED <<lock, sent>> /\ ReaderSame

(* What follows the unlock: a signal when the flush said that the reader slept. *)
UnlockTo(s, afterOk, afterNotOk) ==
    /\ Step(s, "ok", afterOk) \/ Step(s, "not ok", afterNotOk)
    /\ lock' = Null
    /\ UNCHANGED <<ypVars, sent>> /\ ReaderSame

(* Faulty variants: nobody is woken; every command is signalled. *)
UnlockNoSignal(s) == UnlockTo(s, "idle", "idle")
UnlockAlwaysSignal(s) == UnlockTo(s, "signal", "signal")

Unlock(s) == UnlockTo(s, "idle", "signal")

(* signaler_t::send *)
Signal(s) ==
    /\ Step(s, "signal", "idle")
    /\ signals' = signals + 1
    /\ UNCHANGED <<ypVars, lock, sent, active, mpc, got>>

-------------------------------------------------------------------------------
(* recv; "abort" is a failed assertion *)

SendersSame == UNCHANGED <<lock, snd, sent>>

RecvCall ==
    /\ mpc = "idle"
    /\ mpc' = IF active THEN "read" ELSE "wait"
    /\ UNCHANGED <<ypVars, signals, active, got>> /\ SendersSame

(* cpipe.read: its check, while active and again after the signal *)
RecvCheck ==
    /\ mpc \in {"read", "reread"}
    /\ CheckRead
    /\ mpc' = IF rpc' = "avail" THEN "pop" ELSE IF mpc = "read" THEN "drain" ELSE "abort"
    /\ active' = (mpc' = "pop")
    /\ UNCHANGED <<signals, got>> /\ SendersSame

RecvPop ==
    /\ mpc = "pop"
    /\ Read
    /\ mpc' = "idle"
    /\ LET x == val[FrontSlot].v IN got' = [got EXCEPT ![x[1]] = x[2]]
    /\ UNCHANGED <<signals, active>> /\ SendersSame

(* Faulty variant: the signal of a command that came meanwhile is swallowed. *)
DrainAll ==
    /\ mpc = "drain"
    /\ signals' = 0
    /\ mpc' = "wait"
    /\ UNCHANGED <<ypVars, active, got>> /\ SendersSame

(* signaler_t::recv: the eventfd gives all it has at once *)
Drain ==
    /\ mpc = "drain"
    /\ signals' = 0
    /\ mpc' = CASE signals = 1 -> "wait" [] signals = 2 -> "put back" [] OTHER -> "abort"
    /\ UNCHANGED <<ypVars, active, got>> /\ SendersSame

(* ... and the signal that was not meant is given back. *)
PutBack ==
    /\ mpc = "put back"
    /\ signals' = signals + 1
    /\ mpc' = "wait"
    /\ UNCHANGED <<ypVars, active, got>> /\ SendersSame

(* signaler_t::wait: a signal, *)
Woken ==
    /\ mpc = "wait" /\ signals > 0
    /\ active' = TRUE /\ mpc' = "reread"
    /\ UNCHANGED <<ypVars, signals, got>> /\ SendersSame

(* or the timeout or a Unix signal. *)
TimedOut ==
    /\ mpc = "wait" /\ signals = 0
    /\ mpc' = "idle"
    /\ UNCHANGED <<ypVars, signals, active, got>> /\ SendersSame

-------------------------------------------------------------------------------
SenderStep(s) == SendWrite(s) \/ SendFlush(s) \/ SendWakes(s) \/ Unlock(s) \/ Signal(s)
OwnerStep == RecvCall \/ RecvCheck \/ RecvPop \/ Drain \/ PutBack \/ Woken \/ TimedOut

MBNext == OwnerStep \/ \E s \in Senders : SenderStep(s)
(* A sender inside send and the owner, who calls recv again and again, run on. *)
Fairness == WF_vars(OwnerStep) /\ \A s \in Senders : WF_vars(snd[s] # "idle" /\ SenderStep(s))
Spec == MBInit /\ [][MBNext]_vars
FairSpec == Spec /\ Fairness

(* None of the assertions of mailbox_t::recv and signaler_t::recv fails:    *)
(* after a signal there is a command, and the eventfd is never at 0 or      *)
(* above 2 when it is read.                                                 *)
NoAbort == mpc # "abort"

(* An owner that waits while a command is ready will be signalled: the      *)
(* signal is there, or a sender is on its way to give it.                   *)
NoLostWakeup ==
    mpc \in {"wait", "idle"} /\ ~active /\ Visible > beginPos =>
        signals > 0 \/ \E s \in Senders : snd[s] \in {"not ok", "signal"}

(* A sender that is yet to use the signaler, having given the mutex back,   *)
(* has its command still unread: the owner cannot have run the command that *)
(* makes it destroy the mailbox (the destructor waits for the mutex only).  *)
SignalerOutlivesSend ==
    \A s \in Senders : snd[s] = "signal" => got[s] < sent[s]

(* Every command that was sent is received. *)
AllReceived == \A s \in Senders : \A k \in 1..MaxSends : sent[s] >= k ~> got[s] >= k
===============================================================================
