------------------------------ MODULE MCMailbox ------------------------------
(***************************************************************************)
(* A ypipe_t in its two uses: bare, as in a message pipe, with unfinished  *)
(* items that are taken back, and as the command pipe of a mailbox.        *)
(***************************************************************************)
EXTENDS Mailbox

CONSTANTS s1, s2
TwoSenders == {s1, s2}
TwoValues == TwoSenders \X (1..2)

VARIABLE use   \* "bare" or "mailbox"
mcVars == <<vars, use>>

Init ==
    \/ use = "mailbox" /\ MBInit
    \/ /\ use = "bare"
       /\ YPInit /\ lock = Null /\ snd = [s \in Senders |-> "idle"]
       /\ sent = [s \in Senders |-> 0] /\ signals = 0 /\ active = TRUE
       /\ mpc = "idle" /\ got = [s \in Senders |-> 0]

BareNext == use = "bare" /\ YPNext(Senders \X {1}) /\ UNCHANGED <<mbVars, use>>
MailboxNext == use = "mailbox" /\ MBNext /\ UNCHANGED use

Next == BareNext \/ MailboxNext
MCSpec ==
    /\ Init /\ [][Next]_mcVars
    /\ WF_mcVars(use = "mailbox" /\ OwnerStep /\ UNCHANGED use)
    /\ \A s \in Senders : WF_mcVars(snd[s] # "idle" /\ SenderStep(s) /\ UNCHANGED use)
===============================================================================
