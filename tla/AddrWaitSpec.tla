---------------------------- MODULE AddrWaitSpec ----------------------------
(***************************************************************************)
(* What RtlWaitOnAddress and RtlWakeAddress* promise: a wake call takes    *)
(* effect at one moment between its start and its end, it releases one     *)
(* waiter (or all of them) of its address if there is one at that moment,  *)
(* and nobody else; and nobody returns without having been released,       *)
(* unless somebody uses timeouts.                                          *)
(***************************************************************************)
EXTENDS AddrWait

CONSTANT MayWithdraw   \* TRUE if threads of the program use timeouts

VARIABLE calls         \* calls[t]: the wake call of t that is yet to take effect

NoCall == [kind |-> "none", addr |-> NoAddr]
WakeCalls == [kind : {"single", "all"}, addr : Addrs]

SInit ==
    /\ AInit
    /\ calls = [t \in Threads |-> NoCall]

CallWake(t, c) ==
    /\ calls[t] = NoCall
    /\ calls' = [calls EXCEPT ![t] = c]
    /\ UNCHANGED avars

TakeEffect(t) ==
    /\ calls[t] # NoCall
    /\ calls' = [calls EXCEPT ![t] = NoCall]
    /\ LET a == calls[t].addr
       IN  \/ calls[t].kind = "all" /\ ReleaseAll(a)
           \/ calls[t].kind = "single" /\ Release(a)
           \/ Waiters(a) = {} /\ UNCHANGED avars

SNext ==
    \E t \in Threads :
        \/ \E c \in WakeCalls : CallWake(t, c)
        \/ TakeEffect(t)
        \/ \E a \in Addrs : Register(t, a) /\ UNCHANGED calls
        \/ Return(t) /\ UNCHANGED calls
        \/ MayWithdraw /\ Withdraw(t) /\ UNCHANGED calls

SSpec == SInit /\ [][SNext]_<<avars, calls>>
=============================================================================
