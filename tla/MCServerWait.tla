--------------------------- MODULE MCServerWait ---------------------------
(* Model-checking instances of ServerWait. *)
EXTENDS ServerWait, TLC

CONSTANTS t1, t2, t3, sem, mutex, auto, manual

WaitAny(objs, alertable, when) ==
    [objs |-> objs, all |-> FALSE, signal |-> None, alertable |-> alertable, when |-> when]
WaitAll(objs, alertable, when) == [WaitAny(objs, alertable, when) EXCEPT !.all = TRUE]

SignalAndWait(o, objs, alertable, when) == [WaitAny(objs, alertable, when) EXCEPT !.signal = o]

MCPrograms ==
    {\* timeouts, user APCs and suspension of threads that share objects
     [threads |-> {t1, t2}, budget |-> 2, ops |-> {"signal", "user_apc", "suspend"},
      requests |-> {WaitAny(<<sem>>, TRUE, "later"), WaitAll(<<mutex, sem>>, FALSE, "never")}],
     \* a wait for all that times out among others
     [threads |-> {t1, t2, t3}, budget |-> 1, ops |-> {"signal"},
      requests |-> {WaitAny(<<sem>>, FALSE, "never"), WaitAll(<<mutex, sem>>, FALSE, "later")}],
     \* system APCs across processes, context changes, suspension
     [threads |-> {t1, t2}, budget |-> 2, ops |-> {"system_apc", "suspend", "set_context"},
      requests |-> {WaitAny(<<mutex>>, FALSE, "later")}],
     \* the death of a thread that owns a mutex or is to run an APC
     [threads |-> {t1, t2}, budget |-> 3, ops |-> {"system_apc", "kill"},
      requests |-> {WaitAny(<<mutex>>, FALSE, "never")}],
     \* events
     [threads |-> {t1, t2}, budget |-> 2, ops |-> {"signal", "pulse", "reset", "suspend"},
      requests |-> {WaitAny(<<auto, manual>>, FALSE, "later"), WaitAll(<<manual, auto>>, FALSE, "never")}],
     \* signal and wait
     [threads |-> {t1, t2}, budget |-> 1, ops |-> {"signal", "suspend", "kill"},
      requests |-> {SignalAndWait(sem, <<auto>>, FALSE, "later"), SignalAndWait(mutex, <<sem>>, FALSE, "never"),
                    SignalAndWait(sem, <<sem>>, FALSE, "never"), WaitAny(<<mutex>>, FALSE, "past")}]}
=============================================================================
