--------------------------- MODULE MeasureLedger ----------------------------
(***************************************************************************)
(* What the checks of monitored subs promise the moderators, whatever      *)
(* queues, retries, sessions and deaths of workers there are in between: a *)
(* check runs at most once and asks for a measure at most once, while it   *)
(* runs; a measure that was asked for is done or given up at most once,    *)
(* and only that moment can ask for the measures that depend on it.        *)
(***************************************************************************)
CONSTANTS
    Checks,
    Measures,
    AfterDone, AfterLost  \* [Measures -> SUBSET Measures], what may follow one

VARIABLES
    check,  \* how far each check is
    asked, done, lost  \* [check, measure], what became of the measures

Init ==
    /\ check = [c \in Checks |-> "none"]
    /\ asked = {} /\ done = {} /\ lost = {}

Ledger == <<asked, done, lost>>
Of(c, ms) == {[check |-> c, measure |-> m] : m \in ms}

Moves(c, from, to) ==
    /\ check[c] = from
    /\ check' = [check EXCEPT ![c] = to]
    /\ UNCHANGED Ledger

Order(c) == Moves(c, "none", "waiting")
Begin(c) == Moves(c, "waiting", "running") \/ Moves(c, "waiting", "missed")
End(c)   == \E r \in {"recorded", "skipped", "missed"} : Moves(c, "running", r)

\* New measures of one check, none of which was asked for before.
Asks(c, ms) ==
    /\ \A o \in Of(c, ms) : o \notin asked
    /\ asked' = asked \cup Of(c, ms)

Ask(c) ==
    /\ check[c] = "running"
    /\ UNCHANGED <<check, done, lost>>
    /\ asked' # asked
    /\ \E m \in Measures : Asks(c, {m})

Open == asked \ (done \cup lost)

Carry(o) ==
    /\ o \in Open
    /\ done' = done \cup {o}
    /\ \E ms \in SUBSET AfterDone[o.measure] : Asks(o.check, ms)
    /\ UNCHANGED <<check, lost>>

GiveUp(o) ==
    /\ o \in Open
    /\ lost' = lost \cup {o}
    /\ \E ms \in SUBSET AfterLost[o.measure] : Asks(o.check, ms)
    /\ UNCHANGED <<check, done>>

Next ==
    \/ \E c \in Checks : Order(c) \/ Begin(c) \/ End(c) \/ Ask(c)
    \/ \E o \in Open : Carry(o) \/ GiveUp(o)

Spec == Init /\ [][Next]_<<check, asked, done, lost>>
=============================================================================
