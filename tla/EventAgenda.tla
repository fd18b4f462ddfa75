---------------------------- MODULE EventAgenda ----------------------------
(***************************************************************************)
(* What the users of an EventQueue may rely on, without its vector, passes *)
(* and flags: an agenda of planned events.  The clock is never taken past  *)
(* a planned event.  Each move of the clock is followed by serving what is *)
(* due, each event once, before the clock moves again; an event that has   *)
(* been served leaves the agenda or moves to a later time, and one that is *)
(* not served moves only because its object asks for another time.  Module *)
(* EventQueue shows that it keeps this promise.                            *)
(***************************************************************************)
EXTENDS Integers

CONSTANTS
    Adapter,    \* the events that may be planned
    Null,       \* the one that is planned from the start
    Twins,      \* pairs of events for one object: one of the two is enough
    Movable,    \* the events whose time others may change
    Tol,        \* how long before its time an event counts as due
    Inf         \* the time of what is not going to happen

VARIABLES
    clock,
    phase,      \* "idle", "called" when the clock has moved, "serving"
    agenda,     \* the time of every planned event
    owed        \* the events that are still to be served

vars == <<clock, phase, agenda, owed>>

Planned == DOMAIN agenda

DueNow == {a \in Planned : agenda[a] <= clock + Tol}

Only(f, S) == [a \in S |-> f[a]]

Init ==
    /\ clock = 0 /\ phase = "idle"
    /\ agenda = [a \in {Null} |-> Inf] /\ owed = {}

\* The simulation goes on, but not past an event.
Advance ==
    /\ phase = "idle" /\ phase' = "called"
    /\ \A a \in Planned : clock' <= agenda[a]
    /\ UNCHANGED <<agenda, owed>>

\* What is due is going to be served,
Begin ==
    /\ phase = "called" /\ phase' = "serving"
    /\ owed' = DueNow
    /\ UNCHANGED <<clock, agenda>>

\* or nothing is.
Skip ==
    /\ phase = "called" /\ phase' = "idle"
    /\ DueNow = {}
    /\ UNCHANGED <<clock, agenda, owed>>

\* An event is served: it is over, or it comes again later.  One that has been
\* withdrawn since the serving began is still served.
Serve(a) ==
    /\ phase = "serving"
    /\ a \in owed /\ owed' = owed \ {a}
    /\ a \in Planned => a \in DueNow
    /\ \/ agenda' = Only(agenda, Planned \ {a})
       \/ /\ a \in Planned
          /\ \E t \in 0..Inf : t > agenda[a] /\ agenda' = [agenda EXCEPT ![a] = t]
    /\ UNCHANGED <<clock, phase>>

\* All has been served.
End ==
    /\ phase = "serving" /\ phase' = "idle"
    /\ owed = {}
    /\ UNCHANGED <<clock, agenda, owed>>

\* A new event is planned, at any time.  An event that has a twin may be dropped
\* if the twin is not later or if the event is being served.
Plan(a, t) ==
    LET times == [b \in Planned \cup {a} |-> IF b = a THEN t ELSE agenda[b]]
        kept == DOMAIN agenda'
    IN  /\ a \notin Planned /\ kept \subseteq Planned \cup {a}
        /\ \A d \in (Planned \cup {a}) \ kept : \E b \in kept :
                <<b, d>> \in Twins /\ (times[b] <= times[d] \/ d \in owed)
        /\ agenda' = Only(times, kept)
        /\ UNCHANGED <<clock, phase, owed>>

Withdraw(a) ==
    /\ a \in Planned \ {Null}
    /\ agenda' = Only(agenda, Planned \ {a})
    /\ UNCHANGED <<clock, phase, owed>>

\* Objects ask for other times.  What is being served stays due.
Replan ==
    /\ agenda' \in [Planned -> 0..Inf]
    /\ \A a \in owed \cap Planned : agenda'[a] <= clock + Tol
    /\ \A a \in Planned \ Movable : agenda'[a] = agenda[a]
    /\ UNCHANGED <<clock, phase, owed>>

Next ==
    \/ Advance \/ Begin \/ Skip \/ End \/ Replan
    \/ \E a \in Adapter : Serve(a) \/ Withdraw(a) \/ \E t \in 0..Inf : Plan(a, t)

Spec == Init /\ [][Next]_vars
=============================================================================
