------------------------------ MODULE MCRelay ------------------------------
(***************************************************************************)
(* Small relays.  A configuration chooses one of the sets of designs.      *)
(***************************************************************************)
EXTENDS Relay

T(a, d) == [action |-> a, delay |-> d]
M(a, cs, d) == [action |-> a, conditions |-> cs, delay |-> d]

\* A continuous relay that can reset.
Watching(triggers, multi, maxChecks, allowed) ==
    [triggers |-> triggers, multi |-> multi, continuous |-> TRUE,
     resettable |-> TRUE, period |-> 2, maxChecks |-> maxChecks,
     allowed |-> allowed]

\* A relay that samples every second unit of time.
Sampling(triggers, allowed) ==
    [triggers |-> triggers, multi |-> [c \in DOMAIN triggers |-> <<>>],
     continuous |-> FALSE, resettable |-> FALSE, period |-> 2, maxChecks |-> 3,
     allowed |-> allowed]

\* Two conditions that share an action, as in BusRelay and LoadRelay, one of
\* them with a second, faster action, and an action that both conditions take
\* together, as in DifferentialRelay.
MCShared == Watching(<<<<T(1, 2), T(2, 1)>>, <<T(1, 1)>>>>,
                     <<<<M(1, {1, 2}, 2)>>, <<M(1, {1, 2}, 2)>>>>,
                     6, {"rootCheck"})
\* A sampled relay with an action at once and one with a delay, to which
\* everything happens: root checks and status changes give it roots.
MCSampled == Sampling(<<<<T(1, 0), T(2, 1)>>>>, RareSteps)
\* A sampled relay that acts after a period.
MCDelayed == Sampling(<<<<T(1, 2)>>>>, {})

\* Conditions that are switched off while their checks wait.
MCSwitched ==
    [Watching(<<<<T(1, 1)>>, <<T(1, 2)>>>>, <<<<>>, <<>>>>, 2,
              {"setConditionStatus"}) EXCEPT !.resettable = FALSE]

MCRelays     == {MCShared, MCSampled, MCSwitched}
MCDelayedOne  == {MCDelayed}
=============================================================================
