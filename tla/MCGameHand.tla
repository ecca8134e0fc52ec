----------------------------- MODULE MCGameHand -----------------------------
\* Hands at three-seat tables of a few chips.
EXTENDS GameHand

Base == [ mode |-> "Plaintext", dealer |-> 0, stack |-> [p \in Seats |-> 2],
          small |-> 1, big |-> 2, straddle |-> 0, bomb |-> 0, ante |-> 0,
          bigBlindAnte |-> 0, deadSmall |-> FALSE, waits |-> TRUE ]

CONSTANTS Low, High   \* bounds of the starting stacks

Stacks == [Seats -> Low .. High]

\* Forced bets: plain blinds, a straddle, antes, a big-blind ante, a bomb pot,
\* a dead small blind.
Knobs ==
  { Base,
    [Base EXCEPT !.straddle = 3],
    [Base EXCEPT !.ante = 1, !.big = 1],
    [Base EXCEPT !.bigBlindAnte = 1],
    [Base EXCEPT !.bomb = 1, !.big = 1],
    [Base EXCEPT !.deadSmall = TRUE] }

PlaintextTables == {[k EXCEPT !.stack = s] : k \in Knobs, s \in Stacks}

\* Tables without the engine's deck at which short and deep stacks meet.
BlindTables ==
  {[t EXCEPT !.mode = "Blind", !.waits = FALSE] :
     t \in {u \in PlaintextTables :
              /\ {Low, High} \subseteq {u.stack[p] : p \in Seats}
              /\ u.ante = 0 /\ ~u.deadSmall}}

\* A table of each kind, without the engine's deck and with a patient caller.
PatientTables ==
  {[k EXCEPT !.mode = "Blind", !.stack = [p \in Seats |-> Low + p]] : k \in Knobs}

AllTables == PlaintextTables \cup BlindTables \cup PatientTables
=============================================================================
