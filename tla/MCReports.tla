----------------------------- MODULE MCReports -----------------------------
(* Reports on clients that start at some time of the day and spend the same   *)
(* all the time, little or much; on such that have one or two dear days; and  *)
(* on busy ones whose calls call for suggestions, which up to three runs make.*)
EXTENDS Reports, TLC

CONSTANTS j1, j2, j3

Idle == [calls |-> 0, hits |-> 0, premium |-> 0, tokens |-> 0, cost |-> 0]
Paid(c) == [calls |-> 1, hits |-> 0, premium |-> 0, tokens |-> 100, cost |-> c]

\* Silent up to slot `first`, then one call a slot; on the days in `dear` it costs more.
Client(first, cost, dear, more, last) ==
    [kind |-> "client", first |-> first, cost |-> cost, dear |-> dear, more |-> more, last |-> last]
Busy(calls, hits, premium, tokens) ==
    [kind |-> "busy", calls |-> calls, hits |-> hits, premium |-> premium, tokens |-> tokens]

SteadyClients == {Client(f, c, {}, 0, 33 * SlotsPerDay) : f \in 1..SlotsPerDay, c \in {1, 40}}
DearDays == {{d} : d \in {4, 5, 16}} \cup {{d, e} : d \in {4, 9}, e \in {12, 16, 17}}
        \cup {{3, 8, d} : d \in {16, 17}}
SpikyClients ==
    {Client(f, 2, D, m, 19 * SlotsPerDay) : f \in {1, 4}, D \in DearDays, m \in {5, 30}}
BusyClients == {Busy(30, 1, 60, 90000), Busy(30, 1, 10, 900), Busy(30, 20, 60, 90000), Busy(0, 0, 0, 0)}

MCScenarios == SteadyClients \cup SpikyClients \cup BusyClients

MCUsage ==
    [s \in MCScenarios |->
        IF s.kind = "busy"
        THEN [t \in 1..2 |-> [calls |-> s.calls, hits |-> s.hits, premium |-> s.premium,
                              tokens |-> s.tokens, cost |-> 1]]
        ELSE [t \in 1..s.last |->
                CASE t < s.first -> Idle
                  [] t >= s.first /\ DayOf(t) \in s.dear -> Paid(s.cost + s.more)
                  [] OTHER -> Paid(s.cost)]]

AnyJob == Permutations(Jobs)

MCScheduled == [s \in MCScenarios |-> IF s.kind = "busy" THEN {j1, j2, j3} ELSE {}]
=============================================================================
