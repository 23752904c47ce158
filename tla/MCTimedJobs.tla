---------------------------- MODULE MCTimedJobs ----------------------------
(***************************************************************************)
(* TimedJobs for TLC: a week of two days of four hours, with zones to both *)
(* sides of UTC, without a change of the clock or with one forwards or     *)
(* back, at every hour of a day.                                           *)
(***************************************************************************)
EXTENDS TimedJobs

CONSTANTS t1, t2

Zone(before, after, change) == [before |-> before, after |-> after, at |-> change]
Changing == {<<-2, -1>>, <<-1, -2>>, <<1, 2>>, <<2, 1>>}
MCZones == {Zone(0, 0, 5)} \cup {Zone(c[1], c[2], t) : c \in Changing, t \in 5 .. 8}
MCElsewhere == Zone(1, 1, 5)
MCUTC == Zone(0, 0, 5)

Trigger(kind, hour, days, date, every) ==
  [kind |-> kind, hour |-> hour, days |-> days, date |-> date, every |-> every]
MCTriggers ==
  {Trigger("daily", h, {}, 0, 0) : h \in {0, 2}} \cup {Trigger("weekly", 0, {0}, 0, 0)}
  \cup {Trigger("once", h, {}, 1, 0) : h \in {0, 2}}
  \cup {Trigger(k, 0, {}, 0, 2) : k \in {"interval", "timeout"}}
=============================================================================
