------------------------------- MODULE Clock -------------------------------
(***************************************************************************)
(* Pit::jiffies and the two loops that watch it: play_game(), which drops  *)
(* the piece every GT jiffies (tetris.h), and sleep() (pit.cc). jiffies is *)
(* a uint32_t that only the bootstrap core increments; the loops run in    *)
(* threads and look at it whenever they get to.                            *)
(***************************************************************************)
EXTENDS Naturals

CONSTANTS
  Wrap,            \* 2^32: the range of jiffies
  GT,              \* jiffies from one drop to the next (1000)
  PerSecond,       \* jiffiesPerSecond (1000)
  MaxSeconds       \* bound: the longest sleep

ASSUME ClockAssumption ==
  /\ Wrap \in Nat /\ GT \in Nat /\ PerSecond \in Nat /\ MaxSeconds \in Nat
  /\ 0 < GT /\ GT < Wrap /\ 0 < PerSecond /\ PerSecond * MaxSeconds < Wrap

VARIABLES
  jiffies,
  game, time_drop,      \* play_game: "poll", or "drop" until time_drop is set
  sleeper, end,         \* a thread in sleep(), or "awake"; its local variable
  sinceDrop,            \* history: jiffies since time_drop was set, up to GT
  left                  \* history: jiffies that are left of the sleep

clockVars == <<jiffies, game, time_drop, sleeper, end, sinceDrop, left>>

Jiffies == 0..(Wrap - 1)

\* The game starts at any time.
ClockInit ==
  /\ jiffies \in Jiffies
  /\ game = "poll" /\ time_drop = (jiffies + GT) % Wrap /\ sinceDrop = 0
  /\ sleeper = "awake" /\ end = 0 /\ left = 0

\* apitHandler on the bootstrap core.
Tick ==
  /\ jiffies' = (jiffies + 1) % Wrap
  /\ sinceDrop' = IF sinceDrop < GT THEN sinceDrop + 1 ELSE GT
  /\ left' = IF left > 0 THEN left - 1 ELSE 0
  /\ UNCHANGED <<game, time_drop, sleeper, end>>

\* Variant with a bug: the drop is not checked against the clock.
DueAlways ==
  /\ game = "poll"
  /\ game' = "drop"
  /\ UNCHANGED <<jiffies, time_drop, sleeper, end, sinceDrop, left>>

\* The loop of play_game finds that the piece must drop ...
Due ==
  /\ game = "poll" /\ jiffies >= time_drop
  /\ game' = "drop"
  /\ UNCHANGED <<jiffies, time_drop, sleeper, end, sinceDrop, left>>

\* Variant with a bug: the time of the next drop is computed in more than 32 bits.
RearmUnwrapped ==
  /\ game = "drop"
  /\ game' = "poll" /\ time_drop' = jiffies + GT /\ sinceDrop' = 0
  /\ UNCHANGED <<jiffies, sleeper, end, left>>

\* ... and sets the time of the next drop when that is done.
Rearm ==
  /\ game = "drop"
  /\ game' = "poll" /\ time_drop' = (jiffies + GT) % Wrap /\ sinceDrop' = 0
  /\ UNCHANGED <<jiffies, sleeper, end, left>>

\* sleep(n) is called.
Sleep(n) ==
  /\ sleeper = "awake"
  /\ sleeper' = "asleep" /\ end' = (jiffies + PerSecond * n) % Wrap
  /\ left' = PerSecond * n
  /\ UNCHANGED <<jiffies, game, time_drop, sinceDrop>>

\* Variant with a bug: the thread waits for end or later.
WakeAtOrAfter ==
  /\ sleeper = "asleep" /\ jiffies >= end
  /\ sleeper' = "awake" /\ end' = 0
  /\ UNCHANGED <<jiffies, game, time_drop, sinceDrop, left>>

\* Its loop ends.
Wake ==
  /\ sleeper = "asleep" /\ jiffies = end
  /\ sleeper' = "awake" /\ end' = 0
  /\ UNCHANGED <<jiffies, game, time_drop, sinceDrop, left>>

ClockNext ==
  Tick \/ Due \/ Rearm \/ Wake \/ \E n \in 0..MaxSeconds : Sleep(n)

\* The timer is periodic. play_game goes around its loop many times in a jiffy,
\* but can be preempted: it is sure to find the time past time_drop only if that
\* is so again and again, since the range of jiffies ends. Nothing is assumed of
\* sleep(), which must look at the clock in one certain jiffy to return.
ClockFairness == WF_clockVars(Tick) /\ SF_clockVars(Due) /\ WF_clockVars(Rearm)

ClockSpec == ClockInit /\ [][ClockNext]_clockVars
FairClockSpec == ClockSpec /\ ClockFairness
-----------------------------------------------------------------------------
\* sleep(n) never returns early, whenever it starts and however jiffies wraps
\* meanwhile (pit.cc:151-153).
SleepIsLongEnough == [][Wake => left = 0]_clockVars

\* The game drops a piece early only while the time at which the drop should come is
\* past the end of the range of jiffies, so that time_drop has wrapped and jiffies has
\* not: in the last GT jiffies before it does (tetris.h:259-265).
EarlyOnlyBeforeWrap == [][Due => sinceDrop = GT \/ jiffies + (GT - sinceDrop) >= Wrap]_clockVars

\* The piece never stops dropping, whatever time the game starts at
\* (tetris.h:257-266).
DropsKeepComing == []<>(game = "drop")
=============================================================================
