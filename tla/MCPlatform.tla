----------------------------- MODULE MCPlatform -----------------------------
(* Small instances of Devices and of Time, which have nothing in common but that
   one thread calls them; a behaviour is about the one or the other.

   Devices: two serials; under POSIX a terminal and three descriptors, under
   Windows a port, three handles, words of 2 bits, and two nanoseconds in a
   microsecond, two of those in a millisecond.

   Time: numbers from -4 to 3; two durations, in a build with and in one without
   the tests for overflow; a duration and two time points; or a duration, a time
   point and the clock. *)
EXTENDS Devices, Time, TLC

CONSTANTS s1, s2, tty, com1, h1, h2, h3, d1, d2, p1, p2

MCSerials == {s1, s2}
MCTtys == {tty}
MCFds == 0..2
MCDurations == {0, 1, 6}
MCPorts == {com1}
MCHandles == {h1, h2, h3}
MCKnown == 0 .. 2
MCBaudRates == [v \in MCKnown |-> v * v]
MCWindowsDurations == {-4, 1, 2, 16}

MCDurationVars == {d1, d2}
MCTimeVars == {p1, p2}
MCUses ==
  {[vars |-> {d1, d2}, clock |-> FALSE, folded |-> f] : f \in BOOLEAN}
  \cup {[vars |-> {d1, p1, p2}, clock |-> FALSE, folded |-> FALSE],
        [vars |-> {d1, p1}, clock |-> TRUE, folded |-> FALSE]}
MCCounts == {-4, 1, 3}
MCScalars == {-1, 0, 2}
MCHalves == {-2, 3, 4}
MCDurationMem == 1 .. 3
MCTimeMem == 4 .. 6

VARIABLE about      \* "devices" or "time"; never changes

devicevars == <<vars, wvars, build>>

\* What a behaviour is not about has a single beginning.
MCInit ==
  /\ about \in {"devices", "time"}
  /\ DevicesInit /\ TimeInit
  /\ about = "devices" => use = [vars |-> {d1, d2}, clock |-> FALSE, folded |-> FALSE]
  /\ about = "time" => build = "posix"

MCNext ==
  /\ UNCHANGED about
  /\ \/ about = "devices" /\ DevicesNext /\ UNCHANGED timevars
     \/ about = "time" /\ TimeNext /\ UNCHANGED devicevars

MCSpec == MCInit /\ [][MCNext]_<<devicevars, timevars, about>>

Symmetry == Permutations(MCSerials) \cup Permutations(MCHandles)

\* No action reads outcome or call.
MCView == <<devicevars, ptr, mem, base, now, error, use, about>>
=============================================================================
