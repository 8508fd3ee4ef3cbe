-------------------------------- MODULE Instants --------------------------------
(***************************************************************************)
(* What SeeDuration, SeeTimePoint and SeeClock promise: variables with     *)
(* values in them, some of which a client has made to share one value, and *)
(* a clock whose base time nobody but set_base_time changes.  Each call    *)
(* that succeeds has the effect that its name and its operands say.        *)
(* Instances and reference counts do not appear here; a call that fails    *)
(* changes nothing.                                                        *)
(*                                                                         *)
(* One thing is left open: whether see_time_point_add adds the duration to *)
(* the time point, or subtracts it (see AddsDuration in Time).             *)
(***************************************************************************)
EXTENDS Integers

CONSTANTS DurationVars, TimeVars, \* the clients' variables of the two types
          Wrap(_),                \* arithmetic in the width of the integers
          IntType,                \* the integers of that width
          Quotient(_, _),         \* the division of C
          Truncated(_),           \* the integer that half a number is converted to
          Counts, Factors,        \* durations are made of so many units of so many ns
          Scalars, Halves,        \* they are scaled by these, or by halves of those
          NULL

VARIABLES val,     \* val[v]: the value that v designates, or NULL
          sharing, \* sharing[v]: the variables that share v's value, v included
          base,    \* the base time of the clock, or NULL without a clock
          now,     \* the time since the system was started
          ret,     \* what a call returned, or NULL after a step that is no call
          call,    \* which call that was, with its arguments
          folded   \* the build has lost the tests for overflow

vars == <<val, sharing, base, now, ret, call, folded>>

Vars == DurationVars \cup TimeVars

Init ==
  /\ val = [v \in Vars |-> NULL]
  /\ sharing = [v \in Vars |-> {v}]
  /\ base = NULL
  /\ folded \in BOOLEAN
  /\ ret = NULL /\ call = NULL
  /\ now \in IntType

Is(name, args) == call' = <<name, args>>

\* All the variables that share r's value show x from now on.
Overwrite(r, x) ==
  /\ val' = [v \in Vars |-> IF v \in sharing[r] THEN x ELSE val[v]]
  /\ UNCHANGED sharing

\* Variable r parts from the others, and shows x, or nothing if x is NULL.
Replace(r, x) ==
  /\ val' = [val EXCEPT ![r] = x]
  /\ sharing' = [v \in Vars |-> IF v = r THEN {r} ELSE sharing[v] \ {r}]

Share(from, to) ==
  /\ val[from] # NULL /\ val[to] = NULL
  /\ val' = [val EXCEPT ![to] = val[from]]
  /\ sharing' = [v \in Vars |->
                   IF v = to \/ v \in sharing[from] THEN sharing[from] \cup {to}
                   ELSE sharing[v]]

\* A duration is made of n nanoseconds, or of n units of f nanoseconds.
NewDuration(r) ==
  \E n \in Counts \cup {0} :
    \/ Is("new_ns", <<r, n>>) /\ Replace(r, n)
    \/ \E f \in Factors :
         /\ Is("new", <<r, n, f>>)
         /\ folded \/ n * f \in IntType
         /\ Replace(r, Wrap(n * f))

\* Sums and differences overwrite what their result designates.
Combine(r, a, b) ==
  /\ val[a] # NULL /\ val[b] # NULL
  /\ \/ Is("add", <<r, a, b>>) /\ Overwrite(r, Wrap(val[a] + val[b]))
     \/ Is("sub", <<r, a, b>>) /\ Overwrite(r, Wrap(val[a] - val[b]))

Between(d, a, b) ==
  /\ Is("time_point_sub", <<d, a, b>>)
  /\ val[a] # NULL /\ val[b] # NULL
  /\ Overwrite(d, Wrap(val[a] - val[b]))

Move(r, a, d) ==
  /\ val[a] # NULL /\ val[d] # NULL
  /\ \/ Is("add_dur", <<r, a, d>>) /\ Overwrite(r, Wrap(val[a] + val[d]))
     \/ Is("sub_dur", <<r, a, d>>) /\ Overwrite(r, Wrap(val[a] - val[d]))
     \/ /\ Is("time_point_add", <<r, a, d>>)
        /\ \E x \in {val[a] + val[d], val[a] - val[d]} : Overwrite(r, Wrap(x))

\* Products and quotients replace it.
Scale(r, a, n) ==
  \/ Is("multiply", <<r, a, n>>) /\ Replace(r, Wrap(val[a] * n))
  \/ Is("divide", <<r, a, n>>) /\ n # 0 /\ Replace(r, Quotient(val[a], n))

ScaleF(r, a, h) ==
  \/ Is("multiply_f", <<r, a, h>>) /\ Replace(r, Wrap(val[a] * Truncated(h)))
  \/ /\ Is("divide_f", <<r, a, h>>)
     /\ Truncated(h) # 0 /\ Replace(r, Quotient(val[a], Truncated(h)))

Assign(r, a) ==
  /\ val[a] # NULL
  /\ \/ Is("set", <<r, a>>) /\ val[r] # NULL /\ Overwrite(r, val[a])
     \/ Is("copy", <<r, a>>) /\ Replace(r, val[a])

DurationNext ==
  \E r \in DurationVars :
    \/ NewDuration(r)
    \/ \E a \in DurationVars :
         \/ Assign(r, a) \/ \E b \in DurationVars : Combine(r, a, b)
         \/ val[a] # NULL /\ \/ \E n \in Scalars : Scale(r, a, n)
                             \/ \E h \in Halves : ScaleF(r, a, h)
    \/ \E a, b \in TimeVars : Between(r, a, b)

TimeNext ==
  \E r \in TimeVars :
    \/ Is("time_point_new", <<r>>) /\ val[r] = NULL /\ Replace(r, 0)
    \/ \E a \in TimeVars : Assign(r, a) \/ \E d \in DurationVars : Move(r, a, d)

ClockReads ==
  /\ base # NULL
  /\ \/ \E r \in TimeVars : Is("clock_time", <<r>>) /\ Overwrite(r, now)
     \/ \E d \in DurationVars :
          Is("clock_duration", <<d>>) /\ Overwrite(d, Wrap(now - base))

ObjectNext ==
  \/ \E v \in Vars : Is("decref", <<v>>) /\ Replace(v, NULL)
  \/ \E S \in {DurationVars, TimeVars} : \E from, to \in S :
       Is("ref", <<from, to>>) /\ Share(from, to)

SetBase ==
  /\ base # NULL
  /\ \/ Is("set_base_time_now", <<>>) /\ base' = now
     \/ \E v \in TimeVars :
          Is("set_base_time", <<v>>) /\ val[v] # NULL /\ base' = val[v]
  /\ UNCHANGED <<val, sharing>>

ClockComesOrGoes ==
  /\ \/ Is("clock_new", <<>>) /\ base = NULL /\ base' = 0
     \/ Is("clock_destroy", <<>>) /\ base # NULL /\ base' = NULL
  /\ UNCHANGED <<val, sharing>>

Success ==
  /\ ret' = "success"
  /\ \/ (DurationNext \/ TimeNext \/ ClockReads \/ ObjectNext) /\ UNCHANGED base
     \/ SetBase
     \/ ClockComesOrGoes
  /\ UNCHANGED <<now, folded>>

\* A call that fails, or the client's release of the error it got.
Failure == ret' # "success" /\ UNCHANGED <<val, sharing, base, now, folded>>

Tick ==
  /\ now' > now /\ call' = NULL /\ ret' = NULL
  /\ UNCHANGED <<val, sharing, base, folded>>

Next == Success \/ Failure \/ Tick

Spec == Init /\ [][Next]_vars
=============================================================================
