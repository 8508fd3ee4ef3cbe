---------------------------- MODULE PosixSerial ----------------------------
(* Serial devices under POSIX (posix/PosixSerial.c): objects that hold a file
   descriptor, in a process that opens and closes descriptors for other purposes
   too.  Every system call that an operation makes may fail.

   External are the system calls: open gives the lowest free descriptor, and the
   terminal settings belong to the device, whoever has it open. *)
EXTENDS Integers, FiniteSetsExt

CONSTANTS
    Serials,       \* the variables that hold a SeePosixSerial
    Ttys,          \* the devices that are terminals
    Files,         \* what else can be opened
    Targets,       \* the devices and files that serials are opened on
    Fds,           \* the descriptors the process can have: 0..n
    Speeds,        \* the baud rates, of which B0 hangs up
    B0,
    Durations,     \* the timeouts asked for, in nanoseconds
    Tenth,         \* the nanoseconds in a tenth of a second
    MaxTenths,     \* the largest VTIME
    Failures,      \* the system calls that fail now and then
    Program,       \* the owner of the descriptors that are not of a serial
    NULL

ASSUME DescriptorsAssumption == Fds \subseteq Nat

ASSUME SettingsAssumption ==
    /\ B0 \in Speeds
    /\ Durations \subseteq Int
    /\ Tenth \in Nat \ {0}
    /\ MaxTenths \in Nat \ {0}

ASSUME NamesAssumption ==
    /\ Program \notin Serials
    /\ NULL \notin Int
    /\ NULL \notin [owner : Serials \cup {Program}, dev : Ttys \cup Files]

VARIABLES
    table,     \* table[f]: NULL or the open file [owner, dev]
    fd,        \* fd[s]: NULL without an object, -1 when closed, or a descriptor
    settings,  \* settings[d]: what tcgetattr returns for a terminal
    lost,      \* ghost: the descriptors of destroyed objects that did not close
    ret        \* what the last call returned: [code, value]

vars == <<table, fd, settings, lost, ret>>

NoFd == -1
Devices == Ttys \cup Files
Done    == [code |-> "SUCCESS", value |-> NULL]
Failed  == [code |-> "RUNTIME", value |-> NULL]
Unnamed == [code |-> "-1", value |-> NULL]  \* what tcsetattr returns, no see_error

Given(value) == [code |-> "SUCCESS", value |-> value]

\* tcgetattr and tcsetattr work on a descriptor of a terminal.
IsTty(t, f) == f # NoFd /\ t[f] # NULL /\ t[f].dev \in Ttys

MayFail(call) == call \in Failures

----------------------------------------------------------------------------
\* Mutant: the descriptor is not forgotten when it is closed.
CloseResultsKeepsFd(t, set, f) ==
    IF ~IsTty(t, f)
    THEN {[ret |-> IF f = NoFd THEN Done ELSE Failed,
           table |-> t, fd |-> f, settings |-> set]}
    ELSE {[ret |-> Done, table |-> [t EXCEPT ![f] = NULL], fd |-> f, settings |-> set]}

\* posix_serial_close of descriptor f: the possible results.  On Linux a close
\* that reports an error has closed the descriptor.
CloseResults(t, set, f) ==
    LET unchanged == [ret |-> Failed, table |-> t, fd |-> f, settings |-> set]
        hungUp    == [set EXCEPT ![t[f].dev] =
                         [@ EXCEPT !.ispeed = B0, !.ospeed = B0]]
        closed    == [t EXCEPT ![f] = NULL]
    IN  IF f = NoFd THEN {[unchanged EXCEPT !.ret = Done]}
        ELSE IF ~IsTty(t, f) THEN {unchanged}
        ELSE {[ret |-> Done, table |-> closed, fd |-> NoFd, settings |-> hungUp]}
             \cup {unchanged : c \in Failures \cap {"tcgetattr", "tcsetattr"}}
             \cup {[ret |-> Failed, table |-> closed, fd |-> f, settings |-> hungUp]
                      : c \in Failures \cap {"close"}}

\* The descriptor that open gives, if there is one.
LowestFree(t) ==
    {f \in Fds : t[f] = NULL /\ \A g \in Fds : t[g] = NULL => f <= g}

\* Mutant: the descriptor is not forgotten when tcgetattr fails.
OpenResultsKeepsFd(t, set, s, d) ==
    {[ret |-> Failed, table |-> t, fd |-> f, settings |-> set] : f \in LowestFree(t)}

\* isatty, tcgetattr and tcsetattr on the new descriptor f of device d.  What is
\* not a terminal is closed, but its number stays in the object.
PrepareResults(t, set, s, d, f) ==
    LET none   == [ret |-> Failed, table |-> t, fd |-> NoFd, settings |-> set]
        opened == [t EXCEPT ![f] = [owner |-> s, dev |-> d]]
        raw    == [set EXCEPT ![d] = [@ EXCEPT !.vmin = 1, !.vtime = 0]]
    IN  IF d \notin Ttys THEN {[none EXCEPT !.fd = f]}
        ELSE {[ret |-> Done, table |-> opened, fd |-> f, settings |-> raw]}
             \cup {none : c \in Failures \cap {"tcgetattr"}}
             \cup {[ret |-> Failed, table |-> opened, fd |-> f, settings |-> set]
                      : c \in Failures \cap {"tcsetattr"}}

\* posix_serial_open for serial s and device d, when it is not open.
OpenResults(t, set, s, d) ==
    (UNION {PrepareResults(t, set, s, d, f) : f \in LowestFree(t)})
    \cup {[ret |-> Failed, table |-> t, fd |-> NoFd, settings |-> set] :
             c \in IF LowestFree(t) = {} THEN {"open"} ELSE Failures \cap {"open"}}

\* The call ends with result r of its last system calls, with f in the object,
\* and returns code.
EndsWith(s, r, f, code) ==
    /\ table' = r.table
    /\ fd' = [fd EXCEPT ![s] = f]
    /\ settings' = r.settings
    /\ ret' = code

Apply(s, r) == EndsWith(s, r, r.fd, r.ret)

----------------------------------------------------------------------------
Init ==
    /\ table = [f \in Fds |-> NULL]
    /\ fd = [s \in Serials |-> NULL]
    /\ settings \in [Ttys -> {[ispeed |-> v, ospeed |-> v, vtime |-> 0, vmin |-> 1]
                                 : v \in Speeds \ {B0}}]
    /\ lost = {}
    /\ ret = Done

Held(s) == fd[s] # NULL

\* see_serial_new
New(s) ==
    /\ ~Held(s)
    /\ fd' = [fd EXCEPT ![s] = NoFd]
    /\ ret' = Done
    /\ UNCHANGED <<table, settings, lost>>

\* see_serial_new_dev: if open fails, the new object is destroyed, and closes
\* what it has open.
NewDev(s, d) ==
    /\ ~Held(s)
    /\ \E r \in OpenResults(table, settings, s, d) :
          IF r.ret = Done
          THEN Apply(s, r) /\ UNCHANGED lost
          ELSE \E c \in CloseResults(r.table, r.settings, r.fd) :
                  /\ EndsWith(s, c, NULL, Failed)
                  /\ lost' = IF c.ret = Done THEN lost ELSE lost \cup {c.fd}

\* Mutant: what is open is not closed.
OpenAnother(s, d) ==
    /\ Held(s)
    /\ \E r \in OpenResults(table, settings, s, d) : Apply(s, r)
    /\ UNCHANGED lost

\* posix_serial_open: what is open is closed first.
Open(s, d) ==
    /\ Held(s)
    /\ \E c \in CloseResults(table, settings, fd[s]) :
          IF c.ret = Done
          THEN \E r \in OpenResults(c.table, c.settings, s, d) : Apply(s, r)
          ELSE Apply(s, c)
    /\ UNCHANGED lost

\* see_serial_close
Close(s) ==
    /\ Held(s)
    /\ \E c \in CloseResults(table, settings, fd[s]) : Apply(s, c)
    /\ UNCHANGED lost

\* serial_destroy: nobody sees whether close fails.
Destroy(s) ==
    /\ Held(s)
    /\ \E c \in CloseResults(table, settings, fd[s]) :
          /\ EndsWith(s, c, NULL, ret)
          /\ lost' = IF c.ret = Done THEN lost ELSE lost \cup {c.fd}

\* A call that reads the settings and writes them back with a change; unset is
\* what it returns when they cannot be written.
Configure(s, Changed(_), unset) ==
    /\ Held(s)
    /\ \/ /\ IsTty(table, fd[s])
          /\ settings' = [settings EXCEPT ![table[fd[s]].dev] = Changed(@)]
          /\ ret' = Done
       \/ /\ IsTty(table, fd[s]) => MayFail("tcgetattr")
          /\ ret' = Failed
          /\ UNCHANGED settings
       \/ /\ IsTty(table, fd[s]) /\ MayFail("tcsetattr")
          /\ ret' = unset
          /\ UNCHANGED settings
    /\ UNCHANGED <<table, fd, lost>>

\* see_serial_set_speed
SetSpeed(s, dir, speed) ==
    Configure(s, LAMBDA t : [t EXCEPT
        !.ispeed = IF "in"  \in dir THEN speed ELSE @,
        !.ospeed = IF "out" \in dir THEN speed ELSE @], Failed)

\* see_serial_set_timeout: tenths of a second, rounded down but not to 0.
Tenths(ns) ==
    CASE ns <= 0 -> 0
      [] ns > 0 /\ ns \div Tenth = 0 -> 1
      [] OTHER -> Min({ns \div Tenth, MaxTenths})

SetTimeout(s, ns) ==
    Configure(s, LAMBDA t : [t EXCEPT !.vtime = Tenths(ns)], Unnamed)

\* see_serial_set_min_rd_chars
SetMinRdChars(s, n) ==
    Configure(s, LAMBDA t : [t EXCEPT !.vmin = n], Failed)

\* A call that reads the settings.
Ask(s, Answer(_)) ==
    /\ Held(s)
    /\ \/ /\ IsTty(table, fd[s])
          /\ ret' = Given(Answer(settings[table[fd[s]].dev]))
       \/ /\ IsTty(table, fd[s]) => MayFail("tcgetattr")
          /\ ret' = Failed
    /\ UNCHANGED <<table, fd, settings, lost>>

\* see_serial_get_speed: of one direction only, and whichever it is, the answer is
\* the speed of the input.
GetSpeed(s, dir) ==
    \/ dir # {"in", "out"} /\ Ask(s, LAMBDA t : t.ispeed)
    \/ /\ Held(s) /\ dir = {"in", "out"}
       /\ ret' = Failed
       /\ UNCHANGED <<table, fd, settings, lost>>

GetTimeout(s)    == Ask(s, LAMBDA t : t.vtime * Tenth)
GetMinRdChars(s) == Ask(s, LAMBDA t : t.vmin)

\* see_serial_flush and see_serial_drain
FlushOrDrain(s) ==
    /\ Held(s)
    /\ ret' \in (IF IsTty(table, fd[s]) THEN {Done} ELSE {Failed})
                  \cup {Failed : c \in Failures \cap {"tcflush"}}
    /\ UNCHANGED <<table, fd, settings, lost>>

\* External: the rest of the program opens and closes descriptors.
ProgramOpens(d) ==
    /\ \E f \in LowestFree(table) :
          table' = [table EXCEPT ![f] = [owner |-> Program, dev |-> d]]
    /\ UNCHANGED <<fd, settings, lost, ret>>

ProgramCloses(f) ==
    /\ table[f] # NULL
    /\ table[f].owner = Program
    /\ table' = [table EXCEPT ![f] = NULL]
    /\ UNCHANGED <<fd, settings, lost, ret>>

SerialNext(s) ==
    \/ New(s) \/ Close(s) \/ Destroy(s)
    \/ \E d \in Targets : NewDev(s, d) \/ Open(s, d)
    \/ \E dir \in {{"in"}, {"out"}, {"in", "out"}}, v \in Speeds : SetSpeed(s, dir, v)
    \/ \E ns \in Durations : SetTimeout(s, ns)
    \/ \E n \in {0, 1} : SetMinRdChars(s, n)
    \/ \E dir \in {{"in"}, {"out"}, {"in", "out"}} : GetSpeed(s, dir)
    \/ GetTimeout(s) \/ GetMinRdChars(s)
    \/ FlushOrDrain(s)

ProgramNext ==
    \/ \E d \in Devices : ProgramOpens(d)
    \/ \E f \in Fds : ProgramCloses(f)

Next == (\E s \in Serials : SerialNext(s)) \/ ProgramNext

Spec == Init /\ [][Next]_vars

----------------------------------------------------------------------------
(* Properties *)

Owners == Serials \cup {Program}

\* The types of the variables.
TypeOK ==
    /\ table \in [Fds -> [owner : Owners, dev : Devices] \cup {NULL}]
    /\ fd \in [Serials -> Fds \cup {NoFd, NULL}]
    /\ settings \in [Ttys -> [ispeed : Speeds, ospeed : Speeds,
                              vtime : 0..MaxTenths, vmin : 0..255]]
    /\ lost \subseteq Fds

\* A serial that says it is open has a descriptor of its own: no call on it can
\* act on what the program, or another serial, has open.
OwnDescriptor ==
    \A s \in Serials : fd[s] \in Fds =>
        table[fd[s]] # NULL /\ table[fd[s]].owner = s

\* Every descriptor that a serial has opened is in its hands or closed, whichever
\* call failed, except when an object was destroyed that could not be closed.
NoneLost ==
    \A f \in Fds :
        table[f] # NULL /\ table[f].owner \in Serials =>
            fd[table[f].owner] = f \/ f \in lost

\* A call on a serial closes no descriptor but the one of that serial.
ClosesOnlyItsOwn ==
    [][\A s \in Serials, f \in Fds :
          table[f] # NULL /\ table'[f] # table[f] /\ SerialNext(s) =>
              table[f].owner = s /\ fd[s] = f]_vars

=============================================================================
