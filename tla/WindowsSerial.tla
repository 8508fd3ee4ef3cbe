--------------------------- MODULE WindowsSerial ---------------------------
(***************************************************************************)
(* Serial devices under Windows (windows/WindowsSerial.c): objects that    *)
(* hold a handle, in a process that opens and closes handles for other     *)
(* purposes too.  Every system call may fail.                              *)
(*                                                                         *)
(* External are the system calls: CreateFile gives any handle that is free *)
(* and opens a port for one user at a time, and a port keeps its settings  *)
(* and counts the bytes that wait to be read and to be sent.               *)
(***************************************************************************)
EXTENDS Integers, FiniteSets

CONSTANTS Serials,    \* the variables that hold a SeeWindowsSerial
          Ports,      \* the devices
          Handles,    \* the handles the process can have
          Invalid,    \* INVALID_HANDLE_VALUE
          Known,      \* the values of see_speed_t, 0 to the highest
          BaudRates,  \* BaudRates[v]: the number that stands for v in a DCB
          Foreign,    \* a rate, not in the table, that another program has set
          Requests,   \* the speeds clients ask for, in bits per second
          Durations,  \* the timeouts asked for, in nanoseconds
          Micro,      \* the nanoseconds in a microsecond
          Milli,      \* the microseconds in a millisecond
          DWord,      \* 2 ^ the width of a DWORD
          Lengths,    \* the lengths of what is read and written
          MaxQueue,   \* bound: how many bytes wait at a port
          Program,    \* the owner of the handles that are not of a serial
          NULL

VARIABLES open,    \* open[h]: NULL, or what the handle h is: [owner, port]
          handle,  \* handle[s]: NULL without an object, Invalid, or a handle
          port,    \* port[p]: [baud, timeout, asked, in, out], asked being a ghost:
                   \* the timeout that was asked for
          lost,    \* ghost: handles of destroyed objects that did not close
          ret      \* what the last call returned: [code, value]

vars == <<open, handle, port, lost, ret>>

Done   == [code |-> "SUCCESS", value |-> NULL]
Failed == [code |-> "RUNTIME", value |-> NULL]
TooLong == [code |-> "INVALID_ARGUMENT", value |-> NULL]
NotImplemented == [code |-> "NOT_IMPLEMENTED", value |-> NULL]

Held(s) == handle[s] # NULL

\* windows_serial_is_open.
IsOpen(s) == handle[s] # Invalid

\* The port that the system calls of s act on, if any.
PortOf(s) == {p \in Ports : Held(s) /\ IsOpen(s) /\ open[handle[s]] # NULL
                              /\ open[handle[s]].port = p}

-----------------------------------------------------------------------------
(* Changed forms of the operations below, for the mutation runs. *)

\* The handle is not forgotten when it is closed.
CloseResultsKeeps(o, h) ==
  {[ret |-> Done, open |-> IF h = Invalid THEN o ELSE [o EXCEPT ![h] = NULL],
    handle |-> h]}

\* The test for a timeout of less than a millisecond comes before the conversion.
MillisTestedFirst(ns) ==
  LET millis == ns \div (Micro * Milli)
  IN  (IF millis = 0 /\ ns >= Micro THEN 1 ELSE millis) % DWord

-----------------------------------------------------------------------------
(* Helpers *)

\* The quotient of a duration_cast, which drops what is left of the nanoseconds.
Whole(ns, unit) == IF ns < 0 THEN - ((- ns) \div unit) ELSE ns \div unit

\* see_duration_micros and see_duration_millis.
Micros(ns) == Whole(ns, Micro)
Millis(ns) == Whole(ns, Micro * Milli)

\* windows_serial_set_timeout: milliseconds in a DWORD, but 1 instead of 0 when
\* there is a microsecond or more.
Timeout(ns) ==
  LET millis == Millis(ns) % DWord
  IN  IF millis = 0 /\ Micros(ns) > 0 THEN 1 ELSE millis

\* see_serial_nearest_speed: the least speed that is not below, or the highest.
NearestSpeed(n) ==
  CHOOSE v \in Known :
    /\ n <= BaudRates[v] \/ v + 1 \notin Known
    /\ \A w \in Known : n <= BaudRates[w] => v <= w

\* get_windows_speed, and get_see_speed: a rate that is in no table passes for 0.
WindowsSpeed(v) == BaudRates[v]
SeeSpeed(baud) == {v \in Known : BaudRates[v] = baud}
                    \cup {v \in {0} : \A w \in Known : BaudRates[w] # baud}

\* windows_serial_close, for the handle h: the results.
CloseResults(o, h) ==
  {[ret |-> Failed, open |-> o, handle |-> h] : x \in {h} \ {Invalid}}
  \cup {[ret |-> Done, open |-> [o EXCEPT ![x] = NULL], handle |-> Invalid] :
          x \in {x \in {h} \cap Handles : o[x] # NULL}}
  \cup {[ret |-> Done, open |-> o, handle |-> h] : x \in {h} \cap {Invalid}}

\* CreateFile, without sharing: what it may do.
Created(o, s, p) ==
  {[o EXCEPT ![h] = [owner |-> s, port |-> p]] :
     h \in {h \in Handles : o[h] = NULL /\ \A g \in Handles :
                                o[g] = NULL \/ o[g].port # p}}

\* windows_serial_open, once what was open is closed.  When GetCommState or
\* SetCommState fails, the handle stays open and in the object.
OpenResults(o, s, p) ==
  {[ret |-> Failed, open |-> o, handle |-> Invalid]}
  \cup UNION {{[ret |-> r, open |-> c, handle |-> h] : r \in {Done, Failed},
                 h \in {h \in Handles : c[h] # o[h]}} : c \in Created(o, s, p)}

EndsWith(s, r, h, code) ==
  /\ open' = r.open /\ handle' = [handle EXCEPT ![s] = h] /\ ret' = code
  /\ UNCHANGED port

-----------------------------------------------------------------------------
Init ==
  /\ open = [h \in Handles |-> NULL]
  /\ handle = [s \in Serials |-> NULL]
  /\ port \in [Ports -> [baud : {Foreign},
                         timeout : {0}, asked : {0}, in : {0}, out : {0}]]
  /\ lost = {}
  /\ ret = Done

\* see_serial_new: windows_serial_init without a device.
New(s) ==
  /\ ~ Held(s)
  /\ handle' = [handle EXCEPT ![s] = Invalid] /\ ret' = Done
  /\ UNCHANGED <<open, port, lost>>

\* see_serial_new_dev: when open fails the new object is destroyed, which closes
\* what it has open.
NewDev(s, p) ==
  /\ ~ Held(s)
  /\ \E r \in OpenResults(open, s, p) :
       \/ r.ret = Done /\ EndsWith(s, r, r.handle, Done) /\ UNCHANGED lost
       \/ /\ r.ret = Failed
          /\ \E c \in CloseResults(r.open, r.handle) :
               /\ EndsWith(s, c, NULL, Failed)
               /\ lost' = lost \cup ({c.handle} \ {Invalid})

\* see_serial_open: what is open is closed first.
Open(s, p) ==
  /\ Held(s)
  /\ \E c \in CloseResults(open, handle[s]) :
       \/ c.ret = Failed /\ EndsWith(s, c, c.handle, Failed)
       \/ /\ c.ret = Done
          /\ \E r \in OpenResults(c.open, s, p) : EndsWith(s, r, r.handle, r.ret)
  /\ UNCHANGED lost

\* see_serial_close.
Close(s) ==
  /\ Held(s)
  /\ \E c \in CloseResults(open, handle[s]) : EndsWith(s, c, c.handle, c.ret)
  /\ UNCHANGED lost

\* serial_destroy: nobody sees whether close fails.
Destroy(s) ==
  /\ Held(s)
  /\ \E c \in CloseResults(open, handle[s]) :
       /\ EndsWith(s, c, NULL, ret)
       /\ lost' = lost \cup ({c.handle} \ {Invalid})

-----------------------------------------------------------------------------
(* Calls on what is open; each ends at the first system call that fails. *)

Fail(s) == Held(s) /\ ret' = Failed /\ UNCHANGED <<open, handle, port, lost>>

\* The call changes port p to q and returns the code.
Does(p, q, code) ==
  /\ port' = [port EXCEPT ![p] = q] /\ ret' = code
  /\ UNCHANGED <<open, handle, lost>>

\* windows_serial_read: some of the bytes that wait, or none when the time is up;
\* it returns how many are still wanted.
Read(s, want) ==
  \/ want < DWord /\ Fail(s)
  \/ /\ Held(s) /\ want >= DWord
     /\ ret' = TooLong /\ UNCHANGED <<open, handle, port, lost>>
  \/ /\ want < DWord
     /\ \E p \in PortOf(s) : \E n \in 0 .. port[p].in :
          /\ n <= want
          /\ Does(p, [port[p] EXCEPT !.in = @ - n],
                  [code |-> "SUCCESS", value |-> want - n])

\* windows_serial_write.
Write(s, want) ==
  \/ want < DWord /\ Fail(s)
  \/ /\ Held(s) /\ want >= DWord
     /\ ret' = TooLong /\ UNCHANGED <<open, handle, port, lost>>
  \/ /\ want < DWord
     /\ \E p \in PortOf(s) : \E n \in 0 .. (MaxQueue - port[p].out) :
          /\ n <= want
          /\ Does(p, [port[p] EXCEPT !.out = @ + n],
                  [code |-> "SUCCESS", value |-> want - n])

\* windows_serial_flush discards what waits on either side.
Flush(s, dir) ==
  \/ Fail(s)
  \/ \E p \in PortOf(s) :
       LET q == [port[p] EXCEPT !.in = IF "in" \in dir THEN 0 ELSE @]
       IN  Does(p, [q EXCEPT !.out = IF "out" \in dir THEN 0 ELSE @], Done)

\* windows_serial_drain returns when everything has been sent.
Drain(s) ==
  \/ Fail(s)
  \/ \E p \in PortOf(s) : port[p].out = 0 /\ Does(p, port[p], Done)

\* windows_serial_set_speed sets one speed for either direction.
SetSpeed(s, v) ==
  \/ Fail(s)
  \/ \E p \in PortOf(s) : Does(p, [port[p] EXCEPT !.baud = WindowsSpeed(v)], Done)

\* windows_serial_get_speed.
GetSpeed(s) ==
  \/ Fail(s)
  \/ \E p \in PortOf(s) : \E v \in SeeSpeed(port[p].baud) :
       Does(p, port[p], [code |-> "SUCCESS", value |-> v])

\* windows_serial_set_timeout.
SetTimeout(s, ns) ==
  \/ Fail(s)
  \/ \E p \in PortOf(s) :
       LET q == [port[p] EXCEPT !.timeout = Timeout(ns)]
       IN  Does(p, [q EXCEPT !.asked = ns], Done)

\* windows_serial_get_timeout.
GetTimeout(s) ==
  \/ Fail(s)
  \/ \E p \in PortOf(s) :
       Does(p, port[p], [code |-> "SUCCESS", value |-> port[p].timeout * Milli * Micro])

\* windows_serial_set_min_rd_chars, and windows_serial_get_min_rd_chars.
MinRdChars(s) ==
  Held(s) /\ ret' = NotImplemented /\ UNCHANGED <<open, handle, port, lost>>

-----------------------------------------------------------------------------
(* External: the rest of the program, and the other end of the lines. *)

ProgramOpens ==
  /\ \E h \in Handles : open[h] = NULL
                          /\ open' = [open EXCEPT ![h] = [owner |-> Program, port |-> NULL]]
  /\ UNCHANGED <<handle, port, lost, ret>>

ProgramCloses ==
  /\ \E h \in Handles : open[h] # NULL /\ open[h].owner = Program
                          /\ open' = [open EXCEPT ![h] = NULL]
  /\ UNCHANGED <<handle, port, lost, ret>>

Arrives(p) ==
  /\ port[p].in < MaxQueue
  /\ port' = [port EXCEPT ![p].in = @ + 1] /\ UNCHANGED <<open, handle, lost, ret>>

Sends(p) ==
  /\ port[p].out > 0
  /\ port' = [port EXCEPT ![p].out = @ - 1] /\ UNCHANGED <<open, handle, lost, ret>>

SerialNext(s) ==
  \/ New(s) \/ Close(s) \/ Destroy(s)
  \/ \E p \in Ports : NewDev(s, p) \/ Open(s, p)
  \/ \E n \in Lengths : Read(s, n) \/ Write(s, n)
  \/ \E dir \in {{"in"}, {"out"}, {"in", "out"}} : Flush(s, dir)
  \/ \E n \in Requests : SetSpeed(s, NearestSpeed(n))
  \/ \E ns \in Durations : SetTimeout(s, ns)
  \/ Drain(s) \/ GetSpeed(s) \/ GetTimeout(s) \/ MinRdChars(s)

Next ==
  \/ \E s \in Serials : SerialNext(s)
  \/ \E p \in Ports : Arrives(p) \/ Sends(p)
  \/ ProgramOpens \/ ProgramCloses

Spec == Init /\ [][Next]_vars

-----------------------------------------------------------------------------
(* Properties *)

\* The handle of a serial that says it is open is its own, whichever call failed
\* before, and a handle that a serial has opened is in its hands until it is
\* closed, except when an object was destroyed that could not be closed: no call
\* acts on what the program, or another serial, has open, and no port stays taken.
HandlesAreOwned ==
  \A h \in Handles :
    /\ \A s \in Serials : handle[s] = h => open[h] # NULL /\ open[h].owner = s
    /\ open[h] # NULL /\ open[h].owner \in Serials =>
         handle[open[h].owner] = h \/ h \in lost

\* A timeout of a microsecond or more waits, be it less than a millisecond or a
\* multiple of 2 ^ 32 of them.
PositiveTimeoutWaits ==
  \A p \in Ports : port[p].asked >= Micro => port[p].timeout > 0
=============================================================================
