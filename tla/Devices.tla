------------------------------ MODULE Devices ------------------------------
(***************************************************************************)
(* The serial devices of the two builds of the library: see_serial_new_dev *)
(* makes objects of the class that the build has, SeePosixSerial or        *)
(* SeeWindowsSerial, and the functions of Serial.c call its methods.       *)
(***************************************************************************)
EXTENDS PosixSerial, FiniteSets

CONSTANTS Ports, Handles, Invalid, Known, BaudRates, Foreign, Requests,
          WindowsDurations, Micro, Milli, DWord, Lengths, MaxQueue

(* Of WindowsSerial. *)

ASSUME HandlesAssumption ==
  /\ Invalid \notin Handles /\ NULL \notin Handles \cup {Invalid}
  /\ NULL \notin [owner : Serials \cup {Program}, port : Ports \cup {NULL}]

ASSUME WidthsAssumption ==
  /\ Known # {} /\ Known = 0 .. (Cardinality(Known) - 1)
  /\ BaudRates \in [Known -> Nat] /\ BaudRates[0] = 0
  /\ \A v, w \in Known : v < w => BaudRates[v] < BaudRates[w]
  /\ Requests \subseteq Nat /\ Lengths \subseteq Nat
  /\ WindowsDurations \subseteq Int /\ {Micro, Milli} \subseteq Nat \ {0}
  /\ DWord \in Nat \ {0, 1} /\ MaxQueue \in Nat

VARIABLES build,  \* "posix" or "windows"; never changes
          open, handle, port, wlost, wret \* those of WindowsSerial

wvars == <<open, handle, port, wlost, wret>>

W == INSTANCE WindowsSerial WITH
       Durations <- WindowsDurations, lost <- wlost, ret <- wret

DevicesInit == Init /\ W!Init /\ build \in {"posix", "windows"}

DevicesNext ==
  /\ \/ build = "posix" /\ Next /\ UNCHANGED wvars
     \/ build = "windows" /\ W!Next /\ UNCHANGED vars
  /\ UNCHANGED build

DevicesSpec == DevicesInit /\ [][DevicesNext]_<<vars, wvars, build>>

-----------------------------------------------------------------------------
(* Properties of the Windows device; those of the other are in PosixSerial. *)

\* The handle of an open serial is its own, and no handle gets lost while its
\* object is there (WindowsSerial.c: open, close; Serial.c: serial_destroy).
HandlesAreOwned == W!HandlesAreOwned

\* No timeout of a microsecond or more turns into one that does not wait
\* (WindowsSerial.c: windows_serial_set_timeout).
PositiveTimeoutWaits == W!PositiveTimeoutWaits
=============================================================================
