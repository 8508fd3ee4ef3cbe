---------------------------- MODULE DevicesProofs ----------------------------
(***************************************************************************)
(* Proofs about the serial devices of both builds, for any number of       *)
(* serials: those of the POSIX device, with any terminals and descriptors, *)
(* and any way for the system calls to fail, under two hypotheses: serials *)
(* are opened on terminals, and close does not fail.  Without either one   *)
(* the properties are false (README.md).  Those of the Windows device,     *)
(* with any ports and handles, need no hypothesis.                         *)
(*                                                                         *)
(* Open and NewDev go through a state in which a descriptor has been       *)
(* closed but none opened, or opened and not yet closed: the invariants    *)
(* are stated of a table, the descriptors or handles of the serials and    *)
(* the lost ones, so that they can be shown to hold after each of the two  *)
(* halves of a call.                                                       *)
(***************************************************************************)
EXTENDS Devices, TLAPS

-----------------------------------------------------------------------------
(* The POSIX device *)

TableType == [Fds -> [owner : Owners, dev : Devices] \cup {NULL}]
SettingsType == [Ttys -> [ispeed : Speeds, ospeed : Speeds,
                          vtime : 0..MaxTenths, vmin : 0..255]]

Owns(t, g) ==
    \A s \in Serials : g[s] \in Fds => t[g[s]] # NULL /\ t[g[s]].owner = s

Keeps(t, g, l) ==
    \A f \in Fds : t[f] # NULL /\ t[f].owner \in Serials =>
        g[t[f].owner] = f \/ f \in l

Sound(t, g, set, l) ==
    /\ t \in TableType
    /\ g \in [Serials -> Fds \cup {NoFd, NULL}]
    /\ set \in SettingsType
    /\ l \subseteq Fds
    /\ Owns(t, g)
    /\ Keeps(t, g, l)

IInv == Sound(table, fd, settings, lost)

\* What the two theorems assume of the clients and of the system.
TerminalsOnly == Targets \subseteq Ttys
CloseWorks == "close" \notin Failures

-----------------------------------------------------------------------------
(* Lemmas about the operators of the model *)

\* NULL and -1 are no descriptors, and differ.
LEMMA NoDescriptors == NULL \notin Fds /\ NoFd \notin Fds /\ NULL # NoFd
<1>1. NULL \notin Int
  BY NamesAssumption
<1>2. Fds \subseteq Int
  BY DescriptorsAssumption
<1>3. NoFd \notin Fds /\ NoFd \in Int
  BY DescriptorsAssumption DEF NoFd
<1>4. QED
  BY <1>1, <1>2, <1>3, Zenon

\* posix_serial_close succeeds and leaves no descriptor behind, or fails and
\* changes nothing.
LEMMA CloseEffect ==
    ASSUME CloseWorks, NEW t \in TableType, NEW set \in SettingsType,
           NEW f \in Fds \cup {NoFd}, NEW c \in CloseResults(t, set, f)
    PROVE  /\ c.settings \in SettingsType
           /\ \/ c.ret = Done /\ c.fd = NoFd /\ f = NoFd /\ c.table = t
              \/ /\ c.ret = Done /\ c.fd = NoFd
                 /\ f \in Fds /\ c.table = [t EXCEPT ![f] = NULL]
              \/ /\ c.ret = Failed /\ c.fd = f /\ f \in Fds /\ c.table = t
<1>1. NoFd \notin Fds
  BY NoDescriptors
<1>2. CASE f = NoFd
  BY <1>2, <1>1 DEF CloseResults
<1>3. CASE f # NoFd /\ ~IsTty(t, f)
  BY <1>3 DEF CloseResults
<1>4. CASE f # NoFd /\ IsTty(t, f)
  <2> DEFINE dev == t[f].dev
             off == [set[dev] EXCEPT !.ispeed = B0, !.ospeed = B0]
             hungUp == [set EXCEPT ![dev] = off]
  <2>1. dev \in Ttys
    BY <1>4 DEF IsTty
  <2>2. set[dev] \in [ispeed : Speeds, ospeed : Speeds,
                      vtime : 0..MaxTenths, vmin : 0..255]
    BY <2>1 DEF SettingsType
  <2>3. off \in [ispeed : Speeds, ospeed : Speeds,
                 vtime : 0..MaxTenths, vmin : 0..255]
    BY <2>2, SettingsAssumption, Zenon
  <2>4. \/ c = [ret |-> Done, table |-> [t EXCEPT ![f] = NULL], fd |-> NoFd,
                settings |-> hungUp]
        \/ c = [ret |-> Failed, table |-> t, fd |-> f, settings |-> set]
    BY <1>4, Zenon DEF CloseResults, CloseWorks
  <2> HIDE DEF off, dev
  <2>5. hungUp \in SettingsType
    BY <2>1, <2>3 DEF SettingsType
  <2>6. QED
    BY <1>4, <2>4, <2>5
<1>5. QED
  BY <1>2, <1>3, <1>4

\* On a terminal posix_serial_open fails without a descriptor, or puts a free
\* descriptor in the object, whatever it returns.
LEMMA OpenEffect ==
    ASSUME NEW t \in TableType, NEW set \in SettingsType,
           NEW s \in Serials, NEW d \in Ttys, NEW r \in OpenResults(t, set, s, d)
    PROVE  /\ r.settings \in SettingsType
           /\ r.ret \in {Done, Failed}
           /\ \/ r.ret = Failed /\ r.fd = NoFd /\ r.table = t
              \/ /\ r.fd \in Fds /\ t[r.fd] = NULL
                 /\ r.table = [t EXCEPT ![r.fd] = [owner |-> s, dev |-> d]]
<1> DEFINE opened(f) == [t EXCEPT ![f] = [owner |-> s, dev |-> d]]
           new == [set[d] EXCEPT !.vmin = 1, !.vtime = 0]
           raw == [set EXCEPT ![d] = new]
<1>1. new \in [ispeed : Speeds, ospeed : Speeds, vtime : 0..MaxTenths, vmin : 0..255]
  <2>1. 1 \in 0..255 /\ 0 \in 0..MaxTenths
    BY SettingsAssumption
  <2>2. set[d] \in [ispeed : Speeds, ospeed : Speeds,
                    vtime : 0..MaxTenths, vmin : 0..255]
    BY DEF SettingsType
  <2>3. QED
    BY <2>1, <2>2, Zenon
<1>2. \/ r = [ret |-> Failed, table |-> t, fd |-> NoFd, settings |-> set]
      \/ \E f \in LowestFree(t) :
            \/ r = [ret |-> Done, table |-> opened(f), fd |-> f, settings |-> raw]
            \/ r = [ret |-> Failed, table |-> opened(f), fd |-> f, settings |-> set]
  <2> DEFINE none == [ret |-> Failed, table |-> t, fd |-> NoFd, settings |-> set]
  <2>1. r = none \/ \E f \in LowestFree(t) : r \in PrepareResults(t, set, s, d, f)
    BY Zenon DEF OpenResults
  <2>2. ASSUME NEW f, r \in PrepareResults(t, set, s, d, f)
        PROVE  \/ r = none
               \/ r = [ret |-> Done, table |-> opened(f), fd |-> f, settings |-> raw]
               \/ r = [ret |-> Failed, table |-> opened(f), fd |-> f, settings |-> set]
    BY <2>2, Zenon DEF PrepareResults
  <2>3. QED
    BY <2>1, <2>2, Zenon
<1> HIDE DEF new
<1>3. raw \in SettingsType
  BY <1>1 DEF SettingsType
<1>4. \A f \in LowestFree(t) : f \in Fds /\ t[f] = NULL
  BY DEF LowestFree
<1> HIDE DEF raw
<1>5. QED
  BY <1>2, <1>3, <1>4

\* The invariant survives the first half of a call ...
LEMMA CloseKeepsSound ==
    ASSUME CloseWorks, NEW t, NEW g, NEW set, NEW l, Sound(t, g, set, l),
           NEW s \in Serials, g[s] # NULL, NEW c \in CloseResults(t, set, g[s])
    PROVE  /\ Sound(c.table, [g EXCEPT ![s] = c.fd], c.settings, l)
           /\ \/ c.ret = Done /\ c.fd = NoFd
              \/ c.ret = Failed /\ c.fd \in Fds
<1> DEFINE h == [g EXCEPT ![s] = c.fd]
<1>1. /\ t \in TableType /\ set \in SettingsType /\ l \subseteq Fds
      /\ g \in [Serials -> Fds \cup {NoFd, NULL}]
      /\ Owns(t, g) /\ Keeps(t, g, l)
  BY DEF Sound
<1>2. g[s] \in Fds \cup {NoFd} /\ NoFd \notin Fds
  BY <1>1, NoDescriptors
<1>3. /\ c.settings \in SettingsType
      /\ \/ c.ret = Done /\ c.fd = NoFd /\ g[s] = NoFd /\ c.table = t
         \/ /\ c.ret = Done /\ c.fd = NoFd
            /\ g[s] \in Fds /\ c.table = [t EXCEPT ![g[s]] = NULL]
         \/ /\ c.ret = Failed /\ c.fd = g[s] /\ g[s] \in Fds /\ c.table = t
  BY <1>1, <1>2, CloseEffect
<1>4. CASE c.table = t /\ c.fd = g[s]
  <2>1. h = g
    BY <1>1, <1>4
  <2>2. Sound(c.table, h, c.settings, l)
    BY <2>1, <1>1, <1>3, <1>4, Zenon DEF Sound
  <2>3. QED
    BY <2>2, <1>2, <1>3, <1>4
<1>5. CASE c.fd = NoFd /\ g[s] \in Fds /\ c.table = [t EXCEPT ![g[s]] = NULL]
  <2>1. h \in [Serials -> Fds \cup {NoFd, NULL}]
    BY <1>1, <1>5
  <2>2. c.table \in TableType
    BY <1>1, <1>5 DEF TableType
  <2>3. t[g[s]] # NULL /\ t[g[s]].owner = s
    BY <1>1, <1>5 DEF Owns
  <2>4. Owns(c.table, h)
    <3> SUFFICES ASSUME NEW u \in Serials, h[u] \in Fds
                 PROVE  c.table[h[u]] # NULL /\ c.table[h[u]].owner = u
      BY DEF Owns
    <3>1. u # s /\ h[u] = g[u]
      BY <1>1, <1>2, <1>5
    <3>2. t[g[u]] # NULL /\ t[g[u]].owner = u
      BY <3>1, <1>1 DEF Owns
    <3>3. g[u] # g[s]
      BY <2>3, <3>1, <3>2
    <3>4. QED
      BY <1>1, <1>5, <3>1, <3>2, <3>3 DEF TableType
  <2>5. Keeps(c.table, h, l)
    <3> SUFFICES ASSUME NEW f \in Fds, c.table[f] # NULL, c.table[f].owner \in Serials
                 PROVE  h[c.table[f].owner] = f \/ f \in l
      BY DEF Keeps
    <3>1. f # g[s] /\ c.table[f] = t[f]
      BY <1>1, <1>5 DEF TableType
    <3>2. g[t[f].owner] = f \/ f \in l
      BY <3>1, <1>1 DEF Keeps
    <3>3. QED
      BY <3>1, <3>2, <1>1
  <2>6. Sound(c.table, h, c.settings, l)
    BY <2>1, <2>2, <2>4, <2>5, <1>1, <1>3, Zenon DEF Sound
  <2>7. c.ret = Done
    BY <1>2, <1>3, <1>5
  <2>8. QED
    BY <2>6, <2>7, <1>5
<1>6. QED
  BY <1>3, <1>4, <1>5

\* ... and the second, when the serial holds no descriptor.
LEMMA OpenKeepsSound ==
    ASSUME NEW t, NEW g, NEW set, NEW l, Sound(t, g, set, l),
           NEW s \in Serials, g[s] \notin Fds, NEW d \in Ttys,
           NEW r \in OpenResults(t, set, s, d)
    PROVE  /\ Sound(r.table, [g EXCEPT ![s] = r.fd], r.settings, l)
           /\ r.fd \in Fds \cup {NoFd}
           /\ r.ret \in {Done, Failed}
<1> DEFINE h == [g EXCEPT ![s] = r.fd]
<1>1. /\ t \in TableType /\ set \in SettingsType /\ l \subseteq Fds
      /\ g \in [Serials -> Fds \cup {NoFd, NULL}]
      /\ Owns(t, g) /\ Keeps(t, g, l)
  BY DEF Sound
<1>2. NoFd \notin Fds
  BY NoDescriptors
<1>3. /\ r.settings \in SettingsType
      /\ r.ret \in {Done, Failed}
      /\ \/ r.ret = Failed /\ r.fd = NoFd /\ r.table = t
         \/ /\ r.fd \in Fds /\ t[r.fd] = NULL
            /\ r.table = [t EXCEPT ![r.fd] = [owner |-> s, dev |-> d]]
  BY <1>1, OpenEffect
<1>4. h \in [Serials -> Fds \cup {NoFd, NULL}]
  BY <1>1, <1>3
<1>5. \A f \in Fds : t[f] # NULL /\ t[f].owner \in Serials /\ t[f].owner = s => f \in l
  BY <1>1 DEF Keeps
<1>6. CASE r.fd = NoFd /\ r.table = t
  <2>1. Owns(t, h)
    BY <1>1, <1>2, <1>6 DEF Owns
  <2>2. Keeps(t, h, l)
    BY <1>1, <1>5 DEF Keeps
  <2>3. QED
    BY <1>1, <1>3, <1>4, <1>6, <2>1, <2>2 DEF Sound
<1>7. CASE /\ r.fd \in Fds /\ t[r.fd] = NULL
           /\ r.table = [t EXCEPT ![r.fd] = [owner |-> s, dev |-> d]]
  <2> DEFINE new == [owner |-> s, dev |-> d]
  <2>1. new \in [owner : Owners, dev : Devices] /\ new # NULL /\ new.owner = s
    BY NamesAssumption DEF Owners, Devices
  <2>2. r.table \in TableType
    BY <1>1, <1>7, <2>1 DEF TableType
  <2>3. r.table[r.fd] = new /\ \A f \in Fds : f # r.fd => r.table[f] = t[f]
    BY <1>1, <1>7 DEF TableType
  <2> HIDE DEF new
  <2>4. Owns(r.table, h)
    <3> SUFFICES ASSUME NEW u \in Serials, h[u] \in Fds
                 PROVE  r.table[h[u]] # NULL /\ r.table[h[u]].owner = u
      BY DEF Owns
    <3>1. CASE u = s
      BY <3>1, <1>1, <2>1, <2>3
    <3>2. CASE u # s
      <4>1. h[u] = g[u] /\ t[g[u]] # NULL /\ t[g[u]].owner = u
        BY <3>2, <1>1 DEF Owns
      <4>2. QED
        BY <4>1, <1>7, <2>3
    <3>3. QED
      BY <3>1, <3>2
  <2>5. Keeps(r.table, h, l)
    <3> SUFFICES ASSUME NEW f \in Fds, r.table[f] # NULL, r.table[f].owner \in Serials
                 PROVE  h[r.table[f].owner] = f \/ f \in l
      BY DEF Keeps
    <3>1. CASE f = r.fd
      BY <3>1, <1>1, <2>1, <2>3
    <3>2. CASE f # r.fd
      <4>1. r.table[f] = t[f] /\ (g[t[f].owner] = f \/ f \in l)
        BY <3>2, <1>1, <2>3 DEF Keeps
      <4>2. QED
        BY <4>1, <1>1, <1>5
    <3>3. QED
      BY <3>1, <3>2
  <2>6. QED
    BY <1>1, <1>3, <1>4, <1>7, <2>2, <2>4, <2>5 DEF Sound
<1>8. QED
  BY <1>3, <1>6, <1>7

\* A timeout fits in VTIME.
LEMMA TenthsFit ==
    ASSUME NEW ns \in Durations PROVE Tenths(ns) \in 0..MaxTenths
<1> DEFINE q == ns \div Tenth
<1>1. /\ ns \in Int /\ Tenth \in Nat /\ Tenth > 0 /\ MaxTenths \in Nat /\ MaxTenths > 0
      /\ q \in Int
  BY SettingsAssumption
<1>2. CASE ns <= 0
  BY <1>1, <1>2 DEF Tenths
<1>3. CASE ns > 0 /\ q = 0
  BY <1>1, <1>3 DEF Tenths
<1>4. CASE ns > 0 /\ q # 0
  <2>1. q >= 0
    BY <1>1, <1>4
  <2> HIDE DEF q
  <2>2. PICK x \in {q, MaxTenths} : \A y \in {q, MaxTenths} : x <= y
    BY <1>1
  <2>3. Min({q, MaxTenths}) \in {q, MaxTenths}
        /\ \A y \in {q, MaxTenths} : Min({q, MaxTenths}) <= y
    BY <2>2 DEF Min
  <2>4. Min({q, MaxTenths}) \in 0..MaxTenths
    BY <1>1, <2>1, <2>3
  <2>5. Tenths(ns) = Min({q, MaxTenths})
    BY <1>1, <1>4 DEF Tenths, q
  <2>6. QED
    BY <2>4, <2>5
<1>5. QED
  BY <1>1, <1>2, <1>3, <1>4

-----------------------------------------------------------------------------
(* The inductive invariant *)

\* Nothing is open at the start.
LEMMA InitSound == Init => IInv
<1> SUFFICES ASSUME Init PROVE IInv
  OBVIOUS
<1>1. table \in TableType /\ fd \in [Serials -> Fds \cup {NoFd, NULL}] /\ lost \subseteq Fds
  BY DEF Init, TableType
<1>2. settings \in SettingsType
  <2>1. 0 \in 0..MaxTenths /\ 1 \in 0..255
    BY SettingsAssumption
  <2>2. QED
    BY <2>1 DEF Init, SettingsType
<1>3. Owns(table, fd) /\ Keeps(table, fd, lost)
  BY NoDescriptors DEF Init, Owns, Keeps
<1>4. QED
  BY <1>1, <1>2, <1>3 DEF IInv, Sound

\* A call that changes at most the settings of a device.
LEMMA SettingsKeepSound ==
    ASSUME IInv, settings' \in SettingsType, UNCHANGED <<table, fd, lost>>
    PROVE  IInv'
BY DEF IInv, Sound, Owns, Keeps, TableType, SettingsType

\* see_serial_open: close, then open.
LEMMA OpenSound ==
    ASSUME CloseWorks, IInv, NEW s \in Serials, NEW d \in Ttys, Open(s, d)
    PROVE  IInv'
<1>1. PICK c \in CloseResults(table, settings, fd[s]) :
         IF c.ret = Done
         THEN \E r \in OpenResults(c.table, c.settings, s, d) : Apply(s, r)
         ELSE Apply(s, c)
  BY DEF Open
<1>2. fd[s] # NULL /\ lost' = lost
  BY DEF Open, Held
<1> DEFINE g == [fd EXCEPT ![s] = c.fd]
<1>3. /\ Sound(c.table, g, c.settings, lost)
      /\ \/ c.ret = Done /\ c.fd = NoFd
         \/ c.ret = Failed /\ c.fd \in Fds
  BY <1>2, CloseKeepsSound DEF IInv
<1>4. CASE c.ret = Done
  <2>1. PICK r \in OpenResults(c.table, c.settings, s, d) : Apply(s, r)
    BY <1>1, <1>4
  <2>2. c.fd = NoFd /\ NoFd \notin Fds
    BY <1>3, <1>4, NoDescriptors DEF Done, Failed
  <2>3. fd \in [Serials -> Fds \cup {NoFd, NULL}]
    BY DEF IInv, Sound
  <2>4. g[s] \notin Fds
    BY <2>2, <2>3
  <2>5. Sound(r.table, [g EXCEPT ![s] = r.fd], r.settings, lost)
    <3> HIDE DEF g
    <3>1. QED
      BY <1>3, <2>4, OpenKeepsSound
  <2>6. fd' = [g EXCEPT ![s] = r.fd]
    BY <2>1, <2>3 DEF Apply, EndsWith
  <2>7. QED
    BY <1>2, <2>1, <2>5, <2>6 DEF IInv, Apply, EndsWith
<1>5. CASE c.ret # Done
  BY <1>1, <1>2, <1>3, <1>5 DEF IInv, Apply, EndsWith
<1>6. QED
  BY <1>4, <1>5

\* see_serial_close.
LEMMA CloseSound ==
    ASSUME CloseWorks, IInv, NEW s \in Serials, Close(s)
    PROVE  IInv'
<1>1. PICK c \in CloseResults(table, settings, fd[s]) : Apply(s, c)
  BY DEF Close
<1>2. fd[s] # NULL /\ lost' = lost
  BY DEF Close, Held
<1>3. Sound(c.table, [fd EXCEPT ![s] = c.fd], c.settings, lost)
  BY <1>2, CloseKeepsSound DEF IInv
<1>4. QED
  BY <1>1, <1>2, <1>3 DEF IInv, Apply, EndsWith

\* An object goes away, and with it, if it could not be closed, its descriptor.
LEMMA ForgetKeepsSound ==
    ASSUME NEW t, NEW g, NEW set, NEW l, Sound(t, g, set, l), NEW s \in Serials,
           g[s] \in Fds \cup {NoFd}
    PROVE  /\ Sound(t, [g EXCEPT ![s] = NULL], set,
                    IF g[s] = NoFd THEN l ELSE l \cup {g[s]})
<1> DEFINE h == [g EXCEPT ![s] = NULL]
           k == IF g[s] = NoFd THEN l ELSE l \cup {g[s]}
<1>1. /\ t \in TableType /\ set \in SettingsType /\ l \subseteq Fds
      /\ g \in [Serials -> Fds \cup {NoFd, NULL}]
      /\ Owns(t, g) /\ Keeps(t, g, l)
  BY DEF Sound
<1>2. h \in [Serials -> Fds \cup {NoFd, NULL}] /\ k \subseteq Fds
  BY <1>1
<1>3. NULL \notin Fds /\ NoFd \notin Fds
  BY NoDescriptors
<1>4. Owns(t, h)
  BY <1>1, <1>3 DEF Owns
<1>5. Keeps(t, h, k)
  <2> SUFFICES ASSUME NEW f \in Fds, t[f] # NULL, t[f].owner \in Serials
               PROVE  h[t[f].owner] = f \/ f \in k
    BY DEF Keeps
  <2>1. g[t[f].owner] = f \/ f \in l
    BY <1>1 DEF Keeps
  <2>2. QED
    BY <2>1, <1>1, <1>3
<1> HIDE DEF h, k
<1>6. Sound(t, h, set, k)
  BY <1>1, <1>2, <1>4, <1>5 DEF Sound
<1>7. QED
  BY <1>6 DEF h, k

\* see_serial_new.
LEMMA NewSound ==
    ASSUME IInv, NEW s \in Serials, New(s) PROVE IInv'
<1>1. /\ Owns(table, fd) /\ Keeps(table, fd, lost)
      /\ fd \in [Serials -> Fds \cup {NoFd, NULL}] /\ fd[s] = NULL
      /\ fd' = [fd EXCEPT ![s] = NoFd] /\ table' = table /\ lost' = lost
  BY DEF IInv, Sound, New, Held
<1>2. NULL \notin Fds /\ NoFd \notin Fds
  BY NoDescriptors
<1>3. Owns(table', fd')
  BY <1>1, <1>2 DEF Owns
<1>4. Keeps(table', fd', lost')
  BY <1>1, <1>2 DEF Keeps
<1>5. QED
  BY <1>1, <1>3, <1>4 DEF IInv, Sound, New, TableType, SettingsType

\* serial_destroy.
LEMMA DestroySound ==
    ASSUME CloseWorks, IInv, NEW s \in Serials, Destroy(s) PROVE IInv'
<1>1. PICK c \in CloseResults(table, settings, fd[s]) :
         /\ EndsWith(s, c, NULL, ret)
         /\ lost' = IF c.ret = Done THEN lost ELSE lost \cup {c.fd}
  BY DEF Destroy
<1> DEFINE g == [fd EXCEPT ![s] = c.fd]
<1>2. /\ Sound(c.table, g, c.settings, lost)
      /\ \/ c.ret = Done /\ c.fd = NoFd
         \/ c.ret = Failed /\ c.fd \in Fds
  BY CloseKeepsSound DEF IInv, Destroy, Held
<1>3. fd \in [Serials -> Fds \cup {NoFd, NULL}] /\ NoFd \notin Fds
  BY NoDescriptors DEF IInv, Sound
<1>4. g[s] = c.fd /\ fd' = [g EXCEPT ![s] = NULL]
  BY <1>1, <1>3 DEF EndsWith
<1>5. lost' = IF g[s] = NoFd THEN lost ELSE lost \cup {g[s]}
  BY <1>1, <1>2, <1>3, <1>4 DEF Done, Failed
<1> HIDE DEF g
<1>6. Sound(c.table, [g EXCEPT ![s] = NULL], c.settings,
            IF g[s] = NoFd THEN lost ELSE lost \cup {g[s]})
  BY <1>2, <1>4, ForgetKeepsSound
<1>7. QED
  BY <1>1, <1>4, <1>5, <1>6 DEF IInv, EndsWith

\* see_serial_new_dev: the new object is destroyed when it cannot be opened.
LEMMA NewDevSound ==
    ASSUME CloseWorks, IInv, NEW s \in Serials, NEW d \in Ttys, NewDev(s, d)
    PROVE  IInv'
<1>1. PICK r \in OpenResults(table, settings, s, d) :
         IF r.ret = Done
         THEN Apply(s, r) /\ UNCHANGED lost
         ELSE \E c \in CloseResults(r.table, r.settings, r.fd) :
                 /\ EndsWith(s, c, NULL, Failed)
                 /\ lost' = IF c.ret = Done THEN lost ELSE lost \cup {c.fd}
  BY DEF NewDev
<1>2. /\ fd \in [Serials -> Fds \cup {NoFd, NULL}] /\ fd[s] \notin Fds
      /\ NULL \notin Fds \cup {NoFd} /\ NoFd \notin Fds
  BY NoDescriptors DEF IInv, Sound, NewDev, Held
<1> DEFINE g == [fd EXCEPT ![s] = r.fd]
<1>3. Sound(r.table, g, r.settings, lost) /\ r.fd \in Fds \cup {NoFd}
  BY <1>2, OpenKeepsSound DEF IInv
<1>4. CASE r.ret = Done
  BY <1>1, <1>3, <1>4 DEF IInv, Apply, EndsWith
<1>5. CASE r.ret # Done
  <2>1. PICK c \in CloseResults(r.table, r.settings, r.fd) :
           /\ EndsWith(s, c, NULL, Failed)
           /\ lost' = IF c.ret = Done THEN lost ELSE lost \cup {c.fd}
    BY <1>1, <1>5
  <2> DEFINE h == [g EXCEPT ![s] = c.fd]
  <2>2. g[s] = r.fd /\ g[s] # NULL
    BY <1>2, <1>3
  <2>3. h[s] = c.fd /\ fd' = [h EXCEPT ![s] = NULL]
    BY <1>2, <2>1 DEF EndsWith
  <2> HIDE DEF g
  <2>4. /\ Sound(c.table, h, c.settings, lost)
        /\ \/ c.ret = Done /\ c.fd = NoFd
           \/ c.ret = Failed /\ c.fd \in Fds
    BY <1>3, <2>2, CloseKeepsSound
  <2>5. lost' = IF h[s] = NoFd THEN lost ELSE lost \cup {h[s]}
    BY <1>2, <2>1, <2>3, <2>4 DEF Done, Failed
  <2> HIDE DEF h
  <2>6. Sound(c.table, [h EXCEPT ![s] = NULL], c.settings,
              IF h[s] = NoFd THEN lost ELSE lost \cup {h[s]})
    BY <2>3, <2>4, ForgetKeepsSound
  <2>7. QED
    BY <2>1, <2>3, <2>5, <2>6 DEF IInv, EndsWith
<1>6. QED
  BY <1>4, <1>5

\* The calls that set or read the settings change nothing else.
LEMMA SettingsSound ==
    ASSUME IInv, NEW s \in Serials,
           \/ \E dir \in {{"in"}, {"out"}, {"in", "out"}}, v \in Speeds :
                 SetSpeed(s, dir, v)
           \/ \E ns \in Durations : SetTimeout(s, ns)
           \/ \E n \in {0, 1} : SetMinRdChars(s, n)
           \/ \E dir \in {{"in"}, {"out"}, {"in", "out"}} : GetSpeed(s, dir)
           \/ GetTimeout(s) \/ GetMinRdChars(s)
           \/ FlushOrDrain(s)
    PROVE  IInv'
<1> DEFINE Rec == [ispeed : Speeds, ospeed : Speeds, vtime : 0..MaxTenths, vmin : 0..255]
<1>1. UNCHANGED <<table, fd, lost>>
  BY DEF SetSpeed, SetTimeout, SetMinRdChars, GetSpeed, GetTimeout,
         GetMinRdChars, FlushOrDrain, Configure, Ask
<1>2. settings \in [Ttys -> Rec] /\ (IsTty(table, fd[s]) => table[fd[s]].dev \in Ttys)
  BY DEF IInv, Sound, SettingsType, IsTty
<1>3. ASSUME NEW dir \in {{"in"}, {"out"}, {"in", "out"}}, NEW v \in Speeds,
             SetSpeed(s, dir, v)
      PROVE  settings' \in [Ttys -> Rec]
  <2> DEFINE dev == table[fd[s]].dev
             new == [settings[dev] EXCEPT !.ispeed = IF "in" \in dir THEN v ELSE @,
                                          !.ospeed = IF "out" \in dir THEN v ELSE @]
  <2>1. \/ IsTty(table, fd[s]) /\ settings' = [settings EXCEPT ![dev] = new]
        \/ settings' = settings
    BY <1>3, Zenon DEF SetSpeed, Configure
  <2>2. CASE IsTty(table, fd[s]) /\ settings' = [settings EXCEPT ![dev] = new]
    <3>1. settings[dev] \in Rec /\ dev \in Ttys
      BY <1>2, <2>2
    <3>2. new \in Rec
      <4>1. (IF "in" \in dir THEN v ELSE settings[dev].ispeed) \in Speeds
        BY <3>1
      <4>2. (IF "out" \in dir THEN v ELSE settings[dev].ospeed) \in Speeds
        BY <3>1
      <4>3. QED
        BY <3>1, <4>1, <4>2, Zenon
    <3> HIDE DEF new, dev, Rec
    <3>3. QED
      BY <1>2, <2>2, <3>1, <3>2
  <2>3. QED
    BY <1>2, <2>1, <2>2
<1>4. ASSUME NEW ns \in Durations, SetTimeout(s, ns)
      PROVE  settings' \in [Ttys -> Rec]
  BY <1>2, <1>4, TenthsFit DEF SetTimeout, Configure
<1>5. ASSUME NEW n \in {0, 1}, SetMinRdChars(s, n)
      PROVE  settings' \in [Ttys -> Rec]
  BY <1>2, <1>5 DEF SetMinRdChars, Configure
<1>6. ASSUME \/ \E dir \in {{"in"}, {"out"}, {"in", "out"}} : GetSpeed(s, dir)
             \/ GetTimeout(s) \/ GetMinRdChars(s) \/ FlushOrDrain(s)
      PROVE  settings' \in [Ttys -> Rec]
  BY <1>2, <1>6 DEF GetSpeed, GetTimeout, GetMinRdChars, FlushOrDrain, Ask
<1>7. settings' \in SettingsType
  BY <1>3, <1>4, <1>5, <1>6 DEF SettingsType
<1>8. QED
  BY <1>1, <1>7, SettingsKeepSound

\* What the program does with its own descriptors.
LEMMA ProgramSound ==
    ASSUME IInv, ProgramNext PROVE IInv'
<1>1. /\ table \in TableType /\ Owns(table, fd) /\ Keeps(table, fd, lost)
      /\ fd \in [Serials -> Fds \cup {NoFd, NULL}]
  BY DEF IInv, Sound
<1>2. UNCHANGED <<fd, settings, lost>>
  BY DEF ProgramNext, ProgramOpens, ProgramCloses
<1>3. ASSUME NEW d \in Devices, ProgramOpens(d)
      PROVE  table' \in TableType /\ Owns(table', fd) /\ Keeps(table', fd, lost)
  <2> DEFINE new == [owner |-> Program, dev |-> d]
  <2>1. PICK f \in Fds : table[f] = NULL /\ table' = [table EXCEPT ![f] = new]
    BY <1>3 DEF ProgramOpens, LowestFree
  <2>2. new \in [owner : Owners, dev : Devices] /\ new.owner \notin Serials
    BY NamesAssumption DEF Owners
  <2> HIDE DEF new
  <2>3. table' \in TableType
    BY <1>1, <2>1, <2>2 DEF TableType
  <2>4. Owns(table', fd)
    BY <1>1, <2>1 DEF Owns, TableType
  <2>5. Keeps(table', fd, lost)
    BY <1>1, <2>1, <2>2 DEF Keeps, TableType
  <2>6. QED
    BY <2>3, <2>4, <2>5
<1>4. ASSUME NEW f \in Fds, ProgramCloses(f)
      PROVE  table' \in TableType /\ Owns(table', fd) /\ Keeps(table', fd, lost)
  <2>1. table[f].owner \notin Serials /\ table' = [table EXCEPT ![f] = NULL]
    BY <1>4, NamesAssumption DEF ProgramCloses
  <2>2. table' \in TableType
    BY <1>1, <2>1 DEF TableType
  <2>3. Owns(table', fd)
    BY <1>1, <2>1 DEF Owns, TableType
  <2>4. Keeps(table', fd, lost)
    BY <1>1, <2>1 DEF Keeps, TableType
  <2>5. QED
    BY <2>2, <2>3, <2>4
<1>5. QED
  BY <1>2, <1>3, <1>4 DEF ProgramNext, IInv, Sound

\* Every step preserves the invariant.
LEMMA NextSound ==
    ASSUME TerminalsOnly, CloseWorks, IInv, [Next]_vars PROVE IInv'
<1>1. ASSUME NEW s \in Serials, SerialNext(s)
      PROVE  IInv'
  <2>1. CASE New(s)
    BY <2>1, NewSound
  <2>2. CASE Close(s)
    BY <2>2, CloseSound
  <2>3. CASE Destroy(s)
    BY <2>3, DestroySound
  <2>4. CASE \E d \in Targets : NewDev(s, d) \/ Open(s, d)
    BY <2>4, NewDevSound, OpenSound DEF TerminalsOnly
  <2>5. CASE \/ \E dir \in {{"in"}, {"out"}, {"in", "out"}}, v \in Speeds :
                  SetSpeed(s, dir, v)
             \/ \E ns \in Durations : SetTimeout(s, ns)
             \/ \E n \in {0, 1} : SetMinRdChars(s, n)
             \/ \E dir \in {{"in"}, {"out"}, {"in", "out"}} : GetSpeed(s, dir)
             \/ GetTimeout(s) \/ GetMinRdChars(s)
             \/ FlushOrDrain(s)
    BY <2>5, SettingsSound
  <2>6. QED
    BY <1>1, <2>1, <2>2, <2>3, <2>4, <2>5 DEF SerialNext
<1>2. CASE ProgramNext
  BY <1>2, ProgramSound
<1>3. CASE UNCHANGED vars
  BY <1>3, SettingsKeepSound DEF vars, IInv, Sound, SettingsType
<1>4. QED
  BY <1>1, <1>2, <1>3 DEF Next

\* The invariant holds in every state of a behaviour.
LEMMA AlwaysSound ==
    ASSUME TerminalsOnly, CloseWorks PROVE Spec => []IInv
<1>1. IInv /\ [Next]_vars => IInv'
  BY NextSound
<1>2. QED
  BY InitSound, <1>1, PTL DEF Spec

-----------------------------------------------------------------------------
(* Safety *)

\* The table of descriptors, the numbers in the objects and the settings of the
\* terminals keep their types; above all a timeout fits in VTIME
\* (posix_serial_set_timeout).
THEOREM TypeCorrect ==
    ASSUME TerminalsOnly, CloseWorks PROVE Spec => []TypeOK
<1>1. IInv => TypeOK
  BY DEF IInv, Sound, TableType, SettingsType, TypeOK
<1>2. QED
  BY <1>1, AlwaysSound, PTL

\* A serial that says it is open (posix_serial_is_open) has a descriptor that it
\* opened and nobody has closed since.
THEOREM OpenMeansOwn ==
    ASSUME TerminalsOnly, CloseWorks PROVE Spec => []OwnDescriptor
<1>1. IInv => OwnDescriptor
  BY DEF IInv, Sound, Owns, OwnDescriptor
<1>2. QED
  BY <1>1, AlwaysSound, PTL

\* Whichever system call fails, a descriptor that posix_serial_open got is in the
\* object or closed; destroying an object that cannot be closed is the exception.
THEOREM NoDescriptorLost ==
    ASSUME TerminalsOnly, CloseWorks PROVE Spec => []NoneLost
<1>1. IInv => NoneLost
  BY DEF IInv, Sound, Keeps, NoneLost
<1>2. QED
  BY <1>1, AlwaysSound, PTL

-----------------------------------------------------------------------------
(* What a call may close *)

\* close leaves every open descriptor alone but the one it is given ...
LEMMA CloseTouchesItsOwn ==
    ASSUME CloseWorks, NEW t \in TableType, NEW set \in SettingsType,
           NEW f \in Fds \cup {NoFd}, NEW c \in CloseResults(t, set, f),
           NEW e \in Fds, e # f
    PROVE  c.table[e] = t[e]
<1>1. c.table = t \/ (f \in Fds /\ c.table = [t EXCEPT ![f] = NULL])
  BY CloseEffect
<1>2. QED
  BY <1>1 DEF TableType

\* ... and open every one; the descriptor it gives was free.
LEMMA OpenTouchesFree ==
    ASSUME NEW t \in TableType, NEW set \in SettingsType,
           NEW s \in Serials, NEW d \in Ttys, NEW r \in OpenResults(t, set, s, d),
           NEW e \in Fds, t[e] # NULL
    PROVE  r.table[e] = t[e] /\ r.fd # e
<1>1. \/ r.fd = NoFd /\ r.table = t
      \/ /\ r.fd \in Fds /\ t[r.fd] = NULL
         /\ r.table = [t EXCEPT ![r.fd] = [owner |-> s, dev |-> d]]
  BY OpenEffect
<1>2. r.fd # e
  BY <1>1, NoDescriptors
<1>3. QED
  BY <1>1, <1>2 DEF TableType

\* A call on serial s changes no entry of the table but that of its descriptor.
LEMMA OthersUntouched ==
    ASSUME TerminalsOnly, CloseWorks, IInv, NEW s \in Serials, SerialNext(s),
           NEW e \in Fds, table[e] # NULL, e # fd[s]
    PROVE  table'[e] = table[e]
<1>1. Sound(table, fd, settings, lost) /\ table \in TableType /\ settings \in SettingsType
  BY DEF IInv, Sound
<1>2. fd[s] # NULL => fd[s] \in Fds \cup {NoFd}
  BY DEF IInv, Sound
<1>3. ASSUME Close(s) \/ Destroy(s)
      PROVE  table'[e] = table[e]
  <2>1. /\ fd[s] # NULL
        /\ \E c \in CloseResults(table, settings, fd[s]) : table' = c.table
    BY <1>3 DEF Close, Destroy, Held, Apply, EndsWith
  <2>2. QED
    BY <2>1, <1>1, <1>2, CloseTouchesItsOwn
<1>4. ASSUME NEW d \in Ttys, Open(s, d)
      PROVE  table'[e] = table[e]
  <2>1. /\ fd[s] # NULL
        /\ \E c \in CloseResults(table, settings, fd[s]) :
              \/ table' = c.table
              \/ \E r \in OpenResults(c.table, c.settings, s, d) : table' = r.table
    BY <1>4 DEF Open, Held, Apply, EndsWith
  <2>2. PICK c \in CloseResults(table, settings, fd[s]) :
           \/ table' = c.table
           \/ \E r \in OpenResults(c.table, c.settings, s, d) : table' = r.table
    BY <2>1
  <2>3. c.table[e] = table[e]
    BY <2>1, <1>1, <1>2, CloseTouchesItsOwn
  <2>4. c.table \in TableType /\ c.settings \in SettingsType
    BY <2>1, <1>1, CloseKeepsSound DEF Sound
  <2>5. QED
    BY <2>2, <2>3, <2>4, OpenTouchesFree
<1>5. ASSUME NEW d \in Ttys, NewDev(s, d)
      PROVE  table'[e] = table[e]
  <2>1. /\ fd[s] = NULL
        /\ \E r \in OpenResults(table, settings, s, d) :
              \/ table' = r.table
              \/ \E c \in CloseResults(r.table, r.settings, r.fd) : table' = c.table
    BY <1>5 DEF NewDev, Held, Apply, EndsWith
  <2>2. PICK r \in OpenResults(table, settings, s, d) :
           \/ table' = r.table
           \/ \E c \in CloseResults(r.table, r.settings, r.fd) : table' = c.table
    BY <2>1
  <2>3. fd[s] \notin Fds
    BY <2>1, NoDescriptors
  <2>4. /\ r.table \in TableType /\ r.settings \in SettingsType
        /\ r.fd \in Fds \cup {NoFd}
    BY <1>1, <2>3, OpenKeepsSound, ZenonT(30) DEF Sound
  <2>5. r.table[e] = table[e] /\ r.fd # e
    BY <1>1, OpenTouchesFree
  <2>6. QED
    BY <2>2, <2>4, <2>5, CloseTouchesItsOwn
<1>6. ASSUME \/ New(s)
             \/ \E dir \in {{"in"}, {"out"}, {"in", "out"}}, v \in Speeds :
                   SetSpeed(s, dir, v)
             \/ \E ns \in Durations : SetTimeout(s, ns)
             \/ \E n \in {0, 1} : SetMinRdChars(s, n)
             \/ \E dir \in {{"in"}, {"out"}, {"in", "out"}} : GetSpeed(s, dir)
             \/ GetTimeout(s) \/ GetMinRdChars(s)
             \/ FlushOrDrain(s)
      PROVE  table' = table
  BY <1>6 DEF New, SetSpeed, SetTimeout, SetMinRdChars, GetSpeed, GetTimeout,
              GetMinRdChars, FlushOrDrain, Configure, Ask
<1>7. QED
  BY <1>3, <1>4, <1>5, <1>6 DEF SerialNext, TerminalsOnly

\* Two serials in a process never close each other's descriptor, nor one that
\* the program has opened by a number a serial once had (posix_serial_close).
THEOREM NobodyElseIsClosed ==
    ASSUME TerminalsOnly, CloseWorks PROVE Spec => ClosesOnlyItsOwn
<1> DEFINE A == \A s \in Serials, f \in Fds :
                   table[f] # NULL /\ table'[f] # table[f] /\ SerialNext(s) =>
                       table[f].owner = s /\ fd[s] = f
<1>1. ASSUME IInv, NEW s \in Serials, NEW f \in Fds,
             SerialNext(s), table[f] # NULL, table'[f] # table[f]
      PROVE  table[f].owner = s /\ fd[s] = f
  <2>1. fd[s] = f
    BY <1>1, OthersUntouched
  <2>2. QED
    BY <1>1, <2>1 DEF IInv, Sound, Owns
<1>2. IInv => A
  BY <1>1
<1>3. QED
  <2>1. IInv /\ [Next]_vars => [A]_vars
    BY <1>2
  <2>2. Spec => [][A]_vars
    BY <2>1, AlwaysSound, PTL DEF Spec
  <2>3. QED
    BY <2>2 DEF ClosesOnlyItsOwn

-----------------------------------------------------------------------------
(* The Windows device *)

Opened == [owner : Serials \cup {Program}, port : Ports \cup {NULL}]
OpenType == [Handles -> Opened \cup {NULL}]
HandleType == [Serials -> Handles \cup {Invalid, NULL}]

\* What a serial holds is open and its own.
HoldsItsOwn(o, g) ==
  \A h \in Handles, s \in Serials : g[s] = h => o[h] # NULL /\ o[h].owner = s

\* What a serial has open it holds, or it is lost.
NothingForgotten(o, g, l) ==
  \A h \in Handles : o[h] # NULL /\ o[h].owner \in Serials =>
    g[o[h].owner] = h \/ h \in l

HandlesSound(o, g, l) ==
  /\ o \in OpenType /\ g \in HandleType
  /\ HoldsItsOwn(o, g) /\ NothingForgotten(o, g, l)

IsPort(q) ==
  q = [baud |-> q.baud, timeout |-> q.timeout, asked |-> q.asked,
       in |-> q.in, out |-> q.out]

Waits(q) == q.asked >= Micro => q.timeout > 0

PortsSound == \A p \in Ports : IsPort(port[p]) /\ Waits(port[p])

PortTable == port = [p \in Ports |-> port[p]]

WInv == HandlesSound(open, handle, wlost) /\ PortTable /\ PortsSound

-----------------------------------------------------------------------------
(* Lemmas about the operators of WindowsSerial *)

\* INVALID_HANDLE_VALUE and the absence of an object are no handles.
LEMMA NoHandles == Invalid \notin Handles /\ NULL \notin Handles /\ NULL # Invalid
BY HandlesAssumption

\* windows_serial_close succeeds and forgets the handle, or fails and keeps it.
LEMMA WindowsCloseEffect ==
  ASSUME NEW o, NEW h \in Handles \cup {Invalid}, NEW c \in W!CloseResults(o, h)
  PROVE  \/ c.ret = W!Done /\ c.handle = Invalid /\ h = Invalid /\ c.open = o
         \/ /\ c.ret = W!Done /\ c.handle = Invalid
            /\ h \in Handles /\ c.open = [o EXCEPT ![h] = NULL]
         \/ /\ c.ret = W!Failed /\ c.handle = h /\ h \in Handles /\ c.open = o
BY NoHandles DEF W!CloseResults

\* windows_serial_open gets a free handle, which it hands over even when it fails
\* later on, or none.
LEMMA WindowsOpenEffect ==
  ASSUME NEW o \in OpenType, NEW s \in Serials, NEW p \in Ports,
         NEW r \in W!OpenResults(o, s, p)
  PROVE  \/ r.open = o /\ r.handle = Invalid
         \/ /\ r.handle \in Handles /\ o[r.handle] = NULL
            /\ r.open = [o EXCEPT ![r.handle] = [owner |-> s, port |-> p]]
<1>1. CASE r = [ret |-> W!Failed, open |-> o, handle |-> Invalid]
  BY <1>1
<1>2. CASE r # [ret |-> W!Failed, open |-> o, handle |-> Invalid]
  <2>1. PICK c \in W!Created(o, s, p) :
          /\ r.open = c
          /\ r.handle \in Handles /\ c[r.handle] # o[r.handle]
    BY <1>2 DEF W!OpenResults
  <2>2. PICK h \in Handles :
          o[h] = NULL /\ c = [o EXCEPT ![h] = [owner |-> s, port |-> p]]
    BY DEF W!Created
  <2>3. r.handle = h
    BY <2>1, <2>2 DEF OpenType
  <2>4. QED
    BY <2>1, <2>2, <2>3
<1>3. QED
  BY <1>1, <1>2

\* What is at least the unit is at least one of it.
LEMMA WholeUnit ==
  ASSUME NEW n \in Int, NEW unit \in Nat \ {0}, n >= unit
  PROVE  W!Whole(n, unit) > 0
<1> DEFINE q == n \div unit
<1>1. q \in Int /\ n < unit * (q + 1)
  OBVIOUS
<1> HIDE DEF q
<1>2. q > 0
  <2> SUFFICES ASSUME q + 1 <= 1 PROVE FALSE
    BY <1>1
  <2>1. unit * (q + 1) <= unit
    BY <1>1
  <2>2. QED
    BY <1>1, <2>1
<1>3. W!Whole(n, unit) = q
  BY DEF W!Whole, q
<1>4. QED
  BY <1>2, <1>3

\* A timeout of a microsecond or more is not truncated to none
\* (windows_serial_set_timeout).
LEMMA TimeoutWaits ==
  ASSUME NEW ns \in Int, ns >= Micro PROVE W!Timeout(ns) > 0
<1>1. Micro \in Nat \ {0} /\ Milli \in Nat \ {0} /\ DWord \in Nat \ {0}
  BY WidthsAssumption
<1>2. W!Millis(ns) \in Int
  <2>1. Micro * Milli \in Nat \ {0}
    BY <1>1
  <2>2. QED
    BY <2>1 DEF W!Millis, W!Whole
<1>3. W!Millis(ns) % DWord \in Nat
  BY <1>1, <1>2
<1>4. W!Micros(ns) > 0
  BY <1>1, WholeUnit DEF W!Micros
<1>5. QED
  BY <1>3, <1>4 DEF W!Timeout

-----------------------------------------------------------------------------
(* What closing and opening do to the table of handles *)

\* A serial that closes what it has open, or fails to, leaves the table sound ...
LEMMA ClosedSound ==
  ASSUME NEW o, NEW g, NEW l, HandlesSound(o, g, l), NEW s \in Serials,
         g[s] # NULL, NEW c \in W!CloseResults(o, g[s])
  PROVE  /\ HandlesSound(c.open, [g EXCEPT ![s] = c.handle], l)
         /\ c.handle \in Handles \cup {Invalid}
         /\ c.ret = W!Done => c.handle = Invalid
<1>1. g[s] \in Handles \cup {Invalid} /\ g \in HandleType /\ o \in OpenType
  BY DEF HandlesSound, HandleType
<1> DEFINE Goal == HandlesSound(c.open, [g EXCEPT ![s] = c.handle], l)
<1>2. ASSUME c.open = o, c.handle = g[s] PROVE Goal
  <2>1. [g EXCEPT ![s] = c.handle] = g
    BY <1>1, <1>2 DEF HandleType
  <2>2. QED
    BY <1>2, <2>1
<1>3. ASSUME g[s] \in Handles, c.handle = Invalid,
             c.open = [o EXCEPT ![g[s]] = NULL]
      PROVE  Goal
  <2> DEFINE G == [g EXCEPT ![s] = Invalid]
             O == [o EXCEPT ![g[s]] = NULL]
  <2>1. O \in OpenType /\ G \in HandleType
    BY <1>1 DEF OpenType, HandleType
  <2>2. HoldsItsOwn(O, G)
    BY <1>1, <1>3, NoHandles DEF HandlesSound, HoldsItsOwn, OpenType, HandleType
  <2>3. NothingForgotten(O, G, l)
    BY <1>1, <1>3, NoHandles
    DEF HandlesSound, NothingForgotten, HoldsItsOwn, OpenType, HandleType
  <2>4. QED
    BY <1>3, <2>1, <2>2, <2>3 DEF HandlesSound
<1>4. \/ c.ret = W!Done /\ c.handle = Invalid /\ g[s] = Invalid /\ c.open = o
      \/ /\ c.ret = W!Done /\ c.handle = Invalid
         /\ g[s] \in Handles /\ c.open = [o EXCEPT ![g[s]] = NULL]
      \/ /\ c.ret = W!Failed /\ c.handle = g[s] /\ g[s] \in Handles /\ c.open = o
  BY <1>1, WindowsCloseEffect, Zenon
<1>5. Goal
  BY <1>2, <1>3, <1>4
<1>6. W!Done # W!Failed
  BY DEF W!Done, W!Failed
<1>7. QED
  BY <1>4, <1>5, <1>6

\* ... and so does one that opens a port while it holds no handle.
LEMMA OpenedSound ==
  ASSUME NEW o, NEW g, NEW l, HandlesSound(o, g, l), NEW s \in Serials,
         g[s] \notin Handles, NEW p \in Ports, NEW r \in W!OpenResults(o, s, p)
  PROVE  /\ HandlesSound(r.open, [g EXCEPT ![s] = r.handle], l)
         /\ r.handle \in Handles \cup {Invalid}
<1>1. g \in HandleType /\ o \in OpenType
  BY DEF HandlesSound
<1>2. CASE r.open = o /\ r.handle = Invalid
  <2> DEFINE G == [g EXCEPT ![s] = Invalid]
  <2>1. G \in HandleType
    BY <1>1 DEF HandleType
  <2>2. HoldsItsOwn(o, G)
    BY <1>1, NoHandles DEF HandlesSound, HoldsItsOwn, HandleType
  <2>3. NothingForgotten(o, G, l)
    BY <1>1, NoHandles DEF HandlesSound, NothingForgotten, HandleType
  <2>4. QED
    BY <1>1, <1>2, <2>1, <2>2, <2>3 DEF HandlesSound
<1>3. CASE /\ r.handle \in Handles /\ o[r.handle] = NULL
           /\ r.open = [o EXCEPT ![r.handle] = [owner |-> s, port |-> p]]
  <2> DEFINE h == r.handle
             G == [g EXCEPT ![s] = h]
             O == [o EXCEPT ![h] = [owner |-> s, port |-> p]]
  <2>1. [owner |-> s, port |-> p] \in Opened /\ NULL \notin Opened
    BY HandlesAssumption DEF Opened
  <2>2. O \in OpenType /\ G \in HandleType
    BY <1>1, <1>3, <2>1 DEF OpenType, HandleType
  <2>3. HoldsItsOwn(O, G)
    BY <1>1, <1>3, <2>1 DEF HandlesSound, HoldsItsOwn, OpenType, HandleType
  <2>4. NothingForgotten(O, G, l)
    BY <1>1, <1>3, <2>1 DEF HandlesSound, NothingForgotten, OpenType, HandleType
  <2>5. QED
    BY <1>3, <2>2, <2>3, <2>4 DEF HandlesSound
<1>4. QED
  BY <1>1, <1>2, <1>3, WindowsOpenEffect

\* A destroyed object gives up a handle by closing it or by losing it.
LEMMA ForgottenSound ==
  ASSUME NEW o, NEW g, NEW l, HandlesSound(o, g, l), NEW s \in Serials, g[s] # NULL
  PROVE  HandlesSound(o, [g EXCEPT ![s] = NULL], l \cup ({g[s]} \ {Invalid}))
<1> DEFINE G == [g EXCEPT ![s] = NULL]
           L == l \cup ({g[s]} \ {Invalid})
<1>1. g \in HandleType /\ o \in OpenType
  BY DEF HandlesSound
<1>2. G \in HandleType
  BY <1>1 DEF HandleType
<1>3. HoldsItsOwn(o, G)
  BY <1>1, NoHandles DEF HandlesSound, HoldsItsOwn, HandleType
<1>4. NothingForgotten(o, G, L)
  BY <1>1, NoHandles DEF HandlesSound, NothingForgotten, HandleType
<1>5. QED
  BY <1>1, <1>2, <1>3, <1>4 DEF HandlesSound

-----------------------------------------------------------------------------
(* Every step of the Windows device preserves WInv *)

\* What the operations on handles leave of the ports.
LEMMA PortsKept ==
  ASSUME PortTable, PortsSound, UNCHANGED port PROVE PortTable' /\ PortsSound'
BY DEF PortTable, PortsSound, IsPort, Waits

\* What the operations on ports leave of the handles.
LEMMA HandlesKept ==
  ASSUME HandlesSound(open, handle, wlost), UNCHANGED <<open, handle, wlost>>
  PROVE  HandlesSound(open, handle, wlost)'
BY DEF HandlesSound, OpenType, HandleType, HoldsItsOwn, NothingForgotten

\* A step that sets the variables to sound values.
LEMMA HandlesBecome ==
  ASSUME NEW o, NEW g, NEW l, HandlesSound(o, g, l),
         open' = o, handle' = g, wlost' = l
  PROVE  HandlesSound(open, handle, wlost)'
BY DEF HandlesSound, OpenType, HandleType, HoldsItsOwn, NothingForgotten

\* see_serial_new keeps the invariant of the Windows devices.
LEMMA WNewSound ==
  ASSUME WInv, NEW s \in Serials, W!New(s) PROVE WInv'
<1> DEFINE G == [handle EXCEPT ![s] = Invalid]
<1>1. handle \in HandleType /\ open \in OpenType /\ handle[s] = NULL
  BY DEF WInv, HandlesSound, W!New, W!Held
<1>2. G \in HandleType
  BY <1>1 DEF HandleType
<1>3. HoldsItsOwn(open, G)
  BY <1>1, NoHandles DEF WInv, HandlesSound, HoldsItsOwn, HandleType
<1>4. NothingForgotten(open, G, wlost)
  BY <1>1, NoHandles DEF WInv, HandlesSound, NothingForgotten, HandleType
<1>5. HandlesSound(open, G, wlost)
  BY <1>1, <1>2, <1>3, <1>4 DEF HandlesSound
<1>6. open' = open /\ handle' = G /\ wlost' = wlost /\ UNCHANGED port
  BY DEF W!New
<1>7. QED
  BY <1>5, <1>6, HandlesBecome, PortsKept DEF WInv

\* So does see_serial_close.
LEMMA WCloseSound ==
  ASSUME WInv, NEW s \in Serials, W!Close(s) PROVE WInv'
<1>1. PICK c \in W!CloseResults(open, handle[s]) : W!EndsWith(s, c, c.handle, c.ret)
  BY DEF W!Close
<1>2. handle[s] # NULL /\ wlost' = wlost
  BY DEF W!Close, W!Held
<1>3. HandlesSound(c.open, [handle EXCEPT ![s] = c.handle], wlost)
  BY <1>2, ClosedSound DEF WInv
<1>4. /\ open' = c.open /\ handle' = [handle EXCEPT ![s] = c.handle]
      /\ UNCHANGED port
  BY <1>1 DEF W!EndsWith
<1>5. QED
  BY <1>2, <1>3, <1>4, HandlesBecome, PortsKept DEF WInv

\* So does see_serial_open, which closes first.
LEMMA WOpenSound ==
  ASSUME WInv, NEW s \in Serials, NEW p \in Ports, W!Open(s, p) PROVE WInv'
<1>1. PICK c \in W!CloseResults(open, handle[s]) :
        \/ c.ret = W!Failed /\ W!EndsWith(s, c, c.handle, W!Failed)
        \/ /\ c.ret = W!Done
           /\ \E r \in W!OpenResults(c.open, s, p) :
                W!EndsWith(s, r, r.handle, r.ret)
  BY DEF W!Open
<1>2. handle[s] # NULL /\ wlost' = wlost /\ handle \in HandleType
  BY DEF W!Open, W!Held, WInv, HandlesSound
<1> DEFINE G == [handle EXCEPT ![s] = c.handle]
<1>3. HandlesSound(c.open, G, wlost)
  BY <1>2, ClosedSound DEF WInv
<1>4. CASE W!EndsWith(s, c, c.handle, W!Failed)
  <2>1. open' = c.open /\ handle' = G /\ UNCHANGED port
    BY <1>4 DEF W!EndsWith
  <2>2. QED
    BY <1>2, <1>3, <2>1, HandlesBecome, PortsKept DEF WInv
<1>5. ASSUME c.ret = W!Done, NEW r \in W!OpenResults(c.open, s, p),
             W!EndsWith(s, r, r.handle, r.ret)
      PROVE  WInv'
  <2>1. c.handle = Invalid
    BY <1>2, <1>5, ClosedSound DEF WInv
  <2>2. G[s] \notin Handles
    BY <1>2, <2>1, NoHandles DEF HandleType
  <2>3. HandlesSound(r.open, [G EXCEPT ![s] = r.handle], wlost)
    BY <1>3, <1>5, <2>2, OpenedSound
  <2>4. [G EXCEPT ![s] = r.handle] = [handle EXCEPT ![s] = r.handle]
    BY <1>2 DEF HandleType
  <2>5. /\ open' = r.open /\ handle' = [handle EXCEPT ![s] = r.handle]
        /\ UNCHANGED port
    BY <1>5 DEF W!EndsWith
  <2>6. QED
    BY <1>2, <2>3, <2>4, <2>5, HandlesBecome, PortsKept DEF WInv
<1>6. QED
  BY <1>1, <1>4, <1>5

\* So does the destruction.
LEMMA WDestroySound ==
  ASSUME WInv, NEW s \in Serials, W!Destroy(s) PROVE WInv'
<1>1. PICK c \in W!CloseResults(open, handle[s]) :
        /\ W!EndsWith(s, c, NULL, wret)
        /\ wlost' = wlost \cup ({c.handle} \ {Invalid})
  BY DEF W!Destroy
<1>2. handle[s] # NULL /\ handle \in HandleType
  BY DEF W!Destroy, W!Held, WInv, HandlesSound
<1> DEFINE G == [handle EXCEPT ![s] = c.handle]
<1>3. HandlesSound(c.open, G, wlost)
  BY <1>2, ClosedSound DEF WInv
<1>4. G[s] = c.handle /\ c.handle # NULL
  <2>1. c.handle \in Handles \cup {Invalid}
    BY <1>2, ClosedSound DEF WInv
  <2>2. QED
    BY <1>2, <2>1, NoHandles DEF HandleType
<1>5. HandlesSound(c.open, [G EXCEPT ![s] = NULL],
                   wlost \cup ({c.handle} \ {Invalid}))
  BY <1>3, <1>4, ForgottenSound
<1>6. [G EXCEPT ![s] = NULL] = [handle EXCEPT ![s] = NULL]
  BY <1>2 DEF HandleType
<1>7. open' = c.open /\ handle' = [handle EXCEPT ![s] = NULL] /\ UNCHANGED port
  BY <1>1 DEF W!EndsWith
<1>8. QED
  BY <1>1, <1>5, <1>6, <1>7, HandlesBecome, PortsKept DEF WInv

\* So does see_serial_new_dev.
LEMMA WNewDevSound ==
  ASSUME WInv, NEW s \in Serials, NEW p \in Ports, W!NewDev(s, p) PROVE WInv'
<1>1. PICK r \in W!OpenResults(open, s, p) :
        \/ /\ r.ret = W!Done /\ W!EndsWith(s, r, r.handle, W!Done)
           /\ UNCHANGED wlost
        \/ /\ r.ret = W!Failed
           /\ \E c \in W!CloseResults(r.open, r.handle) :
                /\ W!EndsWith(s, c, NULL, W!Failed)
                /\ wlost' = wlost \cup ({c.handle} \ {Invalid})
  BY DEF W!NewDev
<1>2. handle[s] = NULL /\ handle \in HandleType
  BY DEF W!NewDev, W!Held, WInv, HandlesSound
<1> DEFINE G == [handle EXCEPT ![s] = r.handle]
<1>3. HandlesSound(r.open, G, wlost) /\ r.handle \in Handles \cup {Invalid}
  BY <1>2, NoHandles, OpenedSound DEF WInv
<1>4. CASE W!EndsWith(s, r, r.handle, W!Done) /\ UNCHANGED wlost
  <2>1. open' = r.open /\ handle' = G /\ UNCHANGED port
    BY <1>4 DEF W!EndsWith
  <2>2. QED
    BY <1>3, <1>4, <2>1, HandlesBecome, PortsKept DEF WInv
<1>5. ASSUME NEW c \in W!CloseResults(r.open, r.handle),
             W!EndsWith(s, c, NULL, W!Failed),
             wlost' = wlost \cup ({c.handle} \ {Invalid})
      PROVE  WInv'
  <2>1. G[s] = r.handle /\ G[s] # NULL
    BY <1>2, <1>3, NoHandles DEF HandleType
  <2> DEFINE C == [G EXCEPT ![s] = c.handle]
  <2>2. c \in W!CloseResults(r.open, G[s])
    BY <1>5, <2>1
  <2>3. /\ HandlesSound(c.open, C, wlost)
        /\ c.handle \in Handles \cup {Invalid}
    <3> HIDE DEF G
    <3>1. QED
      BY <1>3, <2>1, <2>2, ClosedSound
  <2>4. C[s] = c.handle /\ c.handle # NULL
    BY <1>2, <2>3, NoHandles DEF HandleType
  <2>5. HandlesSound(c.open, [C EXCEPT ![s] = NULL],
                     wlost \cup ({c.handle} \ {Invalid}))
    BY <2>3, <2>4, ForgottenSound
  <2>6. [C EXCEPT ![s] = NULL] = [handle EXCEPT ![s] = NULL]
    BY <1>2 DEF HandleType
  <2>7. open' = c.open /\ handle' = [handle EXCEPT ![s] = NULL] /\ UNCHANGED port
    BY <1>5 DEF W!EndsWith
  <2>8. QED
    BY <1>5, <2>5, <2>6, <2>7, HandlesBecome, PortsKept DEF WInv
<1>6. QED
  BY <1>1, <1>4, <1>5

\* A step that changes one port only.
LEMMA PortSound ==
  ASSUME WInv, NEW p \in Ports, NEW q, IsPort(q), Waits(q),
         port' = [port EXCEPT ![p] = q], UNCHANGED <<open, handle, wlost>>
  PROVE  WInv'
<1>1. PortTable'
  BY DEF WInv, PortTable
<1>2. PortsSound'
  BY DEF WInv, PortTable, PortsSound, IsPort, Waits
<1>3. QED
  BY <1>1, <1>2, HandlesKept DEF WInv

\* The fields of a port that has changed in one of them.
LEMMA PortFields ==
  ASSUME NEW q, IsPort(q), NEW n
  PROVE  /\ IsPort([q EXCEPT !.in = n]) /\ IsPort([q EXCEPT !.out = n])
         /\ IsPort([q EXCEPT !.baud = n]) /\ IsPort([q EXCEPT !.timeout = n])
         /\ IsPort([q EXCEPT !.asked = n])
         /\ Waits(q) => /\ Waits([q EXCEPT !.in = n]) /\ Waits([q EXCEPT !.out = n])
                        /\ Waits([q EXCEPT !.baud = n])
         /\ [q EXCEPT !.timeout = n].timeout = n
<1> DEFINE baud == q.baud
           timeout == q.timeout
           asked == q.asked
           in == q.in
           out == q.out
<1>1. q = [baud |-> baud, timeout |-> timeout, asked |-> asked,
           in |-> in, out |-> out]
  BY DEF IsPort
<1>2. QED
  BY <1>1 DEF IsPort, Waits

\* The calls on what is open, and what arrives and leaves.
LEMMA WPortsSound ==
  ASSUME WInv, NEW s \in Serials,
         \/ \E n \in Lengths : W!Read(s, n) \/ W!Write(s, n)
         \/ \E dir \in {{"in"}, {"out"}, {"in", "out"}} : W!Flush(s, dir)
         \/ \E v : W!SetSpeed(s, v)
         \/ \E ns \in WindowsDurations : W!SetTimeout(s, ns)
         \/ W!Drain(s) \/ W!GetSpeed(s) \/ W!GetTimeout(s) \/ W!MinRdChars(s)
  PROVE  WInv'
<1>1. CASE UNCHANGED <<open, handle, port, wlost>>
  BY <1>1, HandlesKept, PortsKept DEF WInv
<1>2. ASSUME NEW p \in Ports, NEW n, NEW code,
             \/ W!Does(p, port[p], code)
             \/ W!Does(p, [port[p] EXCEPT !.in = n], code)
             \/ W!Does(p, [port[p] EXCEPT !.out = n], code)
             \/ W!Does(p, [port[p] EXCEPT !.baud = n], code)
      PROVE  WInv'
  <2>1. IsPort(port[p]) /\ Waits(port[p])
    BY DEF WInv, PortsSound
  <2>2. QED
    BY <1>2, <2>1, PortFields, PortSound DEF W!Does
<1>3. ASSUME NEW n \in Lengths, W!Read(s, n) \/ W!Write(s, n) PROVE WInv'
  BY <1>1, <1>2, <1>3 DEF W!Read, W!Write, W!Fail, W!PortOf
<1>4. ASSUME NEW dir, W!Flush(s, dir) PROVE WInv'
  <2>1. CASE W!Fail(s)
    BY <1>1, <2>1 DEF W!Fail
  <2>2. ASSUME NEW p \in Ports, NEW i, NEW o,
               W!Does(p, [[port[p] EXCEPT !.in = i] EXCEPT !.out = o], W!Done)
        PROVE  WInv'
    <3> DEFINE q == [port[p] EXCEPT !.in = i]
    <3>1. IsPort(port[p]) /\ Waits(port[p])
      BY DEF WInv, PortsSound
    <3>2. IsPort(q) /\ Waits(q)
      BY <3>1, PortFields
    <3>3. IsPort([q EXCEPT !.out = o]) /\ Waits([q EXCEPT !.out = o])
      BY <3>2, PortFields
    <3>4. QED
      BY <2>2, <3>3, PortSound DEF W!Does
  <2>3. QED
    BY <1>4, <2>1, <2>2 DEF W!Flush, W!PortOf
<1>5. ASSUME NEW v, W!SetSpeed(s, v) PROVE WInv'
  BY <1>1, <1>2, <1>5 DEF W!SetSpeed, W!Fail, W!PortOf
<1>6. ASSUME NEW ns \in WindowsDurations, W!SetTimeout(s, ns) PROVE WInv'
  <2>1. CASE W!Fail(s)
    BY <1>1, <2>1 DEF W!Fail
  <2>2. ASSUME NEW p \in Ports,
               W!Does(p, [[port[p] EXCEPT !.timeout = W!Timeout(ns)]
                            EXCEPT !.asked = ns], W!Done)
        PROVE  WInv'
    <3> DEFINE q == [port[p] EXCEPT !.timeout = W!Timeout(ns)]
               r == [q EXCEPT !.asked = ns]
    <3>1. IsPort(port[p])
      BY DEF WInv, PortsSound
    <3>2. IsPort(q) /\ q.timeout = W!Timeout(ns)
      BY <3>1, PortFields
    <3>3. IsPort(r)
      BY <3>2, PortFields
    <3>4. r.asked = ns /\ r.timeout = W!Timeout(ns)
      BY <3>2 DEF IsPort
    <3>5. Waits(r)
      BY <3>4, TimeoutWaits, WidthsAssumption DEF Waits
    <3>6. QED
      BY <2>2, <3>3, <3>5, PortSound DEF W!Does
  <2>3. QED
    BY <1>6, <2>1, <2>2 DEF W!SetTimeout, W!PortOf
<1>7. CASE W!Drain(s) \/ W!GetSpeed(s) \/ W!GetTimeout(s)
  BY <1>1, <1>2, <1>7 DEF W!Drain, W!GetSpeed, W!GetTimeout, W!Fail, W!PortOf
<1>8. CASE W!MinRdChars(s)
  BY <1>1, <1>8 DEF W!MinRdChars
<1>9. QED
  BY <1>3, <1>4, <1>5, <1>6, <1>7, <1>8

\* External: bytes arrive and leave, and the program opens and closes handles.
LEMMA WOthersSound ==
  ASSUME WInv,
         \/ \E p \in Ports : W!Arrives(p) \/ W!Sends(p)
         \/ W!ProgramOpens \/ W!ProgramCloses
  PROVE  WInv'
<1>1. ASSUME NEW p \in Ports, W!Arrives(p) \/ W!Sends(p) PROVE WInv'
  <2>1. IsPort(port[p]) /\ Waits(port[p])
    BY DEF WInv, PortsSound
  <2>2. PICK n \in {port[p].in + 1, port[p].out - 1} :
          \/ port' = [port EXCEPT ![p] = [port[p] EXCEPT !.in = n]]
          \/ port' = [port EXCEPT ![p] = [port[p] EXCEPT !.out = n]]
    BY <1>1 DEF W!Arrives, W!Sends
  <2>3. UNCHANGED <<open, handle, wlost>>
    BY <1>1 DEF W!Arrives, W!Sends
  <2>4. /\ IsPort([port[p] EXCEPT !.in = n]) /\ IsPort([port[p] EXCEPT !.out = n])
        /\ Waits([port[p] EXCEPT !.in = n]) /\ Waits([port[p] EXCEPT !.out = n])
    BY <2>1, PortFields
  <2>5. QED
    BY <2>2, <2>3, <2>4, PortSound
<1>2. ASSUME NEW h \in Handles, open[h] = NULL,
             open' = [open EXCEPT ![h] = [owner |-> Program, port |-> NULL]],
             UNCHANGED <<handle, port, wlost>>
      PROVE  WInv'
  <2> DEFINE r == [owner |-> Program, port |-> NULL]
             O == [open EXCEPT ![h] = r]
  <2>1. r \in Opened /\ NULL \notin Opened /\ Program \notin Serials
    BY HandlesAssumption, NamesAssumption DEF Opened
  <2>2. open \in OpenType /\ handle \in HandleType
    BY DEF WInv, HandlesSound
  <2>3. O \in OpenType
    BY <2>1, <2>2 DEF OpenType
  <2>4. HoldsItsOwn(O, handle)
    BY <1>2, <2>1, <2>2 DEF WInv, HandlesSound, HoldsItsOwn, OpenType, HandleType
  <2>5. NothingForgotten(O, handle, wlost)
    BY <1>2, <2>1, <2>2 DEF WInv, HandlesSound, NothingForgotten, OpenType
  <2>6. HandlesSound(O, handle, wlost)
    BY <2>2, <2>3, <2>4, <2>5 DEF HandlesSound
  <2>7. QED
    BY <1>2, <2>6, HandlesBecome, PortsKept DEF WInv
<1>3. ASSUME NEW h \in Handles, open[h] # NULL, open[h].owner = Program,
             open' = [open EXCEPT ![h] = NULL],
             UNCHANGED <<handle, port, wlost>>
      PROVE  WInv'
  <2> DEFINE O == [open EXCEPT ![h] = NULL]
  <2>1. Program \notin Serials
    BY NamesAssumption
  <2>2. open \in OpenType /\ handle \in HandleType
    BY DEF WInv, HandlesSound
  <2>3. O \in OpenType
    BY <2>2 DEF OpenType
  <2>4. HoldsItsOwn(O, handle)
    BY <1>3, <2>1, <2>2 DEF WInv, HandlesSound, HoldsItsOwn, OpenType, HandleType
  <2>5. NothingForgotten(O, handle, wlost)
    BY <1>3, <2>1, <2>2 DEF WInv, HandlesSound, NothingForgotten, OpenType
  <2>6. HandlesSound(O, handle, wlost)
    BY <2>2, <2>3, <2>4, <2>5 DEF HandlesSound
  <2>7. QED
    BY <1>3, <2>6, HandlesBecome, PortsKept DEF WInv
<1>4. CASE W!ProgramOpens
  BY <1>2, <1>4 DEF W!ProgramOpens
<1>5. CASE W!ProgramCloses
  BY <1>3, <1>5 DEF W!ProgramCloses
<1>6. QED
  BY <1>1, <1>4, <1>5

\* Every step of the Windows device preserves the invariant.
LEMMA WNextSound == ASSUME WInv, W!Next PROVE WInv'
<1>1. ASSUME NEW s \in Serials, W!SerialNext(s) PROVE WInv'
  <2>1. CASE W!New(s)
    BY <2>1, WNewSound
  <2>2. CASE W!Close(s)
    BY <2>2, WCloseSound
  <2>3. CASE W!Destroy(s)
    BY <2>3, WDestroySound
  <2>4. ASSUME NEW p \in Ports, W!NewDev(s, p) \/ W!Open(s, p) PROVE WInv'
    BY <2>4, WNewDevSound, WOpenSound
  <2>5. CASE \/ \E n \in Lengths : W!Read(s, n) \/ W!Write(s, n)
             \/ \E dir \in {{"in"}, {"out"}, {"in", "out"}} : W!Flush(s, dir)
             \/ \E v : W!SetSpeed(s, v)
             \/ \E ns \in WindowsDurations : W!SetTimeout(s, ns)
             \/ W!Drain(s) \/ W!GetSpeed(s) \/ W!GetTimeout(s) \/ W!MinRdChars(s)
    BY <2>5, WPortsSound
  <2>6. QED
    BY <1>1, <2>1, <2>2, <2>3, <2>4, <2>5, Zenon DEF W!SerialNext
<1>2. QED
  BY <1>1, WOthersSound DEF W!Next

\* Nothing is open at first.
LEMMA WInitSound == W!Init => WInv
<1> SUFFICES ASSUME W!Init PROVE WInv
  OBVIOUS
<1>1. HandlesSound(open, handle, wlost)
  BY NoHandles
  DEF W!Init, HandlesSound, OpenType, HandleType, HoldsItsOwn, NothingForgotten
<1>2. /\ port = [p \in Ports |-> port[p]]
      /\ \A p \in Ports : port[p] \in [baud : {Foreign}, timeout : {0}, asked : {0},
                                       in : {0}, out : {0}]
  BY DEF W!Init
<1>3. PortTable /\ PortsSound
  BY <1>2, WidthsAssumption DEF PortTable, PortsSound, IsPort, Waits
<1>4. QED
  BY <1>1, <1>3 DEF WInv

-----------------------------------------------------------------------------
(* Theorems: the devices of either build *)

\* A step of the devices is one of its build, and the other build stays as it is.
LEMMA DevicesStep ==
  ASSUME [DevicesNext]_<<vars, wvars, build>>
  PROVE  /\ W!Next \/ UNCHANGED wvars
         /\ [Next]_vars
BY DEF DevicesNext

\* So does a step of something else.
LEMMA WStutter == ASSUME WInv, UNCHANGED wvars PROVE WInv'
BY HandlesKept, PortsKept DEF WInv, wvars

\* The Windows device keeps its invariant.
LEMMA WindowsSound == DevicesSpec => []WInv
<1>1. DevicesInit => WInv
  BY WInitSound DEF DevicesInit
<1>2. WInv /\ [DevicesNext]_<<vars, wvars, build>> => WInv'
  BY DevicesStep, WNextSound, WStutter
<1>3. QED
  BY <1>1, <1>2, PTL DEF DevicesSpec

\* Whichever system call fails, the handle of an open serial is its own, and one
\* that a serial has opened is in its hands or lost with a destroyed object
\* (WindowsSerial.c: windows_serial_open, windows_serial_close).
THEOREM HandlesAlwaysOwned == DevicesSpec => []HandlesAreOwned
<1>1. WInv => HandlesAreOwned
  BY DEF WInv, HandlesSound, HoldsItsOwn, NothingForgotten,
         HandlesAreOwned, W!HandlesAreOwned
<1>2. QED
  BY <1>1, WindowsSound, PTL

\* windows_serial_set_timeout never turns a timeout of a microsecond or more into one
\* that does not wait, whatever the widths of the integers are.
THEOREM PositiveTimeoutsWait == DevicesSpec => []PositiveTimeoutWaits
<1>1. WInv => PositiveTimeoutWaits
  BY DEF WInv, PortsSound, Waits, PositiveTimeoutWaits, W!PositiveTimeoutWaits
<1>2. QED
  BY <1>1, WindowsSound, PTL

\* The POSIX device of a build behaves as PosixSerial does.
LEMMA PosixPart == DevicesSpec => Spec
<1>1. DevicesInit => Init
  BY DEF DevicesInit
<1>2. [DevicesNext]_<<vars, wvars, build>> => [Next]_vars
  BY DevicesStep
<1>3. QED
  BY <1>1, <1>2, PTL DEF DevicesSpec, Spec

\* So that what holds of it holds of the devices: a serial that says it is open has
\* the descriptor that it opened ...
THEOREM DevicesOpenMeansOwn ==
  ASSUME TerminalsOnly, CloseWorks PROVE DevicesSpec => []OwnDescriptor
BY PosixPart, OpenMeansOwn, PTL

\* ... no descriptor gets lost but with a destroyed object ...
THEOREM DevicesLoseNone ==
  ASSUME TerminalsOnly, CloseWorks PROVE DevicesSpec => []NoneLost
BY PosixPart, NoDescriptorLost, PTL

\* ... and no call closes a descriptor of somebody else.
THEOREM DevicesCloseTheirOwn ==
  ASSUME TerminalsOnly, CloseWorks PROVE DevicesSpec => ClosesOnlyItsOwn
BY PosixPart, NobodyElseIsClosed, PTL
=============================================================================
