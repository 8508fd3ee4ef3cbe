------------------------------- MODULE TimeProofs -------------------------------
(***************************************************************************)
(* Proofs about SeeDuration, SeeTimePoint and SeeClock, for any number of  *)
(* variables and instances, any width of the integers and any arguments.   *)
(*                                                                         *)
(* Every operation does one of a few things to the instances: it leaves    *)
(* them alone, writes a value into one, puts a new one in the place of     *)
(* what a variable designates, or adds or drops a reference.  A lemma for  *)
(* each operation says which, and the properties are proved for these few. *)
(***************************************************************************)
EXTENDS Time, TLAPS, FiniteSetTheorems

Instance == [value : Int, count : Nat]

Typed ==
  /\ ptr \in [Vars -> Mem \cup {Nothing}]
  /\ \A v \in Vars : ptr[v] # Nothing => ptr[v] \in AddressesFor(v)
  /\ mem \in [Mem -> Instance \cup {Nothing}]
  /\ base \in TimeMem \cup {Nothing}
  /\ now \in 0 .. MaxNow
  /\ use \in Uses

\* No variable of the client designates the clock's base time.
BaseAlone == base # Nothing => \A v \in Vars : ptr[v] # base

IInv == Typed /\ CountsExact /\ BaseAlone

\* How many variables designate o.
Points(o) == Cardinality({v \in Vars : ptr[v] = o})

-----------------------------------------------------------------------------
(* Addresses and counts *)

\* Addresses are numbers, and Nothing is none of them.
LEMMA Addresses ==
  /\ Nothing \notin Mem /\ Nothing \notin Instance /\ Nothing \notin Int
  /\ DurationMem \subseteq Mem /\ TimeMem \subseteq Mem /\ Mem \subseteq Nat
  /\ \A v \in Vars : AddressesFor(v) \subseteq Mem
<1>1. Nothing \notin Int /\ Nothing \notin Instance
  BY VarsAssumption DEF Instance
<1>2. DurationMem \subseteq Mem /\ TimeMem \subseteq Mem /\ Mem \subseteq Nat
  BY VarsAssumption DEF Mem
<1>3. \A v \in Vars : AddressesFor(v) \subseteq Mem
  BY <1>2 DEF AddressesFor
<1>4. Nothing \notin Mem
  <2>1. \A o \in Mem : o \in Int
    BY <1>2
  <2>2. QED
    BY <1>1, <2>1
<1>5. QED
  BY <1>1, <1>2, <1>3, <1>4

\* The variables that designate an instance can be counted.
LEMMA PointsFinite ==
  ASSUME NEW o
  PROVE  /\ IsFiniteSet({v \in Vars : ptr[v] = o}) /\ Points(o) \in Nat
         /\ Points(o) = 0 <=> \A v \in Vars : ptr[v] # o
<1> DEFINE S == {v \in Vars : ptr[v] = o}
<1>1. IsFiniteSet(S)
  BY VarsAssumption, FS_Subset
<1>2. Cardinality(S) \in Nat /\ (Cardinality(S) = 0 <=> S = {})
  BY <1>1, FS_CardinalityType, FS_EmptySet
<1>3. QED
  BY <1>1, <1>2 DEF Points

\* A variable that changes takes its reference with it.
LEMMA PointsChange ==
  ASSUME Typed, NEW r \in Vars, NEW p, ptr' = [ptr EXCEPT ![r] = p], NEW o
  PROVE  Points(o)' = Points(o) - (IF ptr[r] = o THEN 1 ELSE 0)
                                + (IF p = o THEN 1 ELSE 0)
<1> DEFINE S == {v \in Vars : ptr[v] = o}
           T == S \ {r}
<1>1. {v \in Vars : ptr[v] = o}' = IF p = o THEN T \cup {r} ELSE T
  BY DEF Typed
<1>2. IsFiniteSet(S) /\ Cardinality(S) \in Nat
  BY PointsFinite, FS_CardinalityType
<1>3. r \in S <=> ptr[r] = o
  OBVIOUS
<1>4. r \notin T
  OBVIOUS
<1> HIDE DEF S
<1>5. /\ IsFiniteSet(T)
      /\ Cardinality(T) = IF r \in S THEN Cardinality(S) - 1 ELSE Cardinality(S)
  BY <1>2, FS_RemoveElement
<1> HIDE DEF T
<1>6. Cardinality(T \cup {r}) = Cardinality(T) + 1
  BY <1>4, <1>5, FS_AddElement
<1>7. Points(o)' = IF p = o THEN Cardinality(T) + 1 ELSE Cardinality(T)
  BY <1>1, <1>6 DEF Points
<1>8. Points(o) = Cardinality(S)
  BY DEF Points, S
<1>9. QED
  BY <1>2, <1>3, <1>5, <1>7, <1>8

\* What the count of an instance must be.
LEMMA CountIsExact ==
  ASSUME IInv, NEW o \in Mem
  PROVE  /\ References(o) = Points(o) + (IF base = o THEN 1 ELSE 0)
         /\ mem[o] \in Instance \cup {Nothing}
         /\ mem[o] = Nothing <=> (base # o /\ \A v \in Vars : ptr[v] # o)
         /\ mem[o] # Nothing => /\ mem[o].count = References(o)
                             /\ mem[o].count \in Nat /\ mem[o].count > 0
                             /\ mem[o].value \in Int
<1>1. References(o) = Points(o) + (IF base = o THEN 1 ELSE 0)
  BY DEF References, Points
<1>2. Points(o) \in Nat /\ (Points(o) = 0 <=> \A v \in Vars : ptr[v] # o)
  BY PointsFinite
<1>3. References(o) = 0 <=> (base # o /\ \A v \in Vars : ptr[v] # o)
  BY <1>1, <1>2
<1>4. IF References(o) = 0 THEN mem[o] = Nothing
      ELSE mem[o] # Nothing /\ mem[o].count = References(o)
  BY DEF IInv, CountsExact
<1>5. mem[o] \in Instance \cup {Nothing}
  BY DEF IInv, Typed
<1>6. mem[o] # Nothing => mem[o].count \in Nat /\ mem[o].value \in Int
  BY <1>5 DEF Instance
<1>7. QED
  BY <1>1, <1>3, <1>4, <1>5, <1>6

\* What a variable designates is an instance with a value.
LEMMA Designated ==
  ASSUME IInv, NEW v \in Vars, ptr[v] # Nothing
  PROVE  /\ ptr[v] \in Mem /\ ptr[v] \in AddressesFor(v) /\ ptr[v] # base
         /\ mem[ptr[v]] # Nothing /\ mem[ptr[v]] \in Instance
         /\ mem[ptr[v]].value \in Int
<1>1. ptr[v] \in Mem /\ ptr[v] \in AddressesFor(v) /\ ptr[v] # base
  BY DEF IInv, Typed, BaseAlone
<1>2. QED
  BY <1>1, CountIsExact DEF IInv, Typed

\* Its count is that of the variables.
LEMMA DesignatedCount ==
  ASSUME IInv, NEW v \in Vars, ptr[v] # Nothing
  PROVE  /\ ptr[v] \in Mem /\ ptr[v] # base /\ mem[ptr[v]] # Nothing
         /\ mem[ptr[v]].count \in Nat /\ mem[ptr[v]].count > 0
         /\ mem[ptr[v]].count = Points(ptr[v])
<1> DEFINE o == ptr[v]
<1>1. o \in Mem /\ o # base /\ mem[o] # Nothing
  BY Designated
<1> HIDE DEF o
<1>2. /\ References(o) = Points(o) + (IF base = o THEN 1 ELSE 0)
      /\ mem[o].count = References(o) /\ mem[o].count \in Nat /\ mem[o].count > 0
  BY <1>1, CountIsExact
<1>3. Points(o) \in Nat
  BY PointsFinite
<1>4. QED
  BY <1>1, <1>2, <1>3 DEF o

\* The base time is an instance that the clock alone designates.
LEMMA BaseDesignated ==
  ASSUME IInv, base # Nothing
  PROVE  /\ base \in Mem /\ mem[base] # Nothing /\ mem[base] \in Instance
         /\ mem[base].value \in Int /\ mem[base].count = 1
<1>1. base \in Mem
  BY Addresses DEF IInv, Typed
<1>2. Points(base) = 0
  BY PointsFinite DEF IInv, BaseAlone
<1>3. QED
  BY <1>1, <1>2, CountIsExact DEF IInv, Typed

\* A reference is lost, and the instance with the last one.
LEMMA WithoutIs ==
  ASSUME NEW m \in [Mem -> Instance \cup {Nothing}], NEW old \in Mem, m[old] # Nothing,
         m[old].count > 0
  PROVE  /\ Without(m, old) \in [Mem -> Instance \cup {Nothing}]
         /\ \A q \in Mem : q # old => Without(m, old)[q] = m[q]
         /\ m[old].count = 1 => Without(m, old)[old] = Nothing
         /\ m[old].count # 1 =>
              /\ Without(m, old)[old] # Nothing
              /\ Without(m, old)[old].count = m[old].count - 1
              /\ Without(m, old)[old].value = m[old].value
<1>1. old # Nothing
  BY Addresses
<1>2. /\ m[old] \in Instance /\ m[old].count \in Nat /\ m[old].value \in Int
  BY DEF Instance
<1> DEFINE new == IF m[old].count = 1 THEN Nothing
                  ELSE [value |-> m[old].value, count |-> m[old].count - 1]
<1>3. Without(m, old) = [m EXCEPT ![old] = new]
  BY <1>1 DEF Without
<1>4. /\ new \in Instance \cup {Nothing}
      /\ m[old].count # 1 => /\ new \in Instance
                             /\ new.count = m[old].count - 1
                             /\ new.value = m[old].value
  BY <1>2 DEF Instance
<1>5. m[old].count # 1 => new # Nothing
  BY <1>4, Addresses
<1>6. m[old].count = 1 => new = Nothing
  OBVIOUS
<1> HIDE DEF new
<1>7. QED
  BY <1>3, <1>4, <1>5, <1>6

\* A new instance has its value and one reference.
LEMMA WithIs ==
  ASSUME NEW m \in [Mem -> Instance \cup {Nothing}], NEW o \in Mem, NEW x \in Int
  PROVE  /\ With(m, o, x) \in [Mem -> Instance \cup {Nothing}]
         /\ \A q \in Mem : q # o => With(m, o, x)[q] = m[q]
         /\ With(m, o, x)[o] # Nothing
         /\ With(m, o, x)[o].count = 1 /\ With(m, o, x)[o].value = x
<1>1. [value |-> x, count |-> 1] \in Instance
  BY DEF Instance
<1>2. [value |-> x, count |-> 1] # Nothing
  BY <1>1, Addresses
<1>3. QED
  BY <1>1, <1>2 DEF With

-----------------------------------------------------------------------------
(* What the operations do to the instances *)

Keeps == UNCHANGED <<ptr, mem, base>>

\* The instance at o gets the value x.
Writes(o, x) ==
  /\ o \in Mem /\ mem[o] # Nothing /\ x \in Int
  /\ mem' = [mem EXCEPT ![o].value = x]
  /\ UNCHANGED <<ptr, base>>

\* A new instance at o, with the value x, for variable r.
Places(r, o, x) ==
  /\ r \in Vars /\ o \in AddressesFor(r) /\ mem[o] = Nothing /\ x \in Int
  /\ mem' = Without(With(mem, o, x), ptr[r]) /\ ptr' = [ptr EXCEPT ![r] = o]
  /\ UNCHANGED base

\* Variable v gives up its reference.
Drops(v) ==
  /\ v \in Vars /\ ptr[v] # Nothing
  /\ mem' = Without(mem, ptr[v]) /\ ptr' = [ptr EXCEPT ![v] = Nothing]
  /\ UNCHANGED base

\* Variable w designates what v does, too.
Shares(v, w) ==
  /\ v \in Vars /\ w \in Vars /\ ptr[v] # Nothing /\ ptr[w] = Nothing
  /\ AddressesFor(v) = AddressesFor(w)
  /\ ptr' = [ptr EXCEPT ![w] = ptr[v]]
  /\ mem' = [mem EXCEPT ![ptr[v]].count = @ + 1]
  /\ UNCHANGED base

\* The clock comes and goes.
StartsClock(o) ==
  /\ base = Nothing /\ o \in TimeMem /\ mem[o] = Nothing
  /\ mem' = With(mem, o, 0) /\ base' = o
  /\ UNCHANGED ptr
StopsClock ==
  /\ base # Nothing
  /\ mem' = Without(mem, base) /\ base' = Nothing
  /\ UNCHANGED ptr

\* What the rest of the state does in all of these.
Elsewhere == now' \in 0 .. MaxNow /\ use' \in Uses

\* The count of one instance, after the step.
Right(q) ==
  LET n == Points(q)' + (IF base' = q THEN 1 ELSE 0)
  IN  IF n = 0 THEN mem'[q] = Nothing ELSE mem'[q] # Nothing /\ mem'[q].count = n

\* The counts are right when each of them is.
LEMMA AllRight ==
  ASSUME Typed', BaseAlone', \A q \in Mem : Right(q) PROVE IInv'
<1>1. \A q \in Mem : References(q)' = Points(q)' + (IF base' = q THEN 1 ELSE 0)
  BY DEF References, Points
<1>2. QED
  BY <1>1 DEF IInv, CountsExact, Right

\* Each of the changes keeps the invariant: nothing happens,
LEMMA KeepsInv == ASSUME IInv, Keeps, Elsewhere PROVE IInv'
<1>1. Typed' /\ BaseAlone'
  BY DEF IInv, Typed, BaseAlone, Keeps, Elsewhere
<1>2. \A q \in Mem : Points(q)' = Points(q)
  BY DEF Keeps, Points
<1>3. \A q \in Mem : Right(q)
  BY <1>2 DEF IInv, CountsExact, References, Points, Keeps, Right
<1>4. QED
  BY <1>1, <1>3, AllRight

\* a value is written,
LEMMA WritesInv == ASSUME IInv, Elsewhere, NEW o, NEW x, Writes(o, x) PROVE IInv'
<1>1. o \in Mem /\ mem[o] \in Instance /\ mem[o].count \in Nat
  BY CountIsExact DEF Writes, Instance
<1> DEFINE new == [mem[o] EXCEPT !.value = x]
<1>2. /\ new \in Instance /\ new.count = mem[o].count /\ new # Nothing
  <2>1. new \in Instance /\ new.count = mem[o].count
    BY <1>1 DEF Writes, Instance
  <2>2. QED
    BY <2>1, Addresses
<1>3. mem' = [mem EXCEPT ![o] = new]
  BY DEF Writes
<1> HIDE DEF new
<1>4. /\ mem' \in [Mem -> Instance \cup {Nothing}]
      /\ \A q \in Mem : /\ mem'[q] = Nothing <=> mem[q] = Nothing
                        /\ mem'[q].count = mem[q].count
  BY <1>1, <1>2, <1>3 DEF IInv, Typed, Writes
<1>5. Typed' /\ BaseAlone'
  BY <1>4 DEF IInv, Typed, BaseAlone, Writes, Elsewhere
<1>6. \A q \in Mem : Points(q)' = Points(q)
  BY DEF Writes, Points
<1>7. \A q \in Mem : Right(q)
  BY <1>4, <1>6 DEF IInv, CountsExact, References, Points, Writes, Right
<1>8. QED
  BY <1>5, <1>7, AllRight

\* a new instance takes the place of another,
LEMMA PlacesInv ==
  ASSUME IInv, Elsewhere, NEW r, NEW o, NEW x, Places(r, o, x) PROVE IInv'
<1> DEFINE m == With(mem, o, x)
           old == ptr[r]
<1>1. /\ r \in Vars /\ o \in Mem /\ o \in AddressesFor(r) /\ mem[o] = Nothing
      /\ o # Nothing /\ x \in Int /\ mem \in [Mem -> Instance \cup {Nothing}]
  BY Addresses DEF Places, IInv, Typed
<1>2. base # o /\ \A v \in Vars : ptr[v] # o
  BY <1>1, CountIsExact
<1>3. /\ m \in [Mem -> Instance \cup {Nothing}]
      /\ \A q \in Mem : q # o => m[q] = mem[q]
      /\ m[o] # Nothing /\ m[o].count = 1
  BY <1>1, WithIs
<1>4. old # Nothing => /\ old \in Mem /\ old # base /\ old # o
                    /\ mem[old] # Nothing /\ mem[old].count \in Nat /\ mem[old].count > 0
                    /\ mem[old].count = Points(old)
  BY <1>1, <1>2, DesignatedCount
<1>5. /\ mem' \in [Mem -> Instance \cup {Nothing}]
      /\ mem'[o] # Nothing /\ mem'[o].count = 1
      /\ \A q \in Mem : q # o /\ q # old => mem'[q] = mem[q]
      /\ old # Nothing => IF mem[old].count = 1 THEN mem'[old] = Nothing
                       ELSE mem'[old] # Nothing /\ mem'[old].count = mem[old].count - 1
  <2>1. CASE old = Nothing
    <3>1. mem' = m
      BY <2>1 DEF Places, Without
    <3> HIDE DEF m
    <3>2. QED
      BY <1>1, <1>3, <2>1, <3>1
  <2>2. CASE old # Nothing
    <3>1. mem' = Without(m, old)
      BY DEF Places
    <3>2. m[old] = mem[old] /\ m[old] # Nothing /\ m[old].count > 0
      BY <1>3, <1>4, <2>2
    <3> HIDE DEF m
    <3>3. /\ mem' \in [Mem -> Instance \cup {Nothing}]
          /\ \A q \in Mem : q # old => mem'[q] = m[q]
          /\ m[old].count = 1 => mem'[old] = Nothing
          /\ m[old].count # 1 => /\ mem'[old] # Nothing
                                 /\ mem'[old].count = m[old].count - 1
      BY <1>3, <1>4, <2>2, <3>1, <3>2, WithoutIs
    <3>4. QED
      BY <1>1, <1>3, <1>4, <2>2, <3>2, <3>3
  <2>3. QED
    BY <2>1, <2>2
<1>6. /\ ptr' \in [Vars -> Mem \cup {Nothing}]
      /\ \A v \in Vars : ptr'[v] = IF v = r THEN o ELSE ptr[v]
  BY <1>1 DEF Places, IInv, Typed
<1>7. Typed' /\ BaseAlone'
  BY <1>1, <1>2, <1>5, <1>6 DEF IInv, Typed, BaseAlone, Places, Elsewhere, AddressesFor
<1> HIDE DEF old
<1>8. ASSUME NEW q \in Mem PROVE Right(q)
  <2>1. /\ Points(q)' = Points(q) - (IF old = q THEN 1 ELSE 0) + (IF o = q THEN 1 ELSE 0)
        /\ Points(q) \in Nat
    BY <1>1, PointsChange, PointsFinite DEF Places, IInv, old
  <2>2. base' = base
    BY DEF Places
  <2>3. CASE q = o
    <3>1. Points(q) = 0 /\ base # q /\ old # q
      BY <1>1, <1>2, <2>3, PointsFinite DEF old
    <3>2. QED
      BY <1>5, <2>1, <2>2, <2>3, <3>1 DEF Right
  <2>4. CASE q # o /\ q = old
    <3>1. old # Nothing /\ base # q
      BY <1>4, <2>4, Addresses
    <3>2. Points(q)' = Points(q) - 1
      BY <2>1, <2>4
    <3>3. QED
      BY <1>4, <1>5, <2>1, <2>2, <2>4, <3>1, <3>2 DEF Right
  <2>5. CASE q # o /\ q # old
    <3>1. Points(q)' = Points(q) /\ mem'[q] = mem[q]
      BY <1>5, <2>1, <2>5
    <3>2. QED
      BY <2>2, <3>1 DEF Right, IInv, CountsExact, References, Points
  <2>6. QED
    BY <2>3, <2>4, <2>5
<1>9. QED
  BY <1>7, <1>8, AllRight

\* a reference is dropped,
LEMMA DropsInv == ASSUME IInv, Elsewhere, NEW v, Drops(v) PROVE IInv'
<1> DEFINE old == ptr[v]
<1>1. /\ v \in Vars /\ old \in Mem /\ old # base /\ mem[old] # Nothing /\ old # Nothing
      /\ mem[old].count \in Nat /\ mem[old].count > 0 /\ mem[old].count = Points(old)
      /\ mem \in [Mem -> Instance \cup {Nothing}]
  BY DesignatedCount DEF Drops, IInv, Typed
<1>2. /\ mem' \in [Mem -> Instance \cup {Nothing}]
      /\ \A q \in Mem : q # old => mem'[q] = mem[q]
      /\ mem[old].count = 1 => mem'[old] = Nothing
      /\ mem[old].count # 1 => /\ mem'[old] # Nothing
                               /\ mem'[old].count = mem[old].count - 1
  BY <1>1, WithoutIs DEF Drops
<1>3. /\ ptr' \in [Vars -> Mem \cup {Nothing}]
      /\ \A w \in Vars : ptr'[w] = IF w = v THEN Nothing ELSE ptr[w]
  BY <1>1 DEF Drops, IInv, Typed
<1>4. Typed' /\ BaseAlone'
  BY <1>2, <1>3 DEF IInv, Typed, BaseAlone, Drops, Elsewhere, AddressesFor
<1> HIDE DEF old
<1>5. ASSUME NEW q \in Mem PROVE Right(q)
  <2>1. /\ Points(q)' = Points(q) - (IF old = q THEN 1 ELSE 0) + (IF Nothing = q THEN 1 ELSE 0)
        /\ Points(q) \in Nat
    <3>1. ptr' = [ptr EXCEPT ![v] = Nothing] /\ Typed
      BY DEF Drops, IInv
    <3>2. Points(q)' = Points(q) - (IF ptr[v] = q THEN 1 ELSE 0)
                                 + (IF Nothing = q THEN 1 ELSE 0)
      BY <1>1, <3>1, PointsChange, ZenonT(30)
    <3>3. QED
      BY <3>2, PointsFinite DEF old
  <2>2. base' = base /\ Nothing # q
    BY Addresses DEF Drops
  <2>3. CASE q = old
    BY <1>1, <1>2, <2>1, <2>2, <2>3 DEF Right
  <2>4. CASE q # old
    <3>1. Points(q)' = Points(q) /\ mem'[q] = mem[q]
      BY <1>2, <2>1, <2>2, <2>4
    <3>2. QED
      BY <2>2, <3>1 DEF Right, IInv, CountsExact, References, Points
  <2>5. QED
    BY <2>3, <2>4
<1>6. QED
  BY <1>4, <1>5, AllRight

\* one is added,
LEMMA SharesInv == ASSUME IInv, Elsewhere, NEW v, NEW w, Shares(v, w) PROVE IInv'
<1> DEFINE o == ptr[v]
           new == [mem[o] EXCEPT !.count = @ + 1]
<1>1. /\ v \in Vars /\ w \in Vars /\ ptr[w] = Nothing /\ o # Nothing
      /\ o \in Mem /\ o # base /\ mem[o] # Nothing
      /\ mem[o].count \in Nat /\ mem[o].count = Points(o)
  BY DesignatedCount DEF Shares
<1>2. o \in AddressesFor(w) /\ mem[o] \in Instance
  BY Designated DEF Shares
<1>3. /\ new \in Instance /\ new.count = mem[o].count + 1
  BY <1>2 DEF Instance
<1>4. new # Nothing
  BY <1>3, Addresses
<1>5. mem' = [mem EXCEPT ![o] = new]
  BY DEF Shares
<1> HIDE DEF new
<1>6. /\ mem' \in [Mem -> Instance \cup {Nothing}]
      /\ \A q \in Mem : mem'[q] = IF q = o THEN new ELSE mem[q]
  BY <1>1, <1>3, <1>5 DEF IInv, Typed
<1>7. /\ ptr' \in [Vars -> Mem \cup {Nothing}]
      /\ \A u \in Vars : ptr'[u] = IF u = w THEN o ELSE ptr[u]
  BY <1>1 DEF Shares, IInv, Typed
<1>8. Typed' /\ BaseAlone'
  BY <1>1, <1>2, <1>6, <1>7
     DEF IInv, Typed, BaseAlone, Shares, Elsewhere, AddressesFor
<1>9. ptr' = [ptr EXCEPT ![w] = o] /\ base' = base
  BY DEF Shares
<1> HIDE DEF o
<1>10. ASSUME NEW q \in Mem PROVE Right(q)
  <2>1. /\ Points(q)' = Points(q) - (IF ptr[w] = q THEN 1 ELSE 0) + (IF o = q THEN 1 ELSE 0)
        /\ Points(q) \in Nat
    BY <1>1, <1>9, PointsChange, PointsFinite DEF IInv
  <2>2. ptr[w] # q
    BY <1>1, Addresses
  <2>3. CASE q = o
    BY <1>1, <1>3, <1>4, <1>6, <1>9, <2>1, <2>2, <2>3 DEF Right
  <2>4. CASE q # o
    <3>1. Points(q)' = Points(q) /\ mem'[q] = mem[q]
      BY <1>6, <2>1, <2>2, <2>4
    <3>2. QED
      BY <1>9, <3>1 DEF Right, IInv, CountsExact, References, Points
  <2>5. QED
    BY <2>3, <2>4
<1>11. QED
  BY <1>8, <1>10, AllRight

\* the clock is made,
LEMMA StartsInv == ASSUME IInv, Elsewhere, NEW o, StartsClock(o) PROVE IInv'
<1>1. /\ o \in Mem /\ o \in TimeMem /\ mem[o] = Nothing /\ base = Nothing /\ base' = o
      /\ ptr' = ptr /\ mem \in [Mem -> Instance \cup {Nothing}] /\ 0 \in Int
      /\ mem' = With(mem, o, 0)
  BY Addresses DEF StartsClock, IInv, Typed
<1>2. \A v \in Vars : ptr[v] # o
  BY <1>1, CountIsExact
<1>3. /\ mem' \in [Mem -> Instance \cup {Nothing}]
      /\ \A q \in Mem : q # o => mem'[q] = mem[q]
      /\ mem'[o] # Nothing /\ mem'[o].count = 1
  BY <1>1, WithIs
<1>4. Typed' /\ BaseAlone'
  BY <1>1, <1>2, <1>3 DEF IInv, Typed, BaseAlone, Elsewhere
<1>5. ASSUME NEW q \in Mem PROVE Right(q)
  <2>1. Points(q)' = Points(q) /\ Points(q) \in Nat
    BY <1>1, PointsFinite DEF Points
  <2>2. CASE q = o
    <3>1. Points(q) = 0
      BY <1>2, <2>2, PointsFinite
    <3>2. QED
      BY <1>1, <1>3, <2>1, <2>2, <3>1 DEF Right
  <2>3. CASE q # o
    <3>1. base # q /\ base' # q /\ mem'[q] = mem[q]
      BY <1>1, <1>3, <2>3, Addresses
    <3>2. QED
      BY <2>1, <3>1 DEF Right, IInv, CountsExact, References, Points
  <2>4. QED
    BY <2>2, <2>3
<1>6. QED
  BY <1>4, <1>5, AllRight

\* the clock is destroyed.
LEMMA StopsInv == ASSUME IInv, Elsewhere, StopsClock PROVE IInv'
<1>1. /\ base \in Mem /\ mem[base] # Nothing /\ mem[base].count = 1 /\ base' = Nothing
      /\ ptr' = ptr /\ mem \in [Mem -> Instance \cup {Nothing}]
      /\ mem' = Without(mem, base) /\ \A v \in Vars : ptr[v] # base
  BY BaseDesignated DEF StopsClock, IInv, Typed, BaseAlone
<1>2. /\ mem' \in [Mem -> Instance \cup {Nothing}]
      /\ \A q \in Mem : q # base => mem'[q] = mem[q]
      /\ mem'[base] = Nothing
  BY <1>1, WithoutIs
<1>3. Typed' /\ BaseAlone'
  BY <1>1, <1>2 DEF IInv, Typed, BaseAlone, Elsewhere
<1>4. ASSUME NEW q \in Mem PROVE Right(q)
  <2>1. Points(q)' = Points(q) /\ Points(q) \in Nat /\ base' # q
    BY <1>1, PointsFinite, Addresses, ZenonT(30) DEF Points
  <2>2. CASE q = base
    <3>1. Points(q) = 0
      BY <1>1, <2>2, PointsFinite
    <3>2. QED
      BY <1>2, <2>1, <2>2, <3>1 DEF Right
  <2>3. CASE q # base
    BY <1>2, <2>1, <2>3 DEF Right, IInv, CountsExact, References, Points
  <2>4. QED
    BY <2>2, <2>3
<1>5. QED
  BY <1>3, <1>4, AllRight

-----------------------------------------------------------------------------
(* The operations *)

\* The width of the integers.
LEMMA Values ==
  /\ IntMin \in Int /\ IntMax \in Int /\ 0 <= IntMax
  /\ \A n \in Int : Wrap(n) \in Int
<1>1. Modulus \in Nat /\ Modulus > 0
  BY NumbersAssumption
<1>2. IntMin \in Int /\ IntMax \in Int /\ 0 <= IntMax
  BY NumbersAssumption DEF IntMin, IntMax
<1>3. \A n \in Int : (n - IntMin) % Modulus \in Int
  BY <1>1, <1>2
<1>4. QED
  BY <1>2, <1>3 DEF Wrap

\* A division by a number other than 0.
LEMMA QuotientIsInt ==
  ASSUME NEW n \in Int, NEW d \in Int, d # 0 PROVE Quotient(n, d) \in Int
<1> DEFINE a == IF n < 0 THEN - n ELSE n
           b == IF d < 0 THEN - d ELSE d
<1>1. a \in Int /\ b \in Nat /\ b > 0
  OBVIOUS
<1> HIDE DEF a, b
<1>2. a \div b \in Int
  BY <1>1
<1>3. Quotient(n, d) = IF (n < 0) = (d < 0) THEN a \div b ELSE - (a \div b)
  BY DEF Quotient, a, b
<1>4. QED
  BY <1>2, <1>3

\* What a client holds has a value.
LEMMA HeldValue ==
  ASSUME IInv, NEW v \in Vars, Has(v)
  PROVE  ptr[v] # Nothing /\ Value(v) \in Int
BY Designated DEF Has, Value

\* A result in the instance that is there, or in a new one.
LEMMA IntoResultEffect ==
  ASSUME IInv, NEW r \in Vars, NEW x \in Int, IntoResult(r, x)
  PROVE  \/ Keeps /\ outcome' # "success"
         \/ outcome' = "success" /\ ptr[r] # Nothing /\ Writes(ptr[r], x)
         \/ outcome' = "success" /\ ptr[r] = Nothing /\ \E o : Places(r, o, x)
<1>1. CASE Has(r)
  BY <1>1, Designated DEF IntoResult, Writes, Has, NoMemory, Fails, Keeps, Succeeds
<1>2. ASSUME ptr[r] = Nothing, NEW o \in Free(AddressesFor(r)), mem' = With(mem, o, x),
             ptr' = [ptr EXCEPT ![r] = o], UNCHANGED base
      PROVE  Places(r, o, x)
  BY <1>2 DEF Places, Free, Without
<1>3. CASE NoMemory
  BY <1>3 DEF NoMemory, Fails, Keeps
<1>4. QED
  BY <1>1, <1>2, <1>3 DEF IntoResult, Succeeds, NoMemory, Fails

\* A new instance in the place of the old one.
LEMMA NewResultEffect ==
  ASSUME NEW r \in Vars, NEW x \in Int, NewResult(r, x)
  PROVE  \/ Keeps /\ outcome' # "success"
         \/ outcome' = "success" /\ \E o : Places(r, o, x)
BY DEF NewResult, Places, Free, NoMemory, Fails, Keeps, Succeeds

\* What may become of the instances in a step.
Changes ==
  \/ Keeps
  \/ \E o, x : Writes(o, x)
  \/ \E r, o, x : Places(r, o, x)
  \/ \E v : Drops(v)
  \/ \E v, w : Shares(v, w)
  \/ \E o : StartsClock(o)
  \/ StopsClock

\* Each operation does one of the changes.
LEMMA IntoResultChanges ==
  ASSUME IInv, NEW r \in Vars, NEW x \in Int, IntoResult(r, x) PROVE Changes
BY IntoResultEffect DEF Changes

\* One that replaces its result.
LEMMA NewResultChanges ==
  ASSUME IInv, NEW r \in Vars, NEW x \in Int, NewResult(r, x) PROVE Changes
BY NewResultEffect DEF Changes

\* One that fails.
LEMMA FailsChanges == ASSUME NEW class, Fails(class) PROVE Changes
BY DEF Fails, Changes, Keeps

\* Those on durations.
LEMMA DurationChanges == ASSUME IInv, DurationNext PROVE Changes
<1>1. PICK r \in DurationVars :
    \/ \E n \in Counts \cup {0} :
         DurationNewNs(r, n) \/ \E f \in Factors : DurationNewScaled(r, n, f)
    \/ \E a \in DurationVars :
         \/ \E b \in DurationVars : DurationAdd(r, a, b) \/ DurationSub(r, a, b)
         \/ \E n \in Scalars : DurationMultiply(r, a, n) \/ DurationDivide(r, a, n)
         \/ \E h \in Halves : DurationMultiplyF(r, a, h) \/ DurationDivideF(r, a, h)
         \/ DurationSet(r, a) \/ DurationCopy(r, a)
  BY DEF DurationNext
<1>2. DurationVars \subseteq Vars
  BY DEF Vars
<1>3. ASSUME NEW n \in Counts \cup {0},
             DurationNewNs(r, n) \/ \E f \in Factors : DurationNewScaled(r, n, f)
      PROVE  Changes
  <2>1. n \in Int
    BY NumbersAssumption DEF IntType
  <2>2. CASE DurationNewNs(r, n)
    BY <1>2, <2>1, <2>2, NewResultChanges DEF DurationNewNs
  <2>3. ASSUME NEW f \in Factors, DurationNewScaled(r, n, f) PROVE Changes
    <3>1. f \in Int /\ n * f \in Int
      BY <2>1, NumbersAssumption
    <3>2. Product(n, f) \in Int
      BY <3>1, Values DEF Product
    <3>3. QED
      BY <1>2, <2>3, <3>2, NewResultChanges, FailsChanges
         DEF DurationNewScaled, DurationNewNs
  <2>4. QED
    BY <1>3, <2>2, <2>3
<1>4. ASSUME NEW a \in DurationVars, NEW b \in DurationVars,
             DurationAdd(r, a, b) \/ DurationSub(r, a, b)
      PROVE  Changes
  <2>1. Value(a) \in Int /\ Value(b) \in Int
    BY <1>2, <1>4, HeldValue DEF DurationAdd, DurationSub
  <2>2. Sum(Value(a), Value(b)) \in Int /\ Difference(Value(a), Value(b)) \in Int
    BY <2>1, Values DEF Sum, Difference
  <2>3. QED
    BY <1>2, <1>4, <2>2, IntoResultChanges DEF DurationAdd, DurationSub
<1>5. ASSUME NEW a \in DurationVars, NEW n \in Int,
             DurationMultiply(r, a, n) \/ DurationDivide(r, a, n)
      PROVE  Changes
  <2>1. Value(a) \in Int
    BY <1>2, <1>5, HeldValue DEF DurationMultiply, DurationDivide
  <2>2. Product(Value(a), n) \in Int
    BY <2>1, Values DEF Product
  <2>3. n # 0 => Quotient(Value(a), n) \in Int
    BY <2>1, QuotientIsInt
  <2>4. QED
    BY <1>2, <1>5, <2>2, <2>3, NewResultChanges DEF DurationMultiply, DurationDivide
<1>6. ASSUME NEW a \in DurationVars, DurationSet(r, a) \/ DurationCopy(r, a)
      PROVE  Changes
  <2>1. Value(a) \in Int
    BY <1>2, <1>6, HeldValue DEF DurationSet, DurationCopy
  <2>2. QED
    BY <1>2, <1>6, <2>1, IntoResultChanges, NewResultChanges DEF DurationSet, DurationCopy
<1>7. /\ \A n \in Scalars : n \in Int
      /\ \A h \in Halves : Truncated(h) \in Int
  BY NumbersAssumption, QuotientIsInt DEF IntType, Truncated
<1>8. QED
  BY <1>1, <1>3, <1>4, <1>5, <1>6, <1>7 DEF DurationMultiplyF, DurationDivideF

\* Those on time points.
LEMMA TimePointChanges == ASSUME IInv, TimePointNext PROVE Changes
<1>1. PICK r \in TimeVars :
    \/ TimePointNew(r)
    \/ \E a \in TimeVars :
         \/ TimePointSet(r, a) \/ TimePointCopy(r, a)
         \/ \E d \in DurationVars :
              \/ TimePointAddDur(r, a, d) \/ TimePointSubDur(r, a, d)
              \/ TimePointAdd(r, a, d) \/ TimePointSub(d, r, a)
  BY DEF TimePointNext
<1>2. DurationVars \subseteq Vars /\ TimeVars \subseteq Vars
  BY DEF Vars
<1>3. CASE TimePointNew(r)
  BY <1>2, <1>3, IntoResultChanges DEF TimePointNew
<1>4. ASSUME NEW a \in TimeVars, TimePointSet(r, a) \/ TimePointCopy(r, a)
      PROVE  Changes
  <2>1. Value(a) \in Int
    BY <1>2, <1>4, HeldValue DEF TimePointSet, TimePointCopy
  <2>2. QED
    BY <1>2, <1>4, <2>1, IntoResultChanges, NewResultChanges
       DEF TimePointSet, TimePointCopy
<1>5. ASSUME NEW a \in TimeVars, NEW d \in DurationVars,
             TimePointAddDur(r, a, d) \/ TimePointSubDur(r, a, d)
      PROVE  Changes
  <2>1. Value(a) \in Int /\ Value(d) \in Int
    BY <1>2, <1>5, HeldValue DEF TimePointAddDur, TimePointSubDur
  <2>2. Sum(Value(a), Value(d)) \in Int /\ Difference(Value(a), Value(d)) \in Int
    BY <2>1, Values DEF Sum, Difference
  <2>3. QED
    BY <1>2, <1>5, <2>2, IntoResultChanges DEF TimePointAddDur, TimePointSubDur
<1>6. ASSUME NEW a \in TimeVars, NEW d \in DurationVars, TimePointSub(d, r, a)
      PROVE  Changes
  <2>1. Value(r) \in Int /\ Value(a) \in Int
    BY <1>2, <1>6, HeldValue DEF TimePointSub
  <2>2. Difference(Value(r), Value(a)) \in Int
    BY <2>1, Values DEF Difference
  <2>3. QED
    BY <1>2, <1>6, <2>2, IntoResultChanges DEF TimePointSub
<1>7. QED
  BY <1>1, <1>3, <1>4, <1>5, <1>6 DEF TimePointAdd

\* Those of the clock.
LEMMA ClockChanges == ASSUME IInv, ClockNext PROVE Changes
<1>1. DurationVars \subseteq Vars /\ TimeVars \subseteq Vars /\ now \in Int
  BY NumbersAssumption DEF Vars, IInv, Typed
<1>2. CASE ClockNew
  BY <1>2 DEF ClockNew, ClockInit, StartsClock, Free, Changes, NoMemory, Fails, Keeps
<1>3. CASE ClockDestroy
  BY <1>3 DEF ClockDestroy, StopsClock, Changes
<1>4. CASE ClockSetBaseTimeNow
  <2>1. Writes(base, now)
    BY <1>1, <1>4, BaseDesignated DEF ClockSetBaseTimeNow, Writes
  <2>2. QED
    BY <2>1 DEF Changes
<1>5. CASE ClockCompareFails \/ ClockCopyFails
  BY <1>5, FailsChanges DEF ClockCompareFails, ClockCopyFails
<1>6. ASSUME NEW v \in TimeVars, ClockTime(v) PROVE Changes
  BY <1>1, <1>6, IntoResultChanges DEF ClockTime
<1>7. ASSUME NEW v \in TimeVars, ClockSetBaseTime(v) PROVE Changes
  <2>1. Value(v) \in Int
    BY <1>1, <1>7, HeldValue DEF ClockSetBaseTime
  <2>2. Writes(base, Value(v))
    BY <1>7, <2>1, BaseDesignated DEF ClockSetBaseTime, Writes
  <2>3. QED
    BY <2>2 DEF Changes
<1>8. ASSUME NEW d \in DurationVars, ClockDuration(d) PROVE Changes
  <2>1. Difference(now, mem[base].value) \in Int
    BY <1>1, <1>8, BaseDesignated, Values DEF ClockDuration, Difference
  <2>2. QED
    BY <1>1, <1>8, <2>1, IntoResultChanges, FailsChanges DEF ClockDuration, NoMemory
<1>9. QED
  BY <1>2, <1>3, <1>4, <1>5, <1>6, <1>7, <1>8 DEF ClockNext

\* Those that all instances have.
LEMMA ObjectChanges == ASSUME IInv, ObjectNext PROVE Changes
<1>1. ASSUME NEW v \in Vars, NEW w \in Vars, Ref(v, w) PROVE Shares(v, w)
  BY <1>1 DEF Ref, Shares, Has
<1>2. ASSUME NEW v \in Vars, NEW w \in Vars, CompareFails(v, w) PROVE Changes
  BY <1>2, FailsChanges DEF CompareFails
<1>3. ASSUME NEW v \in Vars, Decref(v) PROVE Drops(v)
  BY <1>3 DEF Decref, Drops, Has
<1>4. QED
  BY <1>1, <1>2, <1>3 DEF ObjectNext, Changes

\* Every step keeps the invariant.
LEMMA StepInv == ASSUME IInv, [TimeNext]_timevars PROVE IInv'
<1>1. ASSUME Changes, Elsewhere PROVE IInv'
  BY <1>1, KeepsInv, WritesInv, PlacesInv, DropsInv, SharesInv, StartsInv, StopsInv
     DEF Changes
<1>2. CASE UNCHANGED timevars
  BY <1>2, KeepsInv DEF timevars, Keeps, Elsewhere, IInv, Typed
<1>3. CASE UNCHANGED <<now, use>> /\ TimeNext
  <2>1. Elsewhere
    BY <1>3 DEF Elsewhere, IInv, Typed
  <2>2. Changes
    <3>1. CASE ErrorDecref \/ Tick
      BY <3>1 DEF ErrorDecref, Tick, Changes, Keeps
    <3>2. QED
      BY <1>3, <3>1, DurationChanges, TimePointChanges, ClockChanges, ObjectChanges
         DEF TimeNext
  <2>3. QED
    BY <1>1, <2>1, <2>2
<1>4. CASE Tick
  <2>1. Elsewhere /\ Keeps
    BY <1>4, NumbersAssumption DEF Tick, Elsewhere, Keeps, IInv, Typed, IntMax
  <2>2. QED
    BY <2>1, KeepsInv
<1>5. QED
  BY <1>2, <1>3, <1>4 DEF TimeNext

\* It holds at first.
LEMMA InitInv == TimeInit => IInv
<1>1. SUFFICES ASSUME TimeInit PROVE IInv
  OBVIOUS
<1>2. Typed /\ BaseAlone
  BY <1>1, NumbersAssumption DEF TimeInit, Typed, BaseAlone
<1>3. ASSUME NEW o \in Mem PROVE References(o) = 0 /\ mem[o] = Nothing
  <2>1. \A v \in Vars : ptr[v] # o
    BY <1>1, Addresses DEF TimeInit
  <2>2. Points(o) = 0 /\ base # o
    BY <1>1, <2>1, PointsFinite, Addresses DEF TimeInit
  <2>3. QED
    BY <1>1, <2>2 DEF TimeInit, References, Points
<1>4. QED
  BY <1>2, <1>3 DEF IInv, CountsExact

\* It holds in every state of a behaviour.
LEMMA AlwaysInv == TimeSpec => []IInv
BY InitInv, StepInv, PTL DEF TimeSpec

-----------------------------------------------------------------------------
(* Theorems: counts and failures *)

\* The count of an instance is the number of variables, base_time included, that
\* designate it, and what nothing designates is gone, whatever the operations put
\* in the place of what, and whether they fail or not.
THEOREM CountsAlwaysExact == TimeSpec => []CountsExact
<1>1. IInv => CountsExact
  BY DEF IInv
<1>2. QED
  BY <1>1, AlwaysInv, PTL

\* A call that fails leaves every variable, every value and the base time alone.
THEOREM FailuresAreClean == TimeSpec => FailureIsClean
<1>1. [TimeNext]_timevars => [outcome' = "failed" => UNCHANGED <<ptr, mem, base>>]_timevars
  <2>1. SUFFICES ASSUME TimeNext, outcome' = "failed" PROVE UNCHANGED <<ptr, mem, base>>
    BY DEF timevars
  <2>2. ASSUME NEW r, NEW x, IntoResult(r, x) \/ NewResult(r, x)
        PROVE  UNCHANGED <<ptr, mem, base>>
    BY <2>1, <2>2 DEF IntoResult, NewResult, NoMemory, Fails, Succeeds
  <2>3. CASE DurationNext
    BY <2>2, <2>3 DEF DurationNext, DurationNewNs, DurationNewScaled, DurationAdd,
         DurationSub, DurationMultiply, DurationDivide, DurationMultiplyF,
         DurationDivideF, DurationSet, DurationCopy, Fails
  <2>4. CASE TimePointNext
    BY <2>2, <2>4 DEF TimePointNext, TimePointNew, TimePointSet, TimePointCopy,
         TimePointAddDur, TimePointSubDur, TimePointAdd, TimePointSub
  <2>5. CASE ClockNext
    BY <2>1, <2>2, <2>5 DEF ClockNext, ClockNew, ClockInit, ClockDestroy, ClockTime,
         ClockDuration, ClockSetBaseTime, ClockSetBaseTimeNow, ClockCompareFails,
         ClockCopyFails, NoMemory, Fails, Succeeds
  <2>6. CASE ObjectNext
    BY <2>1, <2>6 DEF ObjectNext, Ref, Decref, CompareFails, Fails, Succeeds
  <2>7. QED
    BY <2>1, <2>3, <2>4, <2>5, <2>6 DEF TimeNext, ErrorDecref, Tick
<1>2. QED
  BY <1>1, PTL DEF TimeSpec, FailureIsClean

-----------------------------------------------------------------------------
(* The order of durations and time points *)

\* Whole units keep the order of natural numbers.
LEMMA DivKeepsOrder ==
  ASSUME NEW a \in Nat, NEW b \in Nat, a <= b, NEW f \in Nat, f > 0
  PROVE  a \div f \in Nat /\ b \div f \in Nat /\ a \div f <= b \div f
<1> DEFINE p == a \div f
           q == b \div f
<1>1. p \in Int /\ q \in Int
  OBVIOUS
<1>2. f * p <= a /\ b < f * q + f
  OBVIOUS
<1>3. p >= 0 /\ q >= 0
  OBVIOUS
<1> HIDE DEF p, q
<1>4. ASSUME p > q PROVE FALSE
  <2>1. PICK k \in Nat : p = q + 1 + k
    <3>1. p - q - 1 \in Nat
      BY <1>1, <1>4
    <3>2. p = q + 1 + (p - q - 1)
      BY <1>1
    <3>3. QED
      BY <3>1, <3>2
  <2>2. f * p = f * q + f + f * k
    BY <1>1, <2>1
  <2>3. f * k >= 0 /\ f * p \in Int /\ f * q \in Int /\ f * k \in Int
    BY <1>1, <2>1
  <2>4. QED
    BY <1>2, <2>2, <2>3
<1>5. p <= q
  BY <1>1, <1>4
<1>6. QED
  BY <1>1, <1>3, <1>5 DEF p, q

\* So does the division of C.
LEMMA QuotientKeepsOrder ==
  ASSUME NEW x \in Int, NEW y \in Int, x <= y, NEW f \in Nat, f > 0
  PROVE  Quotient(x, f) <= Quotient(y, f)
<1> DEFINE a == IF x < 0 THEN - x ELSE x
           b == IF y < 0 THEN - y ELSE y
<1>1. a \in Nat /\ b \in Nat /\ ~ f < 0
  OBVIOUS
<1>2. /\ Quotient(x, f) = IF x < 0 THEN - (a \div f) ELSE a \div f
      /\ Quotient(y, f) = IF y < 0 THEN - (b \div f) ELSE b \div f
  BY <1>1 DEF Quotient
<1>3. CASE x < 0 /\ y < 0
  <2>1. b <= a
    BY <1>3
  <2> HIDE DEF a, b
  <2>2. QED
    BY <1>1, <1>2, <1>3, <2>1, DivKeepsOrder
<1>4. CASE ~ x < 0
  <2>1. a <= b /\ ~ y < 0
    BY <1>4
  <2> HIDE DEF a, b
  <2>2. QED
    BY <1>1, <1>2, <1>4, <2>1, DivKeepsOrder
<1>5. CASE x < 0 /\ ~ y < 0
  <2> HIDE DEF a, b
  <2>1. a \div f \in Nat /\ b \div f \in Nat
    BY <1>1, DivKeepsOrder
  <2>2. QED
    BY <1>2, <1>5, <2>1
<1>6. QED
  BY <1>3, <1>4, <1>5

\* The comparisons of two values, whatever they are the values of.
LEMMA OrderOfValues ==
  ASSUME NEW v \in Vars, NEW w \in Vars, (v \in DurationVars) = (w \in DurationVars),
         Value(v) \in Int, Value(w) \in Int
  PROVE  /\ Compare(v, w) # {}
         /\ \A c \in Compare(v, w) :
              /\ c \in Int
              /\ c < 0 <=> Value(v) < Value(w)
              /\ c = 0 <=> Value(v) = Value(w)
              /\ c > 0 <=> Value(v) > Value(w)
<1>1. v \notin DurationVars => w \in TimeVars
  BY DEF Vars
<1>2. v \in DurationVars =>
        Compare(v, w) = {IF Value(v) < Value(w) THEN -1
                         ELSE IF Value(v) = Value(w) THEN 0 ELSE 1}
  BY DEF Compare, DurationCompare
<1>3. v \notin DurationVars =>
        Compare(v, w) = {IF Value(v) > Value(w) THEN 1
                         ELSE IF Value(v) = Value(w) THEN 0 ELSE -1}
  BY <1>1 DEF Compare, TimePointCompare
<1>4. QED
  BY <1>2, <1>3

\* The comparisons order the instances of a class linearly by their values, agree
\* with each other and with the order of whole units, and refuse instances of two
\* classes from either side.
THEOREM ComparisonsAreLinear == TimeSpec => []OrderIsLinear
<1>1. ASSUME IInv PROVE OrderIsLinear
  <2>1. SUFFICES ASSUME NEW v \in Vars, NEW w \in Vars, Has(v), Has(w)
                 PROVE
      /\ (Compare(v, w) = {}) = ((v \in DurationVars) # (w \in DurationVars))
      /\ \A c \in Compare(v, w), d \in Compare(w, v), f \in Factors :
           LET A == Answers(c)
               B == Answers(d)
               T == TimePointAnswers(v, w)
           IN  /\ A.less = B.greater /\ A.less_equal = B.greater_equal
               /\ A.equal = B.equal /\ A.equal = ~ A.not_equal
               /\ A.less_equal = (A.less \/ A.equal) /\ A.less = ~ A.greater_equal
               /\ T = [lt |-> A.less, lte |-> A.less_equal, eq |-> A.equal,
                       gte |-> A.greater_equal, gt |-> A.greater]
               /\ A.less_equal => Units(v, f) <= Units(w, f)
    BY DEF OrderIsLinear
  <2>2. Value(v) \in Int /\ Value(w) \in Int
    BY <1>1, <2>1, HeldValue
  <2>3. CASE (v \in DurationVars) # (w \in DurationVars)
    <3>1. Compare(v, w) = {}
      BY <2>3, VarsAssumption DEF Compare, DurationCompare, TimePointCompare, Vars
    <3>2. QED
      BY <2>3, <3>1
  <2>4. CASE (v \in DurationVars) = (w \in DurationVars)
    <3>1. Compare(v, w) # {}
      BY <2>2, <2>4, OrderOfValues
    <3>2. ASSUME NEW c \in Compare(v, w), NEW d \in Compare(w, v), NEW f \in Factors
          PROVE  LET A == Answers(c)
                     B == Answers(d)
                     T == TimePointAnswers(v, w)
                 IN  /\ A.less = B.greater /\ A.less_equal = B.greater_equal
                     /\ A.equal = B.equal /\ A.equal = ~ A.not_equal
                     /\ A.less_equal = (A.less \/ A.equal)
                     /\ A.less = ~ A.greater_equal
                     /\ T = [lt |-> A.less, lte |-> A.less_equal, eq |-> A.equal,
                             gte |-> A.greater_equal, gt |-> A.greater]
                     /\ A.less_equal => Units(v, f) <= Units(w, f)
      <4>1. /\ c \in Int
            /\ c < 0 <=> Value(v) < Value(w)
            /\ c = 0 <=> Value(v) = Value(w)
            /\ c > 0 <=> Value(v) > Value(w)
        BY <2>2, <2>4, OrderOfValues
      <4>2. /\ d \in Int
            /\ d < 0 <=> Value(w) < Value(v)
            /\ d = 0 <=> Value(w) = Value(v)
            /\ d > 0 <=> Value(w) > Value(v)
        BY <2>2, <2>4, OrderOfValues
      <4>3. f \in Nat /\ f > 0
        BY NumbersAssumption, Values
      <4>4. Value(v) <= Value(w) => Units(v, f) <= Units(w, f)
        BY <2>2, <4>3, QuotientKeepsOrder DEF Units
      <4> DEFINE x == Value(v)
                 y == Value(w)
      <4>5. /\ (c < 0) = (x < y) /\ (c <= 0) = (x <= y) /\ (c = 0) = (x = y)
            /\ (c # 0) = (x # y) /\ (c >= 0) = (x >= y) /\ (c > 0) = (x > y)
        <5> HIDE DEF x, y
        <5>1. /\ c \in Int /\ x \in Int /\ y \in Int
              /\ (c < 0 <=> x < y) /\ (c = 0 <=> x = y) /\ (c > 0 <=> x > y)
          BY <2>2, <4>1 DEF x, y
        <5>2. QED
          BY <5>1
      <4>6. /\ (d < 0) = (y < x) /\ (d <= 0) = (y <= x) /\ (d = 0) = (x = y)
            /\ (d # 0) = (x # y) /\ (d >= 0) = (y >= x) /\ (d > 0) = (y > x)
        <5> HIDE DEF x, y
        <5>1. /\ d \in Int /\ x \in Int /\ y \in Int
              /\ (d < 0 <=> y < x) /\ (d = 0 <=> y = x) /\ (d > 0 <=> y > x)
          BY <2>2, <4>2 DEF x, y
        <5>2. QED
          BY <5>1
      <4>7. /\ Answers(c) = [less |-> x < y, less_equal |-> x <= y, equal |-> x = y,
                             not_equal |-> x # y, greater_equal |-> x >= y,
                             greater |-> x > y]
            /\ Answers(d) = [less |-> y < x, less_equal |-> y <= x, equal |-> x = y,
                             not_equal |-> x # y, greater_equal |-> y >= x,
                             greater |-> y > x]
            /\ TimePointAnswers(v, w) =
                 [lt |-> x < y, lte |-> x <= y, eq |-> x = y,
                  gte |-> x >= y, gt |-> x > y]
        BY <4>5, <4>6, Zenon DEF Answers, TimePointAnswers
      <4>8. /\ x \in Int /\ y \in Int
            /\ x <= y => Units(v, f) <= Units(w, f)
        BY <2>2, <4>4
      <4> HIDE DEF x, y
      <4>9. /\ (x < y) = (y > x) /\ (x <= y) = (y >= x) /\ (x = y) = ~ (x # y)
            /\ (x <= y) = ((x < y) \/ (x = y)) /\ (x < y) = ~ (x >= y)
        BY <4>8
      <4>10. /\ Answers(c).less = (x < y) /\ Answers(c).less_equal = (x <= y)
             /\ Answers(c).equal = (x = y) /\ Answers(c).not_equal = (x # y)
             /\ Answers(c).greater_equal = (x >= y) /\ Answers(c).greater = (x > y)
             /\ Answers(d).greater = (y > x) /\ Answers(d).greater_equal = (y >= x)
             /\ Answers(d).equal = (x = y)
        BY <4>7
      <4>11. TimePointAnswers(v, w) =
               [lt |-> Answers(c).less, lte |-> Answers(c).less_equal,
                eq |-> Answers(c).equal, gte |-> Answers(c).greater_equal,
                gt |-> Answers(c).greater]
        BY <4>7, <4>10, Zenon
      <4>12. Answers(c).less_equal => Units(v, f) <= Units(w, f)
        BY <4>8, <4>10, Zenon
      <4>13. QED
        BY <4>9, <4>10, <4>11, <4>12, Zenon
    <3>3. QED
      BY <2>4, <3>1, <3>2
  <2>5. QED
    BY <2>3, <2>4
<1>2. QED
  BY <1>1, AlwaysInv, PTL

-----------------------------------------------------------------------------
(* What Instants sees of the changes *)

\* What a variable designates is there.
AllThere == \A v \in Vars : ptr[v] # Nothing => mem[ptr[v]] # Nothing

\* The counts see to it.
LEMMA InstancesThere == IInv => AllThere
BY Designated DEF AllThere

\* After a step, too.
LEMMA InstancesThereNext == IInv' => AllThere'
BY InstancesThere, PTL

\* Nothing is to be seen of a step that keeps the pointers and the values.
LEMMA KeepsMap ==
  ASSUME Keeps PROVE UNCHANGED <<Shows, Sharers, BaseTime>>
BY DEF Keeps, Shows, Sharers, BaseTime, Value

\* A value that is written is overwritten for all that share it.
LEMMA WritesMap ==
  ASSUME IInv, NEW r \in Vars, ptr[r] # Nothing, NEW x, Writes(ptr[r], x)
  PROVE  I!Overwrite(r, x) /\ BaseTime' = BaseTime
<1> DEFINE o == ptr[r]
<1>1. /\ o \in Mem /\ o # base /\ mem \in [Mem -> Instance \cup {Nothing}]
      /\ mem[o] \in Instance /\ ptr' = ptr /\ base' = base
      /\ mem' = [mem EXCEPT ![o].value = x]
  BY Designated DEF Writes, IInv, Typed
<1> HIDE DEF o
<1>2. /\ mem'[o].value = x
      /\ \A q \in Mem : q # o => mem'[q] = mem[q]
  BY <1>1 DEF Instance
<1>3. BaseTime' = BaseTime
  <2>1. base # Nothing => base \in Mem
    BY BaseDesignated
  <2>2. QED
    BY <1>1, <1>2, <2>1 DEF BaseTime
<1>4. Sharers' = Sharers
  BY <1>1 DEF Sharers
<1>5. ASSUME NEW v \in Vars
      PROVE  (IF ptr[v] = Nothing THEN Nothing ELSE Value(v))' =
               IF v \in Sharers[r] THEN x ELSE Shows[v]
  <2>1. v \in Sharers[r] <=> ptr[v] = o
    BY DEF Sharers, o
  <2>2. ptr[v] # Nothing => ptr[v] \in Mem
    BY Designated
  <2>3. o # Nothing
    BY DEF o
  <2>4. QED
    BY <1>1, <1>2, <2>1, <2>2, <2>3 DEF Shows, Value
<1>6. Shows' = [v \in Vars |-> IF v \in Sharers[r] THEN x ELSE Shows[v]]
  BY <1>5 DEF Shows
<1>7. QED
  BY <1>3, <1>4, <1>6 DEF I!Overwrite, I!Vars, Vars

\* A new instance replaces the value of one variable.
LEMMA PlacesMap ==
  ASSUME IInv, IInv', NEW r, NEW o, NEW x, Places(r, o, x)
  PROVE  /\ I!Replace(r, x) /\ BaseTime' = BaseTime
         /\ ptr[r] = Nothing => I!Overwrite(r, x)
<1> DEFINE m == With(mem, o, x)
           old == ptr[r]
<1>1. /\ r \in Vars /\ o \in Mem /\ mem[o] = Nothing /\ o # Nothing /\ x \in Int
      /\ mem \in [Mem -> Instance \cup {Nothing}] /\ base' = base
  BY Addresses DEF Places, IInv, Typed
<1>2. base # o /\ \A v \in Vars : ptr[v] # o
  BY <1>1, CountIsExact
<1>3. /\ m \in [Mem -> Instance \cup {Nothing}]
      /\ \A q \in Mem : q # o => m[q] = mem[q]
      /\ m[o].value = x
  BY <1>1, WithIs
<1>4. old # Nothing => /\ old \in Mem /\ old # base /\ old # o
                    /\ mem[old] # Nothing /\ mem[old].count > 0
  BY <1>1, <1>2, DesignatedCount
<1>5. /\ mem'[o].value = x
      /\ \A q \in Mem : q # o /\ q # old => mem'[q] = mem[q]
      /\ old # Nothing => mem'[old] = Nothing \/ mem'[old].value = mem[old].value
  <2>1. CASE old = Nothing
    <3>1. mem' = m
      BY <2>1 DEF Places, Without
    <3> HIDE DEF m
    <3>2. QED
      BY <1>1, <1>3, <2>1, <3>1
  <2>2. CASE old # Nothing
    <3>1. mem' = Without(m, old)
      BY DEF Places
    <3>2. m[old] = mem[old] /\ m[old] # Nothing /\ m[old].count > 0
      BY <1>3, <1>4, <2>2
    <3> HIDE DEF m
    <3>3. /\ \A q \in Mem : q # old => mem'[q] = m[q]
          /\ m[old].count = 1 => mem'[old] = Nothing
          /\ m[old].count # 1 => mem'[old].value = m[old].value
      BY <1>3, <1>4, <2>2, <3>1, <3>2, WithoutIs
    <3>4. QED
      BY <1>1, <1>3, <1>4, <2>2, <3>2, <3>3
  <2>3. QED
    BY <2>1, <2>2
<1> HIDE DEF m
<1>6. \A v \in Vars : ptr'[v] = IF v = r THEN o ELSE ptr[v]
  BY <1>1 DEF Places, IInv, Typed
<1>7. ASSUME NEW v \in Vars, v # r, ptr[v] # Nothing
      PROVE  mem'[ptr[v]].value = mem[ptr[v]].value
  <2>1. ptr'[v] = ptr[v] /\ ptr[v] \in Mem /\ ptr[v] # o
    BY <1>2, <1>6, <1>7, Designated
  <2>2. mem'[ptr[v]] # Nothing
    BY <1>7, <2>1, InstancesThereNext DEF AllThere
  <2>3. QED
    BY <1>5, <1>7, <2>1, <2>2
<1>8. BaseTime' = BaseTime
  <2>1. base # Nothing => base \in Mem /\ base # old
    BY <1>4, BaseDesignated, Addresses
  <2>2. QED
    BY <1>1, <1>2, <1>5, <2>1 DEF BaseTime
<1> HIDE DEF old
<1>9. ASSUME NEW v \in Vars
      PROVE  /\ (IF ptr[v] = Nothing THEN Nothing ELSE Value(v))' =
                  IF v = r THEN x ELSE Shows[v]
             /\ {w \in Vars : w = v \/ (ptr[v] # Nothing /\ ptr[w] = ptr[v])}' =
                  IF v = r THEN {r} ELSE Sharers[v] \ {r}
  <2>1. CASE v = r
    BY <1>1, <1>2, <1>5, <1>6, <2>1
       DEF Value
  <2>2. CASE v # r
    BY <1>1, <1>2, <1>6, <1>7, <2>2 DEF Value, Shows, Sharers
  <2>3. QED
    BY <2>1, <2>2
<1>10. Shows' = [Shows EXCEPT ![r] = x]
  BY <1>9 DEF Shows
<1>11. Sharers' = [v \in Vars |-> IF v = r THEN {r} ELSE Sharers[v] \ {r}]
  BY <1>9 DEF Sharers
<1>12. I!Replace(r, x)
  BY <1>10, <1>11 DEF I!Replace, I!Vars, Vars
<1>13. ASSUME ptr[r] = Nothing PROVE I!Overwrite(r, x)
  <2>1. Sharers[r] = {r} /\ \A v \in Vars : v # r => r \notin Sharers[v]
    BY <1>1, <1>13 DEF Sharers
  <2>2. Shows' = [v \in Vars |-> IF v \in Sharers[r] THEN x ELSE Shows[v]]
    BY <1>1, <1>10, <2>1 DEF Shows
  <2>3. Sharers' = Sharers
    BY <1>11, <2>1 DEF Sharers
  <2>4. QED
    BY <2>2, <2>3 DEF I!Overwrite, I!Vars, Vars
<1>14. QED
  BY <1>8, <1>12, <1>13

\* A variable that gives up its reference shows nothing any more.
LEMMA DropsMap ==
  ASSUME IInv, IInv', NEW r, Drops(r)
  PROVE  I!Replace(r, Nothing) /\ BaseTime' = BaseTime
<1> DEFINE old == ptr[r]
<1>1. /\ r \in Vars /\ old \in Mem /\ old # base /\ mem[old] # Nothing
      /\ mem[old].count > 0 /\ mem \in [Mem -> Instance \cup {Nothing}] /\ base' = base
  BY DesignatedCount DEF Drops, IInv, Typed
<1>2. /\ \A q \in Mem : q # old => mem'[q] = mem[q]
      /\ mem'[old] = Nothing \/ mem'[old].value = mem[old].value
  BY <1>1, WithoutIs DEF Drops
<1>3. \A v \in Vars : ptr'[v] = IF v = r THEN Nothing ELSE ptr[v]
  BY <1>1 DEF Drops, IInv, Typed
<1>4. ASSUME NEW v \in Vars, v # r, ptr[v] # Nothing
      PROVE  mem'[ptr[v]].value = mem[ptr[v]].value
  <2>1. ptr'[v] = ptr[v] /\ ptr[v] \in Mem
    BY <1>3, <1>4, Designated
  <2>2. mem'[ptr[v]] # Nothing
    BY <1>4, <2>1, InstancesThereNext DEF AllThere
  <2>3. QED
    BY <1>2, <1>4, <2>1, <2>2
<1>5. BaseTime' = BaseTime
  <2>1. base # Nothing => base \in Mem
    BY BaseDesignated
  <2>2. QED
    BY <1>1, <1>2, <2>1 DEF BaseTime
<1> HIDE DEF old
<1>6. ASSUME NEW v \in Vars
      PROVE  /\ (IF ptr[v] = Nothing THEN Nothing ELSE Value(v))' =
                  IF v = r THEN Nothing ELSE Shows[v]
             /\ {w \in Vars : w = v \/ (ptr[v] # Nothing /\ ptr[w] = ptr[v])}' =
                  IF v = r THEN {r} ELSE Sharers[v] \ {r}
  <2>1. CASE v = r
    BY <1>1, <1>3, <2>1 DEF Value
  <2>2. CASE v # r
    BY <1>1, <1>3, <1>4, <2>2 DEF Value, Shows, Sharers
  <2>3. QED
    BY <2>1, <2>2
<1>7. Shows' = [Shows EXCEPT ![r] = Nothing]
  BY <1>6 DEF Shows
<1>8. Sharers' = [v \in Vars |-> IF v = r THEN {r} ELSE Sharers[v] \ {r}]
  BY <1>6 DEF Sharers
<1>9. QED
  BY <1>5, <1>7, <1>8 DEF I!Replace, I!Vars, Vars

\* One that takes a reference shares a value.
LEMMA SharesMap ==
  ASSUME IInv, NEW v, NEW w, Shares(v, w)
  PROVE  /\ I!Share(v, w) /\ BaseTime' = BaseTime
         /\ \E S \in {DurationVars, TimeVars} : v \in S /\ w \in S
<1> DEFINE o == ptr[v]
<1>1. /\ v \in Vars /\ w \in Vars /\ o \in Mem /\ o \in AddressesFor(v) /\ o # base
      /\ mem[o] \in Instance /\ o # Nothing /\ ptr[w] = Nothing /\ v # w
      /\ AddressesFor(v) = AddressesFor(w)
      /\ mem \in [Mem -> Instance \cup {Nothing}] /\ base' = base
      /\ mem' = [mem EXCEPT ![o].count = @ + 1]
      /\ ptr' = [ptr EXCEPT ![w] = o]
  BY Designated DEF Shares, IInv, Typed
<1>2. \E S \in {DurationVars, TimeVars} : v \in S /\ w \in S
  BY <1>1, VarsAssumption DEF AddressesFor, Vars
<1> HIDE DEF o
<1>3. \A q \in Mem : q # o => mem'[q] = mem[q]
  BY <1>1
<1>4. mem'[o].value = mem[o].value
  BY <1>1 DEF Instance
<1>5. \A u \in Vars : ptr'[u] = IF u = w THEN o ELSE ptr[u]
  BY <1>1 DEF IInv, Typed
<1>6. BaseTime' = BaseTime
  <2>1. base # Nothing => base \in Mem
    BY BaseDesignated
  <2>2. QED
    BY <1>1, <1>3, <2>1 DEF BaseTime
<1>7. ptr[v] = o
  BY DEF o
<1>8. ASSUME NEW u \in Vars
      PROVE  /\ (IF ptr[u] = Nothing THEN Nothing ELSE Value(u))' =
                  IF u = w THEN Shows[v] ELSE Shows[u]
             /\ {z \in Vars : z = u \/ (ptr[u] # Nothing /\ ptr[z] = ptr[u])}' =
                  IF u = w \/ u \in Sharers[v] THEN Sharers[v] \cup {w} ELSE Sharers[u]
  <2>1. ptr[u] # Nothing => ptr[u] \in Mem
    BY Designated
  <2>2. Shows[v] = mem[o].value
    BY <1>1, <1>7 DEF Shows, Value
  <2>3. Sharers[v] = {z \in Vars : ptr[z] = o}
    BY <1>1, <1>7 DEF Sharers
  <2>4. (IF ptr[u] = Nothing THEN Nothing ELSE Value(u))' =
          IF u = w THEN Shows[v] ELSE Shows[u]
    BY <1>1, <1>3, <1>4, <1>5, <2>1, <2>2 DEF Value, Shows
  <2>5. {z \in Vars : z = u \/ (ptr'[u] # Nothing /\ ptr'[z] = ptr'[u])} =
          IF u = w \/ u \in Sharers[v] THEN Sharers[v] \cup {w} ELSE Sharers[u]
    BY <1>1, <1>5, <2>3 DEF Sharers
  <2>6. QED
    BY <2>4, <2>5
<1>9. Shows' = [Shows EXCEPT ![w] = Shows[v]]
  BY <1>8 DEF Shows
<1>10. Sharers' = [u \in Vars |-> IF u = w \/ u \in Sharers[v]
                                  THEN Sharers[v] \cup {w} ELSE Sharers[u]]
  BY <1>8 DEF Sharers
<1>11. Shows[v] # Nothing /\ Shows[w] = Nothing
  BY <1>1, <1>7, Addresses DEF Shows, Value, Instance
<1>12. QED
  BY <1>2, <1>6, <1>9, <1>10, <1>11 DEF I!Share, I!Vars, Vars

\* A step that touches an instance of the base time only.
LEMMA BaseMap ==
  ASSUME IInv, ptr' = ptr, NEW o, \A v \in Vars : ptr[v] # o,
         \A q \in Mem : q # o => mem'[q] = mem[q]
  PROVE  UNCHANGED <<Shows, Sharers>>
<1>1. Sharers' = Sharers
  BY DEF Sharers
<1>2. ASSUME NEW v \in Vars
      PROVE  (IF ptr[v] = Nothing THEN Nothing ELSE Value(v))' =
               IF ptr[v] = Nothing THEN Nothing ELSE Value(v)
  BY Designated DEF Value
<1>3. Shows' = Shows
  BY <1>2 DEF Shows
<1>4. QED
  BY <1>1, <1>3

\* The base time is set, comes and goes.
LEMMA ClockMap ==
  ASSUME IInv
  PROVE  /\ \A x : base # Nothing /\ Writes(base, x) =>
              BaseTime' = x /\ BaseTime # Nothing /\ UNCHANGED <<Shows, Sharers>>
         /\ StopsClock =>
              BaseTime' = Nothing /\ BaseTime # Nothing /\ UNCHANGED <<Shows, Sharers>>
         /\ \A o : StartsClock(o) =>
              BaseTime' = 0 /\ BaseTime = Nothing /\ UNCHANGED <<Shows, Sharers>>
<1>1. mem \in [Mem -> Instance \cup {Nothing}]
  BY DEF IInv, Typed
<1>2. base # Nothing =>
        /\ base \in Mem /\ mem[base] \in Instance /\ mem[base].value # Nothing
        /\ BaseTime = mem[base].value /\ \A v \in Vars : ptr[v] # base
        /\ mem[base] # Nothing /\ mem[base].count = 1
  BY BaseDesignated, Addresses DEF BaseTime, IInv, BaseAlone
<1>3. ASSUME NEW x, base # Nothing, Writes(base, x)
      PROVE  BaseTime' = x /\ BaseTime # Nothing /\ UNCHANGED <<Shows, Sharers>>
  <2>1. /\ ptr' = ptr /\ base' = base /\ mem'[base].value = x
        /\ \A q \in Mem : q # base => mem'[q] = mem[q]
    BY <1>1, <1>2, <1>3 DEF Writes, Instance
  <2>2. QED
    BY <1>2, <1>3, <2>1, BaseMap DEF BaseTime
<1>4. ASSUME StopsClock
      PROVE  BaseTime' = Nothing /\ BaseTime # Nothing /\ UNCHANGED <<Shows, Sharers>>
  <2>1. /\ ptr' = ptr /\ base' = Nothing /\ base # Nothing
        /\ \A q \in Mem : q # base => mem'[q] = mem[q]
    BY <1>1, <1>2, <1>4, WithoutIs DEF StopsClock
  <2>2. QED
    BY <1>2, <2>1, BaseMap DEF BaseTime
<1>5. ASSUME NEW o, StartsClock(o)
      PROVE  BaseTime' = 0 /\ BaseTime = Nothing /\ UNCHANGED <<Shows, Sharers>>
  <2>1. o \in Mem /\ mem[o] = Nothing /\ base = Nothing /\ ptr' = ptr /\ base' = o /\ o # Nothing
    BY <1>5, Addresses DEF StartsClock
  <2>2. \A v \in Vars : ptr[v] # o
    BY <2>1, CountIsExact
  <2>3. mem'[o].value = 0 /\ \A q \in Mem : q # o => mem'[q] = mem[q]
    BY <1>1, <1>5, <2>1, WithIs DEF StartsClock
  <2>4. QED
    BY <2>1, <2>2, <2>3, BaseMap DEF BaseTime
<1>6. QED
  BY <1>3, <1>4, <1>5

-----------------------------------------------------------------------------
(* The arithmetic that Instants shares with the operations *)

\* A number that fits is not changed by the width.
LEMMA WrapFits ==
  /\ \A n \in Int : Wrap(n) \in IntType
  /\ \A n \in IntType : n \in Int /\ Wrap(n) = n
<1> DEFINE M == Modulus
           H == Modulus \div 2
<1>1. M \in Nat /\ H \in Int /\ M = 2 * H /\ H > 0
  BY NumbersAssumption
<1>2. IntMin = - H /\ IntMax = H - 1 /\ IntType = (- H) .. (H - 1)
  BY DEF IntMin, IntMax, IntType
<1>3. \A n : Wrap(n) = ((n - (- H)) % M) + (- H)
  BY <1>2 DEF Wrap
<1> HIDE DEF M, H
<1>4. ASSUME NEW n \in Int PROVE Wrap(n) \in IntType
  <2>1. (n - (- H)) % M \in 0 .. M - 1
    BY <1>1
  <2>2. QED
    BY <1>1, <1>2, <1>3, <2>1
<1>5. ASSUME NEW n \in IntType PROVE n \in Int /\ Wrap(n) = n
  <2>1. n \in Int /\ n - (- H) \in 0 .. M - 1
    BY <1>1, <1>2, <1>5
  <2>2. (n - (- H)) % M = n - (- H)
    BY <1>1, <2>1
  <2>3. QED
    BY <1>1, <1>3, <2>1, <2>2
<1>6. QED
  BY <1>4, <1>5

\* The test after the product is right where the product may wrap around.
LEMMA AcceptedFits ==
  ASSUME NEW n \in IntType, NEW f \in Factors, Accepted(n, f), ~ use.folded
  PROVE  n * f \in IntType
<1> DEFINE w == Wrap(n * f)
           a == IF w < 0 THEN - w ELSE w
           b == IF n < 0 THEN - n ELSE n
<1>1. n \in Int /\ f \in Nat /\ f > 0 /\ n * f \in Int
  BY WrapFits, Values, NumbersAssumption
<1>2. w \in IntType /\ w \in Int
  BY <1>1, WrapFits
<1>3. n = 0 \/ Quotient(w, n) = f
  BY DEF Accepted, Product
<1>4. a \in Nat /\ b \in Nat
  BY <1>1, <1>2
<1>5. Quotient(w, n) = IF (w < 0) = (n < 0) THEN a \div b ELSE - (a \div b)
  BY DEF Quotient
<1>6. ASSUME n # 0 PROVE (w < 0) = (n < 0) /\ b * f <= a
  <2>1. b > 0
    BY <1>1, <1>6
  <2>2. (w < 0) = (n < 0) => Quotient(w, n) = a \div b
    BY <1>5
  <2>3. ~ ((w < 0) = (n < 0)) => Quotient(w, n) = - (a \div b)
    BY <1>5
  <2>4. (w < 0) = (n < 0) \/ ~ ((w < 0) = (n < 0))
    OBVIOUS
  <2>5. Quotient(w, n) = f
    BY <1>3, <1>6
  <2>6. a \div b \in Int /\ a \div b >= 0 /\ b * (a \div b) <= a
    <3> HIDE DEF a, b
    <3>1. QED
      BY <1>4, <2>1
  <2>7. (w < 0) = (n < 0)
    <3> HIDE DEF a, b, w
    <3>1. QED
      BY <1>1, <2>3, <2>5, <2>6
  <2>8. a \div b = f
    BY <2>2, <2>5, <2>7
  <2>9. QED
    BY <2>6, <2>7, <2>8
<1>7. CASE n = 0
  BY <1>7, Values, NumbersAssumption DEF IntType, IntMin, IntMax
<1>8. CASE n > 0
  <2>1. n * f <= w /\ n * f > 0
    <3>1. b = n /\ a = w
      BY <1>1, <1>2, <1>6, <1>8
    <3>2. n * f <= w
      BY <1>6, <1>8, <3>1
    <3>3. QED
      BY <1>1, <1>8, <3>2
  <2> HIDE DEF w
  <2>2. QED
    BY <1>1, <1>2, <2>1, NumbersAssumption DEF IntType, IntMin, IntMax
<1>9. CASE n < 0
  <2>1. w <= n * f /\ n * f < 0
    <3>1. b = - n /\ a = - w
      BY <1>1, <1>2, <1>6, <1>9
    <3>2. (- n) * f <= - w
      BY <1>6, <1>9, <3>1
    <3>3. (- n) * f = - (n * f) /\ (- n) * f > 0
      BY <1>1, <1>9
    <3> HIDE DEF w
    <3>4. QED
      BY <1>1, <1>2, <3>2, <3>3
  <2> HIDE DEF w
  <2>2. QED
    BY <1>1, <1>2, <2>1, NumbersAssumption DEF IntType, IntMin, IntMax
<1>10. QED
  BY <1>1, <1>7, <1>8, <1>9

-----------------------------------------------------------------------------
(* The operations as Instants sees them *)

\* Nothing to be seen of a call that fails; a value for all that share the result
\* of one that succeeds, or one for r alone.
Hidden == UNCHANGED <<Shows, Sharers, BaseTime>>
Failed == outcome' # "success" /\ Hidden
Overwrites(r, x) == outcome' = "success" /\ I!Overwrite(r, x) /\ UNCHANGED BaseTime
Replaces(r, x) == outcome' = "success" /\ I!Replace(r, x) /\ UNCHANGED BaseTime

\* Results that are written into what is there.
LEMMA IntoResultMap ==
  ASSUME IInv, IInv', NEW r \in Vars, NEW x \in Int, IntoResult(r, x)
  PROVE  /\ Failed \/ Overwrites(r, x)
         /\ ptr[r] = Nothing => Failed \/ Replaces(r, x)
<1>1. CASE Keeps /\ outcome' # "success"
  BY <1>1, KeepsMap DEF Hidden, Failed
<1>2. CASE outcome' = "success" /\ ptr[r] # Nothing /\ Writes(ptr[r], x)
  BY <1>2, WritesMap DEF Overwrites
<1>3. ASSUME outcome' = "success", ptr[r] = Nothing, NEW o, Places(r, o, x)
      PROVE  Overwrites(r, x) /\ Replaces(r, x)
  BY <1>3, PlacesMap DEF Overwrites, Replaces
<1>4. QED
  BY <1>1, <1>2, <1>3, IntoResultEffect

\* Results that replace what is there.
LEMMA NewResultMap ==
  ASSUME IInv, IInv', NEW r \in Vars, NEW x \in Int, NewResult(r, x)
  PROVE  Failed \/ Replaces(r, x)
<1>1. CASE Keeps /\ outcome' # "success"
  BY <1>1, KeepsMap DEF Hidden, Failed
<1>2. ASSUME outcome' = "success", NEW o, Places(r, o, x) PROVE Replaces(r, x)
  BY <1>2, PlacesMap DEF Replaces
<1>3. QED
  BY <1>1, <1>2, NewResultEffect

\* Of a call that fails nothing is to be seen.
LEMMA FailsMap == ASSUME NEW class, Fails(class) PROVE Failed
BY KeepsMap DEF Fails, Keeps, Hidden, Failed

\* The operands have the values that are shown.
LEMMA HeldShows ==
  ASSUME IInv, NEW v \in Vars, Has(v)
  PROVE  Shows[v] = Value(v) /\ Value(v) \in Int /\ Shows[v] # Nothing
BY HeldValue, Addresses DEF Shows

\* A conversion that the code accepts.
LEMMA ScaledMap ==
  ASSUME NEW n \in Counts \cup {0}, NEW f \in Factors, Accepted(n, f)
  PROVE  use.folded \/ n * f \in IntType
<1>1. n \in IntType
  BY NumbersAssumption, Values DEF IntType, IntMin, IntMax
<1>2. QED
  BY <1>1, AcceptedFits

\* What becomes of a call.
Seen(A) == Failed \/ (outcome' = "success" /\ A /\ UNCHANGED BaseTime)

\* New durations, and those that functions of one or two durations give.
LEMMA DurationMap == ASSUME IInv, IInv', DurationNext PROVE Seen(I!DurationNext)
<1>1. PICK r \in DurationVars :
    \/ \E n \in Counts \cup {0} :
         \/ DurationNewNs(r, n) /\ Is("new_ns", <<r, n>>)
         \/ \E f \in Factors : DurationNewScaled(r, n, f) /\ Is("new", <<r, n, f>>)
    \/ \E a \in DurationVars :
         \/ \E b \in DurationVars :
              \/ DurationAdd(r, a, b) /\ Is("add", <<r, a, b>>)
              \/ DurationSub(r, a, b) /\ Is("sub", <<r, a, b>>)
         \/ \E n \in Scalars :
              \/ DurationMultiply(r, a, n) /\ Is("multiply", <<r, a, n>>)
              \/ DurationDivide(r, a, n) /\ Is("divide", <<r, a, n>>)
         \/ \E h \in Halves :
              \/ DurationMultiplyF(r, a, h) /\ Is("multiply_f", <<r, a, h>>)
              \/ DurationDivideF(r, a, h) /\ Is("divide_f", <<r, a, h>>)
         \/ DurationSet(r, a) /\ Is("set", <<r, a>>)
         \/ DurationCopy(r, a) /\ Is("copy", <<r, a>>)
  BY DEF DurationNext
<1>2. DurationVars \subseteq Vars
  BY DEF Vars
<1>3. ASSUME NEW n \in Counts \cup {0}, DurationNewNs(r, n), Is("new_ns", <<r, n>>)
      PROVE  Seen(I!NewDuration(r))
  <2>1. n \in Int
    BY NumbersAssumption DEF IntType
  <2>2. Failed \/ Replaces(r, n)
    BY <1>2, <1>3, <2>1, NewResultMap DEF DurationNewNs
  <2>3. QED
    BY <1>3, <2>2 DEF Seen, Replaces, I!NewDuration, Is, I!Is
<1>4. ASSUME NEW n \in Counts \cup {0}, NEW f \in Factors, DurationNewScaled(r, n, f),
             Is("new", <<r, n, f>>)
      PROVE  Seen(I!NewDuration(r))
  <2>1. Product(n, f) \in Int
    BY NumbersAssumption, Values DEF Product, IntType
  <2>2. CASE Accepted(n, f)
    <3>1. Failed \/ Replaces(r, Wrap(n * f))
      BY <1>2, <1>4, <2>1, <2>2, NewResultMap
         DEF DurationNewScaled, DurationNewNs, Product
    <3>2. use.folded \/ n * f \in IntType
      BY <2>2, ScaledMap
    <3>3. QED
      BY <1>4, <3>1, <3>2 DEF Seen, Replaces, I!NewDuration, Is, I!Is
  <2>3. CASE ~ Accepted(n, f)
    BY <1>4, <2>3, FailsMap DEF DurationNewScaled, Seen
  <2>4. QED
    BY <2>2, <2>3
<1>5. ASSUME NEW a \in DurationVars, NEW b \in DurationVars,
             \/ DurationAdd(r, a, b) /\ Is("add", <<r, a, b>>)
             \/ DurationSub(r, a, b) /\ Is("sub", <<r, a, b>>)
      PROVE  Seen(I!Combine(r, a, b))
  <2>1. /\ Value(a) = Shows[a] /\ Shows[a] \in Int /\ Shows[a] # Nothing
        /\ Value(b) = Shows[b] /\ Shows[b] \in Int /\ Shows[b] # Nothing
    BY <1>2, <1>5, HeldShows DEF DurationAdd, DurationSub
  <2>2. Wrap(Shows[a] + Shows[b]) \in Int /\ Wrap(Shows[a] - Shows[b]) \in Int
    BY <2>1, Values
  <2>3. CASE DurationAdd(r, a, b) /\ Is("add", <<r, a, b>>)
    <3>1. Failed \/ Overwrites(r, Wrap(Shows[a] + Shows[b]))
      BY <1>2, <2>1, <2>2, <2>3, IntoResultMap DEF DurationAdd, Sum
    <3>2. QED
      BY <2>1, <2>3, <3>1 DEF Seen, Overwrites, I!Combine, Is, I!Is
  <2>4. CASE DurationSub(r, a, b) /\ Is("sub", <<r, a, b>>)
    <3>1. Failed \/ Overwrites(r, Wrap(Shows[a] - Shows[b]))
      BY <1>2, <2>1, <2>2, <2>4, IntoResultMap DEF DurationSub, Difference
    <3>2. QED
      BY <2>1, <2>4, <3>1 DEF Seen, Overwrites, I!Combine, Is, I!Is
  <2>5. QED
    BY <1>5, <2>3, <2>4
<1>6. ASSUME NEW a \in DurationVars, NEW n \in Int, DurationMultiply(r, a, n)
      PROVE  /\ Failed \/ Replaces(r, Wrap(Shows[a] * n))
             /\ Shows[a] # Nothing
  <2>1. Value(a) = Shows[a] /\ Shows[a] \in Int /\ Shows[a] # Nothing
    BY <1>2, <1>6, HeldShows DEF DurationMultiply
  <2>2. Wrap(Shows[a] * n) \in Int
    BY <2>1, Values
  <2>3. QED
    BY <1>2, <1>6, <2>1, <2>2, NewResultMap DEF DurationMultiply, Product
<1>7. ASSUME NEW a \in DurationVars, NEW n \in Int, DurationDivide(r, a, n)
      PROVE  /\ Failed \/ Replaces(r, Quotient(Shows[a], n))
             /\ Shows[a] # Nothing /\ n # 0
  <2>1. Value(a) = Shows[a] /\ Shows[a] \in Int /\ Shows[a] # Nothing /\ n # 0
    BY <1>2, <1>7, HeldShows DEF DurationDivide
  <2>2. Quotient(Shows[a], n) \in Int
    BY <2>1, QuotientIsInt
  <2>3. QED
    BY <1>2, <1>7, <2>1, <2>2, NewResultMap DEF DurationDivide
<1>8. /\ \A n \in Scalars : n \in Int
      /\ \A h \in Halves : Truncated(h) \in Int
  BY NumbersAssumption, QuotientIsInt DEF IntType, Truncated
<1>9. ASSUME NEW a \in DurationVars, NEW n \in Scalars,
             \/ DurationMultiply(r, a, n) /\ Is("multiply", <<r, a, n>>)
             \/ DurationDivide(r, a, n) /\ Is("divide", <<r, a, n>>)
      PROVE  Seen(Shows[a] # Nothing /\ I!Scale(r, a, n))
  BY <1>6, <1>7, <1>8, <1>9 DEF Seen, Replaces, I!Scale, Is, I!Is
<1>10. ASSUME NEW a \in DurationVars, NEW h \in Halves,
              \/ DurationMultiplyF(r, a, h) /\ Is("multiply_f", <<r, a, h>>)
              \/ DurationDivideF(r, a, h) /\ Is("divide_f", <<r, a, h>>)
       PROVE  Seen(Shows[a] # Nothing /\ I!ScaleF(r, a, h))
  BY <1>6, <1>7, <1>8, <1>10
     DEF Seen, Replaces, I!ScaleF, Is, I!Is, DurationMultiplyF, DurationDivideF
<1>11. ASSUME NEW a \in DurationVars,
              \/ DurationSet(r, a) /\ Is("set", <<r, a>>)
              \/ DurationCopy(r, a) /\ Is("copy", <<r, a>>)
       PROVE  Seen(I!Assign(r, a))
  <2>1. Value(a) = Shows[a] /\ Shows[a] \in Int /\ Shows[a] # Nothing
    BY <1>2, <1>11, HeldShows DEF DurationSet, DurationCopy
  <2>2. CASE DurationSet(r, a) /\ Is("set", <<r, a>>)
    <3>1. Failed \/ Overwrites(r, Shows[a])
      BY <1>2, <2>1, <2>2, IntoResultMap DEF DurationSet
    <3>2. Shows[r] # Nothing
      BY <1>2, <2>2, HeldShows DEF DurationSet
    <3>3. QED
      BY <2>1, <2>2, <3>1, <3>2 DEF Seen, Overwrites, I!Assign, Is, I!Is
  <2>3. CASE DurationCopy(r, a) /\ Is("copy", <<r, a>>)
    <3>1. Failed \/ Replaces(r, Shows[a])
      BY <1>2, <2>1, <2>3, NewResultMap DEF DurationCopy
    <3>2. QED
      BY <2>1, <2>3, <3>1 DEF Seen, Replaces, I!Assign, Is, I!Is
  <2>4. QED
    BY <1>11, <2>2, <2>3
<1>12. QED
  BY <1>1, <1>3, <1>4, <1>5, <1>9, <1>10, <1>11 DEF Seen, I!DurationNext

\* Those of time points; the difference of two is a duration.
LEMMA TimePointMap ==
  ASSUME IInv, IInv', TimePointNext
  PROVE  Seen(I!DurationNext \/ I!TimeNext)
<1>1. PICK r \in TimeVars :
    \/ TimePointNew(r) /\ Is("time_point_new", <<r>>)
    \/ \E a \in TimeVars :
         \/ TimePointSet(r, a) /\ Is("set", <<r, a>>)
         \/ TimePointCopy(r, a) /\ Is("copy", <<r, a>>)
         \/ \E d \in DurationVars :
              \/ TimePointAddDur(r, a, d) /\ Is("add_dur", <<r, a, d>>)
              \/ TimePointSubDur(r, a, d) /\ Is("sub_dur", <<r, a, d>>)
              \/ TimePointAdd(r, a, d) /\ Is("time_point_add", <<r, a, d>>)
              \/ TimePointSub(d, r, a) /\ Is("time_point_sub", <<d, r, a>>)
  BY DEF TimePointNext
<1>2. DurationVars \subseteq Vars /\ TimeVars \subseteq Vars
  BY DEF Vars
<1>3. CASE TimePointNew(r) /\ Is("time_point_new", <<r>>)
  <2>1. ptr[r] = Nothing /\ (Failed \/ Replaces(r, 0))
    BY <1>2, <1>3, IntoResultMap DEF TimePointNew
  <2>2. Shows[r] = Nothing
    BY <1>2, <2>1 DEF Shows
  <2>3. QED
    BY <1>3, <2>1, <2>2 DEF Seen, Replaces, I!TimeNext, Is, I!Is
<1>4. ASSUME NEW a \in TimeVars,
             \/ TimePointSet(r, a) /\ Is("set", <<r, a>>)
             \/ TimePointCopy(r, a) /\ Is("copy", <<r, a>>)
      PROVE  Seen(I!Assign(r, a))
  <2>1. Value(a) = Shows[a] /\ Shows[a] \in Int /\ Shows[a] # Nothing
    BY <1>2, <1>4, HeldShows DEF TimePointSet, TimePointCopy
  <2>2. CASE TimePointSet(r, a) /\ Is("set", <<r, a>>)
    <3>1. Failed \/ Overwrites(r, Shows[a])
      BY <1>2, <2>1, <2>2, IntoResultMap DEF TimePointSet
    <3>2. Shows[r] # Nothing
      BY <1>2, <2>2, HeldShows DEF TimePointSet
    <3>3. QED
      BY <2>1, <2>2, <3>1, <3>2 DEF Seen, Overwrites, I!Assign, Is, I!Is
  <2>3. CASE TimePointCopy(r, a) /\ Is("copy", <<r, a>>)
    <3>1. Failed \/ Replaces(r, Shows[a])
      BY <1>2, <2>1, <2>3, NewResultMap DEF TimePointCopy
    <3>2. QED
      BY <2>1, <2>3, <3>1 DEF Seen, Replaces, I!Assign, Is, I!Is
  <2>4. QED
    BY <1>4, <2>2, <2>3
<1>5. ASSUME NEW a \in TimeVars, NEW d \in DurationVars,
             \/ TimePointAddDur(r, a, d) /\ Is("add_dur", <<r, a, d>>)
             \/ TimePointSubDur(r, a, d) /\ Is("sub_dur", <<r, a, d>>)
             \/ TimePointAdd(r, a, d) /\ Is("time_point_add", <<r, a, d>>)
      PROVE  Seen(I!Move(r, a, d))
  <2>1. /\ Value(a) = Shows[a] /\ Shows[a] \in Int /\ Shows[a] # Nothing
        /\ Value(d) = Shows[d] /\ Shows[d] \in Int /\ Shows[d] # Nothing
    BY <1>2, <1>5, HeldShows DEF TimePointAddDur, TimePointSubDur, TimePointAdd
  <2>2. Wrap(Shows[a] + Shows[d]) \in Int /\ Wrap(Shows[a] - Shows[d]) \in Int
    BY <2>1, Values
  <2>3. CASE TimePointAddDur(r, a, d) /\ Is("add_dur", <<r, a, d>>)
    <3>1. Failed \/ Overwrites(r, Wrap(Shows[a] + Shows[d]))
      BY <1>2, <2>1, <2>2, <2>3, IntoResultMap DEF TimePointAddDur, Sum
    <3>2. QED
      BY <2>1, <2>3, <3>1 DEF Seen, Overwrites, I!Move, Is, I!Is
  <2>4. CASE \/ TimePointSubDur(r, a, d) /\ Is("sub_dur", <<r, a, d>>)
             \/ TimePointAdd(r, a, d) /\ Is("time_point_add", <<r, a, d>>)
    <3>1. Failed \/ Overwrites(r, Wrap(Shows[a] - Shows[d]))
      BY <1>2, <2>1, <2>2, <2>4, IntoResultMap
         DEF TimePointAdd, TimePointSubDur, Difference
    <3>2. QED
      BY <2>1, <2>4, <3>1 DEF Seen, Overwrites, I!Move, Is, I!Is
  <2>5. QED
    BY <1>5, <2>3, <2>4
<1>6. ASSUME NEW a \in TimeVars, NEW d \in DurationVars, TimePointSub(d, r, a),
             Is("time_point_sub", <<d, r, a>>)
      PROVE  Seen(I!Between(d, r, a))
  <2>1. /\ Value(r) = Shows[r] /\ Shows[r] \in Int /\ Shows[r] # Nothing
        /\ Value(a) = Shows[a] /\ Shows[a] \in Int /\ Shows[a] # Nothing
    BY <1>2, <1>6, HeldShows DEF TimePointSub
  <2>2. Wrap(Shows[r] - Shows[a]) \in Int
    BY <2>1, Values
  <2>3. Failed \/ Overwrites(d, Wrap(Shows[r] - Shows[a]))
    BY <1>2, <1>6, <2>1, <2>2, IntoResultMap DEF TimePointSub, Difference
  <2>4. QED
    BY <1>6, <2>1, <2>3 DEF Seen, Overwrites, I!Between, Is, I!Is
<1>7. QED
  BY <1>1, <1>3, <1>4, <1>5, <1>6 DEF Seen, I!DurationNext, I!TimeNext

\* Those of the clock.
LEMMA ClockNextMap ==
  ASSUME IInv, IInv', now' = now, ClockNext
  PROVE  \/ Seen(I!ClockReads)
         \/ outcome' = "success" /\ (I!SetBase \/ I!ClockComesOrGoes)
<1>1. DurationVars \subseteq Vars /\ TimeVars \subseteq Vars /\ now \in Int
  BY NumbersAssumption DEF Vars, IInv, Typed
<1>2. base # Nothing => BaseTime # Nothing /\ BaseTime \in Int /\ BaseTime = mem[base].value
  BY BaseDesignated, Addresses DEF BaseTime
<1>3. CASE ClockNew /\ Is("clock_new", <<>>)
  <2>1. \/ Keeps /\ outcome' # "success"
        \/ outcome' = "success" /\ \E o : StartsClock(o)
    BY <1>3 DEF ClockNew, ClockInit, StartsClock, Free, NoMemory, Fails, Keeps, Succeeds
  <2>2. QED
    BY <1>3, <2>1, KeepsMap, ClockMap
       DEF Seen, Failed, Hidden, I!ClockComesOrGoes, Is, I!Is
<1>4. CASE ClockDestroy /\ Is("clock_destroy", <<>>)
  <2>1. outcome' = "success" /\ StopsClock
    BY <1>4 DEF ClockDestroy, StopsClock, Succeeds
  <2>2. QED
    BY <1>4, <2>1, ClockMap DEF I!ClockComesOrGoes, Is, I!Is
<1>5. CASE ClockSetBaseTimeNow /\ Is("set_base_time_now", <<>>)
  <2>1. base # Nothing /\ Writes(base, now) /\ outcome' = "success"
    BY <1>1, <1>5, BaseDesignated DEF ClockSetBaseTimeNow, Writes, Succeeds
  <2>2. BaseTime' = now /\ BaseTime # Nothing /\ UNCHANGED <<Shows, Sharers>>
    BY <2>1, ClockMap
  <2>3. QED
    BY <1>5, <2>1, <2>2 DEF I!SetBase, Is, I!Is
<1>6. CASE ClockCompareFails \/ ClockCopyFails
  BY <1>6, FailsMap DEF ClockCompareFails, ClockCopyFails, Seen
<1>7. ASSUME NEW v \in TimeVars, ClockTime(v), Is("clock_time", <<v>>)
      PROVE  Seen(I!ClockReads)
  <2>1. base # Nothing /\ (Failed \/ Overwrites(v, now))
    BY <1>1, <1>7, IntoResultMap DEF ClockTime
  <2>2. QED
    BY <1>2, <1>7, <2>1 DEF Seen, Overwrites, I!ClockReads, Is, I!Is
<1>8. ASSUME NEW v \in TimeVars, ClockSetBaseTime(v), Is("set_base_time", <<v>>)
      PROVE  outcome' = "success" /\ I!SetBase
  <2>1. Value(v) = Shows[v] /\ Shows[v] \in Int /\ Shows[v] # Nothing
    BY <1>1, <1>8, HeldShows DEF ClockSetBaseTime
  <2>2. base # Nothing /\ Writes(base, Shows[v]) /\ outcome' = "success"
    BY <1>8, <2>1, BaseDesignated DEF ClockSetBaseTime, Writes, Succeeds
  <2>3. BaseTime' = Shows[v] /\ BaseTime # Nothing /\ UNCHANGED <<Shows, Sharers>>
    BY <2>2, ClockMap
  <2>4. QED
    BY <1>8, <2>1, <2>2, <2>3 DEF I!SetBase, Is, I!Is
<1>9. ASSUME NEW d \in DurationVars, ClockDuration(d), Is("clock_duration", <<d>>)
      PROVE  Seen(I!ClockReads)
  <2>1. base # Nothing
    BY <1>9 DEF ClockDuration
  <2>2. Wrap(now - BaseTime) \in Int
    BY <1>1, <1>2, <2>1, Values
  <2>3. Failed \/ Overwrites(d, Wrap(now - BaseTime))
    BY <1>1, <1>2, <1>9, <2>1, <2>2, IntoResultMap, FailsMap
       DEF ClockDuration, NoMemory, Difference
  <2>4. QED
    BY <1>2, <1>9, <2>1, <2>3 DEF Seen, Overwrites, I!ClockReads, Is, I!Is
<1>10. QED
  BY <1>3, <1>4, <1>5, <1>6, <1>7, <1>8, <1>9 DEF ClockNext

\* Those that all instances have.
LEMMA ObjectMap == ASSUME IInv, IInv', ObjectNext PROVE Seen(I!ObjectNext)
<1>1. ASSUME NEW v \in Vars, NEW w \in Vars, Ref(v, w), Is("ref", <<v, w>>)
      PROVE  Seen(I!ObjectNext)
  <2>1. Shares(v, w) /\ outcome' = "success"
    BY <1>1 DEF Ref, Shares, Has, Succeeds
  <2>2. /\ UNCHANGED BaseTime /\ I!Share(v, w)
        /\ \E S \in {DurationVars, TimeVars} : v \in S /\ w \in S
    BY <2>1, SharesMap
  <2>3. QED
    BY <1>1, <2>1, <2>2 DEF Seen, I!ObjectNext, Is, I!Is
<1>2. ASSUME NEW v \in Vars, NEW w \in Vars, CompareFails(v, w)
      PROVE  Seen(I!ObjectNext)
  BY <1>2, FailsMap DEF CompareFails, Seen
<1>3. ASSUME NEW v \in Vars, Decref(v), Is("decref", <<v>>)
      PROVE  Seen(I!ObjectNext)
  <2>1. Drops(v) /\ outcome' = "success"
    BY <1>3 DEF Decref, Drops, Has, Succeeds
  <2>2. I!Replace(v, Nothing) /\ UNCHANGED BaseTime
    BY <2>1, DropsMap
  <2>3. QED
    BY <1>3, <2>1, <2>2 DEF Seen, I!ObjectNext, Is, I!Is, I!Vars, Vars
<1>4. QED
  BY <1>1, <1>2, <1>3 DEF ObjectNext

\* The first states are first states of Instants.
LEMMA InitMap == TimeInit => I!Init
<1>1. SUFFICES ASSUME TimeInit PROVE I!Init
  OBVIOUS
<1>2. Shows = [v \in Vars |-> Nothing] /\ BaseTime = Nothing
  BY <1>1 DEF TimeInit, Shows, BaseTime
<1>3. Sharers = [v \in Vars |-> {v}]
  <2>1. \A v \in Vars : {w \in Vars : w = v \/ (ptr[v] # Nothing /\ ptr[w] = ptr[v])} = {v}
    BY <1>1 DEF TimeInit
  <2>2. QED
    BY <2>1 DEF Sharers
<1>4. use.folded \in BOOLEAN /\ now = 0 /\ 0 \in IntType
  BY <1>1, VarsAssumption, Values, NumbersAssumption DEF TimeInit, IntType, IntMin, IntMax
<1>5. outcome = Nothing /\ call = Nothing
  BY <1>1 DEF TimeInit
<1>6. QED
  BY <1>2, <1>3, <1>4, <1>5 DEF I!Init, I!Vars, Vars

\* Every step is one of Instants, or changes nothing there.
LEMMA StepMap == ASSUME IInv, IInv', [TimeNext]_timevars PROVE [I!Next]_I!vars
<1>1. CASE UNCHANGED timevars
  <2>1. Hidden /\ UNCHANGED <<now, outcome, call, use>>
    BY <1>1, KeepsMap DEF timevars, Keeps, Hidden
  <2>2. QED
    BY <2>1 DEF Hidden, I!vars
<1>2. CASE Tick
  <2>1. Hidden /\ now' > now /\ UNCHANGED use /\ outcome' = Nothing /\ call' = Nothing
    BY <1>2, KeepsMap DEF Tick, Keeps, Hidden, IInv, Typed
  <2>2. QED
    BY <2>1 DEF Hidden, I!Next, I!Tick
<1>3. ASSUME UNCHANGED <<now, use>>, Hidden, outcome' # "success" PROVE I!Next
  BY <1>3 DEF Hidden, I!Next, I!Failure
<1>4. CASE ErrorDecref /\ UNCHANGED <<now, use>>
  BY <1>3, <1>4, KeepsMap, VarsAssumption DEF ErrorDecref, Keeps, Hidden
<1>5. CASE DurationNext /\ UNCHANGED <<now, use>>
  BY <1>3, <1>5, DurationMap DEF Seen, Failed, I!Next, I!Success
<1>6. CASE TimePointNext /\ UNCHANGED <<now, use>>
  BY <1>3, <1>6, TimePointMap DEF Seen, Failed, I!Next, I!Success
<1>7. CASE ClockNext /\ UNCHANGED <<now, use>>
  BY <1>3, <1>7, ClockNextMap DEF Seen, Failed, I!Next, I!Success
<1>8. CASE ObjectNext /\ UNCHANGED <<now, use>>
  BY <1>3, <1>8, ObjectMap DEF Seen, Failed, I!Next, I!Success
<1>9. QED
  BY <1>1, <1>2, <1>4, <1>5, <1>6, <1>7, <1>8 DEF TimeNext

\* Instances, counts and addresses implement variables with values: a result has
\* the value computed from what the operands were before the call, whichever of
\* them it replaces; a value that is shared changes for all who share it; the base
\* time changes by set_base_time only; and no build that keeps the tests for overflow
\* accepts a number of units whose nanoseconds do not fit.
THEOREM TimesImplementInstants == TimeSpec => ImplementsInstants
<1>1. IInv /\ IInv' /\ [TimeNext]_timevars => [I!Next]_I!vars
  BY StepMap
<1>2. QED
  BY InitMap, AlwaysInv, <1>1, PTL DEF TimeSpec, ImplementsInstants, I!Spec
=============================================================================
