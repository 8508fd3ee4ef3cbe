---------------------------------- MODULE Time ----------------------------------
(***************************************************************************)
(* SeeDuration, SeeTimePoint and SeeClock (src/src/Duration.cpp,           *)
(* TimePoint.cpp, Clock.cpp and the C++ classes in src/src/cpp), used by   *)
(* one thread.                                                             *)
(*                                                                         *)
(* A variable of a client designates an instance, with a count of the      *)
(* variables that do.  Some operations write their result into the         *)
(* instance that *result designates, so that every other variable of that  *)
(* instance sees it; others put a new instance in its place.  The result   *)
(* may be one of the operands.  The clock owns the instance of its base    *)
(* time.                                                                   *)
(*                                                                         *)
(* The numbers are those of int64_t with a smaller width; sums and         *)
(* products wrap around.  The product in see_duration_new_s and its like   *)
(* is tested for overflow after the fact, which C++ does not define: a     *)
(* compiler may drop the test.                                             *)
(*                                                                         *)
(* outcome is what the last call returned; call is a history variable, the *)
(* last call itself, which no action reads: it lets Instants say what each *)
(* function gives.                                                         *)
(***************************************************************************)
EXTENDS Integers, FiniteSets

CONSTANTS DurationVars, TimeVars, \* the clients' variables of the two types
          Uses,                   \* what a run may use, see use
          DurationMem, TimeMem,   \* addresses of instances
          Modulus,                \* 2 ^ the width of the integers
          Counts,                 \* how many units a duration is made of
          Factors,                \* the nanoseconds in a unit
          Scalars,                \* integers to multiply with and divide by
          Halves,                 \* halves[i] / 2 are the doubles to scale with
          MaxNow,                 \* bound: when the clock stops
          MemFail,                \* an allocation may fail
          Nothing                 \* NULL, and what a call returned when there was none

Vars == DurationVars \cup TimeVars
Mem == DurationMem \cup TimeMem
IntMin == - (Modulus \div 2)
IntMax == Modulus \div 2 - 1
IntType == IntMin .. IntMax

ASSUME VarsAssumption ==
  /\ IsFiniteSet(Vars) /\ DurationVars \cap TimeVars = {}
  /\ Uses \subseteq [vars : SUBSET Vars, clock : BOOLEAN, folded : BOOLEAN]
  /\ DurationMem \subseteq Nat /\ TimeMem \subseteq Nat
  /\ DurationMem \cap TimeMem = {}
  /\ Nothing # "success" /\ Nothing \notin Int
  /\ Nothing \notin [value : Int, count : Nat]

ASSUME NumbersAssumption ==
  /\ Modulus \in Nat /\ Modulus >= 4 /\ Modulus % 2 = 0
  /\ Counts \subseteq IntType /\ Factors \subseteq 1 .. IntMax
  /\ Scalars \subseteq IntType
  /\ Halves \subseteq Int
  /\ MaxNow \in 0 .. IntMax
  /\ MemFail \in BOOLEAN

VARIABLES ptr,    \* ptr[v]: the instance that v designates, or Nothing
          mem,    \* mem[o]: the instance [value, count] at o, or Nothing
          base,   \* the clock's base_time, or Nothing when there is no clock
          now,    \* what the system's steady clock shows
          error,  \* the class of the client's error, or Nothing
          outcome, \* what a call returned, or Nothing after a step that is no call
          call,   \* which call that was, with its arguments
          use     \* the variables in use, whether the clock is, and whether the
                  \* build has lost the tests for overflow; never changes

timevars == <<ptr, mem, base, now, error, outcome, call, use>>

Used == use.vars
Has(v) == v \in Used /\ ptr[v] # Nothing
Value(v) == mem[ptr[v]].value

\* Two's complement.
Wrap(n) == ((n - IntMin) % Modulus) + IntMin

\* The division of C rounds towards 0.
Quotient(n, d) ==
  LET Abs(x) == IF x < 0 THEN - x ELSE x
      q == Abs(n) \div Abs(d)
  IN  IF (n < 0) = (d < 0) THEN q ELSE - q

\* The operators of the C++ classes; a double is converted to an int64_t.
Sum(x, y) == Wrap(x + y)
Difference(x, y) == Wrap(x - y)
Product(x, n) == Wrap(x * n)
Truncated(h) == Quotient(h, 2)

-----------------------------------------------------------------------------
(* Instances: the addresses of variable v's type, a new instance, and the   *)
(* loss of a reference.  Which free address an allocation gives does not    *)
(* matter; it is the lowest.                                                *)

AddressesFor(v) == IF v \in DurationVars THEN DurationMem ELSE TimeMem

Free(S) == {o \in S : mem[o] = Nothing /\ \A q \in S : mem[q] = Nothing => o <= q}

With(m, o, x) == [m EXCEPT ![o] = [value |-> x, count |-> 1]]

Without(m, o) ==
  IF o = Nothing THEN m
  ELSE [m EXCEPT ![o] = IF @.count = 1 THEN Nothing
                        ELSE [value |-> @.value, count |-> @.count - 1]]

\* A call that fails makes an error of some class, if there is memory for one.
Fails(class) ==
  /\ outcome' = "failed"
  /\ error' \in {class} \cup (IF MemFail THEN {Nothing} ELSE {})
  /\ UNCHANGED <<ptr, mem, base>>

\* calloc in object_new fails without an error object, new in C++ with one.
NoMemory == MemFail /\ Fails("SeeError")

Succeeds == outcome' = "success" /\ UNCHANGED error

\* The result x is written into the instance that r designates, if it does.
IntoResult(r, x) ==
  \/ /\ Has(r)
     /\ mem' = [mem EXCEPT ![ptr[r]].value = x]
     /\ Succeeds /\ UNCHANGED <<ptr, base>>
  \/ /\ r \in Used /\ ptr[r] = Nothing
     /\ \E o \in Free(AddressesFor(r)) :
          mem' = With(mem, o, x) /\ ptr' = [ptr EXCEPT ![r] = o]
     /\ Succeeds /\ UNCHANGED base
  \/ r \in Used /\ ptr[r] = Nothing /\ NoMemory

\* (A changed form of NewResult.)  The old instance is forgotten, not released.
NewResultLeaks(r, x) ==
  /\ r \in Used
  /\ \/ /\ \E o \in Free(AddressesFor(r)) :
             mem' = With(mem, o, x) /\ ptr' = [ptr EXCEPT ![r] = o]
        /\ Succeeds /\ UNCHANGED base
     \/ NoMemory

\* (Another.)  The old instance is released before the allocation.
NewResultDropsFirst(r, x) ==
  /\ r \in Used
  /\ \/ /\ \E o \in Free(AddressesFor(r)) :
             mem' = Without(With(mem, o, x), ptr[r]) /\ ptr' = [ptr EXCEPT ![r] = o]
        /\ Succeeds /\ UNCHANGED base
     \/ /\ MemFail /\ error' = "SeeError" /\ outcome' = "failed"
        /\ mem' = Without(mem, ptr[r]) /\ ptr' = [ptr EXCEPT ![r] = Nothing]
        /\ UNCHANGED base

\* A new instance with the value x takes the place of what r designates.
NewResult(r, x) ==
  /\ r \in Used
  /\ \/ /\ \E o \in Free(AddressesFor(r)) :
             mem' = Without(With(mem, o, x), ptr[r]) /\ ptr' = [ptr EXCEPT ![r] = o]
        /\ Succeeds /\ UNCHANGED base
     \/ NoMemory

-----------------------------------------------------------------------------
(* Changed forms of the operations below, for the mutation runs. *)

\* see_duration_multiply gives up *result before it has read *self.
MultiplyLate(r, a, n) ==
  /\ Has(a) /\ r \in Used
  /\ \E o \in Free(DurationMem) :
       LET gone == Without(With(mem, o, 0), ptr[r])
       IN  /\ mem' \in {[gone EXCEPT ![o].value = x] :
                           x \in IF gone[ptr[a]] = Nothing THEN IntType
                                 ELSE {Product(Value(a), n)}}
           /\ ptr' = [ptr EXCEPT ![r] = o]
  /\ Succeeds /\ UNCHANGED base

\* time_point_compare trusts its second argument.
TimePointCompareTrusts(v, w) ==
  {IF Value(v) > Value(w) THEN 1 ELSE IF Value(v) = Value(w) THEN 0 ELSE -1}

-----------------------------------------------------------------------------
TimeInit ==
  /\ ptr = [v \in Vars |-> Nothing]
  /\ mem = [o \in Mem |-> Nothing]
  /\ base = Nothing
  /\ now = 0
  /\ error = Nothing
  /\ outcome = Nothing /\ call = Nothing
  /\ use \in Uses

(* SeeDuration *)

\* see_duration_new_ns, and see_duration_new for n = 0.
DurationNewNs(r, n) == NewResult(r, n)

\* The test after the product: n == 0 || ns_result / n == factor.
Accepted(n, factor) ==
  use.folded \/ n = 0 \/ Quotient(Product(n, factor), n) = factor

\* see_duration_new_s, see_duration_new_ms and see_duration_new_us.
DurationNewScaled(r, n, factor) ==
  IF Accepted(n, factor) THEN DurationNewNs(r, Product(n, factor))
  ELSE r \in Used /\ Fails("SeeRuntimeError")

\* see_duration_set.
DurationSet(r, a) == Has(r) /\ Has(a) /\ IntoResult(r, Value(a))

\* see_duration_add and see_duration_sub.
DurationAdd(r, a, b) ==
  Has(a) /\ Has(b) /\ IntoResult(r, Sum(Value(a), Value(b)))
DurationSub(r, a, b) ==
  Has(a) /\ Has(b) /\ IntoResult(r, Difference(Value(a), Value(b)))

\* see_duration_multiply.
DurationMultiply(r, a, n) == Has(a) /\ NewResult(r, Product(Value(a), n))

\* see_duration_divide, by a number that the processor can divide by.
DurationDivide(r, a, n) ==
  /\ Has(a)
  /\ n # 0 /\ ~ (n = -1 /\ Value(a) = IntMin)
  /\ NewResult(r, Quotient(Value(a), n))

\* see_duration_multiply_f and see_duration_divide_f by h / 2: the operators *=
\* and /= of std::chrono take an int64_t.
DurationMultiplyF(r, a, h) == DurationMultiply(r, a, Truncated(h))
DurationDivideF(r, a, h) == DurationDivide(r, a, Truncated(h))

\* duration_copy, by see_object_copy.
DurationCopy(r, a) == Has(a) /\ NewResult(r, Value(a))

(* SeeTimePoint *)

\* see_time_point_new.
TimePointNew(r) == r \in Used /\ ptr[r] = Nothing /\ IntoResult(r, 0)

\* see_time_point_set.
TimePointSet(r, a) == Has(r) /\ Has(a) /\ IntoResult(r, Value(a))

\* see_time_point_add_dur, and see_time_point_sub_dur, which does what the
\* method sub_dur does.
TimePointAddDur(r, a, d) ==
  Has(a) /\ Has(d) /\ IntoResult(r, Sum(Value(a), Value(d)))
TimePointSubDur(r, a, d) ==
  Has(a) /\ Has(d) /\ IntoResult(r, Difference(Value(a), Value(d)))

\* see_time_point_add: the method add_dur subtracts.
TimePointAdd(r, a, d) == TimePointSubDur(r, a, d)

\* see_time_point_sub.
TimePointSub(r, a, b) ==
  Has(a) /\ Has(b) /\ IntoResult(r, Difference(Value(a), Value(b)))

\* time_point_copy.
TimePointCopy(r, a) == Has(a) /\ NewResult(r, Value(a))

(* SeeClock *)

\* clock_init: the base time is made first, and destroyed with the clock when the
\* C++ object cannot be made.
ClockInit ==
  \/ /\ \E o \in Free(TimeMem) : mem' = With(mem, o, 0) /\ base' = o
     /\ Succeeds /\ UNCHANGED ptr
  \/ NoMemory

\* see_clock_new, for a client whose *out is NULL.
ClockNew == base = Nothing /\ ClockInit

\* see_object_decref of the clock: clock_destroy.
ClockDestroy ==
  /\ base # Nothing
  /\ mem' = Without(mem, base) /\ base' = Nothing
  /\ Succeeds /\ UNCHANGED ptr

\* see_clock_time.
ClockTime(r) == base # Nothing /\ IntoResult(r, now)

\* see_clock_duration: the time point it makes for the present is gone when it
\* returns, if it could be made.
ClockDuration(r) ==
  /\ base # Nothing
  /\ \/ IntoResult(r, Difference(now, mem[base].value))
     \/ r \in Used /\ NoMemory

\* see_clock_set_base_time to the value of a time point, or to the present.
ClockSetBaseTime(v) ==
  /\ base # Nothing /\ Has(v)
  /\ mem' = [mem EXCEPT ![base].value = Value(v)]
  /\ Succeeds /\ UNCHANGED <<ptr, base>>
ClockSetBaseTimeNow ==
  /\ base # Nothing
  /\ mem' = [mem EXCEPT ![base].value = now]
  /\ Succeeds /\ UNCHANGED <<ptr, base>>

(* SeeObject *)

\* duration_compare and time_point_compare: the sign of the difference, or
\* nothing when the other instance is of another class.
DurationCompare(v, w) ==
  IF w \notin DurationVars THEN {}
  ELSE {IF Value(v) < Value(w) THEN -1 ELSE IF Value(v) = Value(w) THEN 0 ELSE 1}

TimePointCompare(v, w) ==
  IF w \notin TimeVars THEN {}
  ELSE {IF Value(v) > Value(w) THEN 1 ELSE IF Value(v) = Value(w) THEN 0 ELSE -1}

Compare(v, w) ==
  IF v \in DurationVars THEN DurationCompare(v, w) ELSE TimePointCompare(v, w)

\* see_object_less to see_object_greater: what they answer about the outcome of
\* the compare method.
Answers(cmp) ==
  [less |-> cmp < 0, less_equal |-> cmp <= 0, equal |-> cmp = 0,
   not_equal |-> cmp # 0, greater_equal |-> cmp >= 0, greater |-> cmp > 0]

\* see_time_point_lt to see_time_point_gt compare without the methods.
TimePointAnswers(v, w) ==
  [lt |-> Value(v) < Value(w), lte |-> Value(v) <= Value(w),
   eq |-> Value(v) = Value(w),
   gte |-> Value(v) >= Value(w), gt |-> Value(v) > Value(w)]

\* see_duration_seconds and its like: the whole units in a duration.
Units(v, factor) == Quotient(Value(v), factor)

\* see_object_compare, or one of the six, for instances of different classes, or
\* for the clock, whose class has no compare method.
CompareFails(v, w) ==
  /\ Has(v) /\ Has(w) /\ Compare(v, w) = {}
  /\ Fails("SeeIncomparableError")
ClockCompareFails == base # Nothing /\ Fails("SeeIncomparableError")

\* see_object_copy of the clock, whose class has no copy method.
ClockCopyFails == base # Nothing /\ Fails("SeeCopyError")

\* see_object_ref, and see_object_decref.
Ref(from, to) ==
  /\ Has(from) /\ to \in Used /\ ptr[to] = Nothing
  /\ AddressesFor(from) = AddressesFor(to)
  /\ ptr' = [ptr EXCEPT ![to] = ptr[from]]
  /\ mem' = [mem EXCEPT ![ptr[from]].count = @ + 1]
  /\ Succeeds /\ UNCHANGED base

Decref(v) ==
  /\ Has(v)
  /\ mem' = Without(mem, ptr[v]) /\ ptr' = [ptr EXCEPT ![v] = Nothing]
  /\ Succeeds /\ UNCHANGED base

-----------------------------------------------------------------------------
\* The call that the step is.
Is(name, args) == call' = <<name, args>>

DurationNext ==
  \E r \in DurationVars :
    \/ \E n \in Counts \cup {0} :
         \/ DurationNewNs(r, n) /\ Is("new_ns", <<r, n>>)
         \/ \E f \in Factors : DurationNewScaled(r, n, f) /\ Is("new", <<r, n, f>>)
    \/ \E a \in DurationVars :
         \/ \E b \in DurationVars :
              \/ DurationAdd(r, a, b) /\ Is("add", <<r, a, b>>)
              \/ DurationSub(r, a, b) /\ Is("sub", <<r, a, b>>)
         \/ \E n \in Scalars :
              \/ DurationMultiply(r, a, n) /\ Is("multiply", <<r, a, n>>)
              \/ DurationDivide(r, a, n) /\ Is("divide", <<r, a, n>>)
         \/ \E h \in Halves :
              \/ DurationMultiplyF(r, a, h) /\ Is("multiply_f", <<r, a, h>>)
              \/ DurationDivideF(r, a, h) /\ Is("divide_f", <<r, a, h>>)
         \/ DurationSet(r, a) /\ Is("set", <<r, a>>)
         \/ DurationCopy(r, a) /\ Is("copy", <<r, a>>)

TimePointNext ==
  \E r \in TimeVars :
    \/ TimePointNew(r) /\ Is("time_point_new", <<r>>)
    \/ \E a \in TimeVars :
         \/ TimePointSet(r, a) /\ Is("set", <<r, a>>)
         \/ TimePointCopy(r, a) /\ Is("copy", <<r, a>>)
         \/ \E d \in DurationVars :
              \/ TimePointAddDur(r, a, d) /\ Is("add_dur", <<r, a, d>>)
              \/ TimePointSubDur(r, a, d) /\ Is("sub_dur", <<r, a, d>>)
              \/ TimePointAdd(r, a, d) /\ Is("time_point_add", <<r, a, d>>)
              \/ TimePointSub(d, r, a) /\ Is("time_point_sub", <<d, r, a>>)

ClockNext ==
  /\ use.clock
  /\ \/ ClockNew /\ Is("clock_new", <<>>)
     \/ ClockDestroy /\ Is("clock_destroy", <<>>)
     \/ ClockSetBaseTimeNow /\ Is("set_base_time_now", <<>>)
     \/ (ClockCompareFails \/ ClockCopyFails) /\ Is("refused", <<>>)
     \/ \E v \in TimeVars :
          \/ ClockTime(v) /\ Is("clock_time", <<v>>)
          \/ ClockSetBaseTime(v) /\ Is("set_base_time", <<v>>)
     \/ \E d \in DurationVars : ClockDuration(d) /\ Is("clock_duration", <<d>>)

ObjectNext ==
  \/ \E v, w \in Vars :
       \/ Ref(v, w) /\ Is("ref", <<v, w>>)
       \/ CompareFails(v, w) /\ Is("compare", <<v, w>>)
  \/ \E v \in Vars : Decref(v) /\ Is("decref", <<v>>)

\* Every function but see_object_ref, see_object_decref and the setters refuses
\* to work while *error is not NULL; so that a client frees it first.
ErrorDecref ==
  /\ error # Nothing /\ error' = Nothing
  /\ outcome' = Nothing /\ call' = Nothing
  /\ UNCHANGED <<ptr, mem, base>>

Tick ==
  /\ now < MaxNow /\ now' = now + 1
  /\ use.clock
  /\ outcome' = Nothing /\ call' = Nothing
  /\ UNCHANGED <<ptr, mem, base, error, use>>

TimeNext ==
  \/ /\ \/ error = Nothing /\ (DurationNext \/ TimePointNext \/ ClockNext \/ ObjectNext)
        \/ ErrorDecref
     /\ UNCHANGED <<now, use>>
  \/ Tick

TimeSpec == TimeInit /\ [][TimeNext]_timevars

-----------------------------------------------------------------------------
(* Properties *)

\* The count of an instance is the number of variables, base_time included, that
\* designate it, and an instance that nothing designates is gone: operations that
\* replace their result, and those that fail, lose no instance and free none that
\* is in use.
References(o) ==
  Cardinality({v \in Vars : ptr[v] = o}) + (IF base = o THEN 1 ELSE 0)
CountsExact ==
  \A o \in Mem : IF References(o) = 0 THEN mem[o] = Nothing
                 ELSE mem[o] # Nothing /\ mem[o].count = References(o)

\* A call that fails leaves every variable, every value and the base time alone.
FailureIsClean == [][outcome' = "failed" => UNCHANGED <<ptr, mem, base>>]_timevars

\* The comparisons order the instances of a class linearly by their values: the
\* six of see_object among themselves, for either order of the arguments, and with
\* those of see_time_point; whole units keep the order; and no two instances of
\* different classes are taken for comparable from either side.
OrderIsLinear ==
  \A v, w \in Vars : Has(v) /\ Has(w) =>
    /\ (Compare(v, w) = {}) = ((v \in DurationVars) # (w \in DurationVars))
    /\ \A c \in Compare(v, w), d \in Compare(w, v), f \in Factors :
         LET A == Answers(c)
             B == Answers(d)
             T == TimePointAnswers(v, w)
         IN  /\ A.less = B.greater /\ A.less_equal = B.greater_equal
             /\ A.equal = B.equal /\ A.equal = ~ A.not_equal
             /\ A.less_equal = (A.less \/ A.equal) /\ A.less = ~ A.greater_equal
             /\ T = [lt |-> A.less, lte |-> A.less_equal, eq |-> A.equal,
                      gte |-> A.greater_equal, gt |-> A.greater]
             /\ A.less_equal => Units(v, f) <= Units(w, f)

\* What the variables show, which of them show one instance, and the base time.
Shows == [v \in Vars |-> IF ptr[v] = Nothing THEN Nothing ELSE Value(v)]
Sharers ==
  [v \in Vars |-> {w \in Vars : w = v \/ (ptr[v] # Nothing /\ ptr[w] = ptr[v])}]
BaseTime == IF base = Nothing THEN Nothing ELSE mem[base].value

\* Instances, counts and addresses implement variables with values: what each
\* function gives is computed from what its operands were before the call,
\* whichever of them it replaces, and shows in the variables that share the result
\* and no other; the base time changes by set_base_time only; and no build that
\* keeps the tests for overflow accepts a number of seconds that does not fit.
I == INSTANCE Instants WITH
  val <- Shows,
  sharing <- Sharers,
  base <- BaseTime,
  ret <- outcome,
  NULL <- Nothing,
  folded <- use.folded

ImplementsInstants == I!Spec

\* see_time_point_add, and the method add_dur that it calls, add ("Add duration to
\* this time point", TimePoint.h:90).
AddsDuration ==
  [][\A r, a \in TimeVars, d \in DurationVars :
       outcome' = "success" /\ Is("time_point_add", <<r, a, d>>)
         => mem'[ptr'[r]].value = Sum(Value(a), Value(d))]_timevars
=============================================================================
