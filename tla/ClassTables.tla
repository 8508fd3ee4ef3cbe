----------------------------- MODULE ClassTables -----------------------------
(***************************************************************************)
(* Classes as tables of methods, and the objects that find their methods   *)
(* there (src/src/MetaClass.c, src/src/SeeObject.c, the error classes, and *)
(* the *_class_init and *_init of every class).                            *)
(*                                                                         *)
(* see_meta_class_new_class allocates a zeroed class struct, copies the    *)
(* first bytes of the parent's struct into it, as many as its caller says, *)
(* and calls a class_init function that sets what the class changes.  From *)
(* then on everything goes through the table: object_new calls the init    *)
(* method, which calls the initialiser slot of its own class, which calls  *)
(* the initialiser slot of the parent -- found, each time, in the class of *)
(* the object that is being made --, object_decref calls destroy, and a    *)
(* public function calls the slot of its name.                             *)
(*                                                                         *)
(* An object is what one pointer of a client designates; the references to *)
(* it are counted in SeeObject.  The contents of objects, and the text of  *)
(* an error, are left out.                                                 *)
(***************************************************************************)
EXTENDS Integers, Sequences, SequencesExt

CONSTANTS ObjPointers, \* variables of type SeeObject*, or of a class not derived from SeeError
          ErrPointers, \* variables of type SeeError*
          Orders,      \* the orders in which see_init makes the classes, one per platform
          NULL

-----------------------------------------------------------------------------
(* The slots that the class structs declare, besides those of the parent. *)

ObjectLifeSlots ==
  {"name", "new_obj", "object_init", "init", "destroy", "repr", "incref", "decref"}
Comparisons ==
  {"compare", "less", "less_equal", "equal", "not_equal", "greater_equal", "greater"}
ObjectSlots == ObjectLifeSlots \cup Comparisons \cup {"copy"}

MetaSlots == {"class_init"}

ErrorSlots == {"error_init", "msg", "set_msg"}
CopyErrorSlots == {"copy_error_init"}
IncomparableErrorSlots == {"incomparable_error_init"}
IndexErrorSlots == {"index_error_init"}
MsgInvalidErrorSlots == {"msg_invalid_error_init"}
MsgPartTypeErrorSlots == {"msg_part_type_error_init"}
OverflowErrorSlots == {"overflow_error_init"}
RuntimeErrorSlots == {"runtime_error_init"}
TimeoutErrorSlots == {"timeout_error_init"}
WindowsRuntimeErrorSlots == {"windows_runtime_error_init"}

ArrayElementSlots == {"array_init", "set", "get", "add", "pop_back"}
ArrayStorageSlots ==
  {"resize", "reserve", "shrink_to_fit", "insert", "shrink", "grow"}
StackSlots == {"stack_init", "top", "pop", "push"}

PartIntegerSlots ==
  {"write_int32", "get_int32", "write_uint32", "get_uint32", "write_int64",
   "get_int64", "write_uint64", "get_uint64"}
PartOtherSlots ==
  {"write_string", "get_string", "write_float", "get_float", "write_double",
   "get_double"}
PartWireSlots == {"buffer_length", "write", "read"}
MsgPartSlots ==
  {"msg_part_init", "length", "value_type"} \cup PartIntegerSlots
    \cup PartOtherSlots \cup PartWireSlots

MsgBufferPartSlots ==
  {"msg_buffer_init", "set_id", "get_id", "calc_length", "add_part", "get_part"}
MsgBufferWireSlots == {"num_parts", "get_buffer", "from_buffer", "msg_start"}

SerialDeviceSlots ==
  {"serial_init", "open", "close", "write", "read", "flush", "drain"}
SerialSettingSlots ==
  {"set_speed", "get_speed", "is_open", "set_timeout", "get_timeout",
   "set_min_rd_chars", "get_min_rd_chars", "fd"}
SerialMessageSlots == {"write_msg", "read_msg"}
SerialSlots == SerialDeviceSlots \cup SerialSettingSlots \cup SerialMessageSlots

ClockSlots == {"clock_init", "time", "duration", "set_base_time"}
DurationSlots == {"duration_init"}
TimePointSlots == {"time_point_init", "to_string", "add_dur", "sub_dur", "sub"}
RandomSlots == {"random_init"}

-----------------------------------------------------------------------------
(* The classes.  parent is the class handed to see_meta_class_new_class,   *)
(* copies the class whose struct has the size handed with it, own the      *)
(* slots of its struct, and sets the slots its class_init assigns.         *)

Class(parent, copies, own, sets) ==
  [parent |-> parent, copies |-> copies, own |-> own,
   sets |-> {"name", "init"} \cup sets]

ErrorSubclass(own) == Class("Error", "Error", own, own)

\* Changed forms, for the mutation runs: a class that sets the initialiser of its
\* parent, too; the size of the wrong struct; a destroy method that is missing.
CopyErrorClassTakesSlot ==
  Class("Error", "Error", CopyErrorSlots, {"error_init"} \cup CopyErrorSlots)
CopyErrorClassShort == Class("Error", "Object", CopyErrorSlots, CopyErrorSlots)
DynamicArrayClassNoDestroy ==
  Class("Object", "Object", ArrayElementSlots \cup ArrayStorageSlots,
        {"copy"} \cup ArrayElementSlots \cup ArrayStorageSlots)

MetaClass == Class("Object", "Object", MetaSlots, {"new_obj"} \cup MetaSlots)

ErrorClass == Class("Object", "Object", ErrorSlots, {"destroy"} \cup ErrorSlots)
CopyErrorClass == ErrorSubclass(CopyErrorSlots)
IncomparableErrorClass == ErrorSubclass(IncomparableErrorSlots)
IndexErrorClass == ErrorSubclass(IndexErrorSlots)
MsgInvalidErrorClass == ErrorSubclass(MsgInvalidErrorSlots)
MsgPartTypeErrorClass == ErrorSubclass(MsgPartTypeErrorSlots)
OverflowErrorClass == ErrorSubclass(OverflowErrorSlots)
RuntimeErrorClass == ErrorSubclass(RuntimeErrorSlots)
TimeoutErrorClass == ErrorSubclass(TimeoutErrorSlots)
WindowsRuntimeErrorClass == ErrorSubclass(WindowsRuntimeErrorSlots)

DynamicArrayClass ==
  Class("Object", "Object", ArrayElementSlots \cup ArrayStorageSlots,
        {"destroy", "copy"} \cup ArrayElementSlots \cup ArrayStorageSlots)
StackClass ==
  Class("Object", "Object", StackSlots, {"destroy", "copy"} \cup StackSlots)
MsgPartClass ==
  Class("Object", "Object", MsgPartSlots,
        {"destroy", "equal", "not_equal", "copy"} \cup MsgPartSlots)
MsgBufferClass ==
  Class("Object", "Object", MsgBufferPartSlots \cup MsgBufferWireSlots,
        {"destroy", "equal", "not_equal", "copy"}
          \cup MsgBufferPartSlots \cup MsgBufferWireSlots)

\* The slots for a device stay NULL: SeeSerial is abstract.
SerialClass ==
  Class("Object", "Object", SerialSlots,
        {"destroy", "serial_init"} \cup SerialMessageSlots)
DeviceMethods ==
  (SerialDeviceSlots \cup SerialSettingSlots) \ {"serial_init"}
PosixSerialClass ==
  Class("Serial", "Serial", {"posix_serial_init"},
        {"posix_serial_init"} \cup DeviceMethods)
WindowsSerialClass ==
  Class("Serial", "Serial", {"windows_serial_init"},
        {"windows_serial_init"} \cup DeviceMethods)

ClockClass == Class("Object", "Object", ClockSlots, {"destroy"} \cup ClockSlots)
DurationClass ==
  Class("Object", "Object", DurationSlots,
        {"destroy", "compare", "copy"} \cup DurationSlots)
TimePointClass ==
  Class("Object", "Object", TimePointSlots,
        {"destroy", "compare", "copy"} \cup (TimePointSlots \ {"to_string"}))
RandomClass == Class("Object", "Object", RandomSlots, {"destroy"} \cup RandomSlots)

Declared ==
  [Meta |-> MetaClass, Error |-> ErrorClass, CopyError |-> CopyErrorClass,
   IncomparableError |-> IncomparableErrorClass, IndexError |-> IndexErrorClass,
   MsgInvalidError |-> MsgInvalidErrorClass,
   MsgPartTypeError |-> MsgPartTypeErrorClass,
   OverflowError |-> OverflowErrorClass, RuntimeError |-> RuntimeErrorClass,
   TimeoutError |-> TimeoutErrorClass,
   WindowsRuntimeError |-> WindowsRuntimeErrorClass,
   DynamicArray |-> DynamicArrayClass, Stack |-> StackClass,
   MsgPart |-> MsgPartClass, MsgBuffer |-> MsgBufferClass,
   Serial |-> SerialClass, PosixSerial |-> PosixSerialClass,
   WindowsSerial |-> WindowsSerialClass, Clock |-> ClockClass,
   Duration |-> DurationClass, TimePoint |-> TimePointClass,
   Random |-> RandomClass]

\* What the static g_class of SeeObject.c holds: no compare, and no copy.
ObjectClass == [m \in ObjectSlots |-> IF m \in {"compare", "copy"} THEN NULL ELSE "Object"]

Classes == DOMAIN Declared \cup {"Object"}

\* A class and what it is derived from, along psuper.
Chain[c \in Classes] ==
  IF c = "Object" THEN <<c>> ELSE <<c>> \o Chain[Declared[c].parent]

\* The slots of the struct of class c.
StructOf(c) ==
  ObjectSlots \cup UNION {Declared[d].own : d \in Range(Chain[c]) \ {"Object"}}

-----------------------------------------------------------------------------
(* The constructors.  slot is the initialiser that the init method of the  *)
(* class calls in the class it is given, calls the one that this function  *)
(* then calls in the class of the object, takes the members it allocates   *)
(* after that, in their order, and shortage says what comes of it when one *)
(* cannot be had: it is "ignored", an "error" of the constructor, which    *)
(* may be "reported" with an error object, or "fatal", as an exception     *)
(* that nothing catches is.                                                *)

Constructor(slot, calls, takes, shortage) ==
  [slot |-> slot, calls |-> calls, takes |-> takes, shortage |-> shortage]

ErrorConstructor(slot) == Constructor(slot, "error_init", <<>>, "ignored")

\* error_init has set_msg make the text, and does not look whether it could.
MakeError == Constructor("error_init", "object_init", <<"msg">>, "ignored")
MakeCopyError == ErrorConstructor("copy_error_init")
MakeIncomparableError == ErrorConstructor("incomparable_error_init")
MakeIndexError == ErrorConstructor("index_error_init")
MakeMsgInvalidError == ErrorConstructor("msg_invalid_error_init")
MakeMsgPartTypeError == ErrorConstructor("msg_part_type_error_init")
MakeOverflowError == ErrorConstructor("overflow_error_init")
MakeRuntimeError == ErrorConstructor("runtime_error_init")
MakeTimeoutError == ErrorConstructor("timeout_error_init")
MakeWindowsRuntimeError == ErrorConstructor("windows_runtime_error_init")

MakeObject == Constructor("object_init", NULL, <<>>, "ignored")
MakeDynamicArray == Constructor("array_init", "object_init", <<>>, "error")
MakeStack == Constructor("stack_init", "object_init", <<"array">>, "error")
MakeMsgPart == Constructor("msg_part_init", "object_init", <<>>, "ignored")
MakeMsgBuffer == Constructor("msg_buffer_init", "object_init", <<"parts">>, "error")
MakeSerial == Constructor("serial_init", "object_init", <<"fd">>, "error")
MakePosixSerial == Constructor("posix_serial_init", "serial_init", <<>>, "ignored")
MakeWindowsSerial == Constructor("windows_serial_init", "serial_init", <<>>, "ignored")
MakeClock ==
  Constructor("clock_init", "object_init", <<"base_time", "priv_clk">>, "reported")
MakeDuration == Constructor("duration_init", "object_init", <<"priv_dur">>, "reported")
MakeTimePoint == Constructor("time_point_init", "object_init", <<"priv_time">>, "reported")
MakeRandom == Constructor("random_init", "object_init", <<"priv">>, "fatal")

Make ==
  [Object |-> MakeObject, Error |-> MakeError, CopyError |-> MakeCopyError,
   IncomparableError |-> MakeIncomparableError, IndexError |-> MakeIndexError,
   MsgInvalidError |-> MakeMsgInvalidError,
   MsgPartTypeError |-> MakeMsgPartTypeError,
   OverflowError |-> MakeOverflowError, RuntimeError |-> MakeRuntimeError,
   TimeoutError |-> MakeTimeoutError,
   WindowsRuntimeError |-> MakeWindowsRuntimeError,
   DynamicArray |-> MakeDynamicArray, Stack |-> MakeStack,
   MsgPart |-> MakeMsgPart, MsgBuffer |-> MakeMsgBuffer, Serial |-> MakeSerial,
   PosixSerial |-> MakePosixSerial, WindowsSerial |-> MakeWindowsSerial,
   Clock |-> MakeClock, Duration |-> MakeDuration,
   TimePoint |-> MakeTimePoint, Random |-> MakeRandom]

\* What the destroy method of class c releases.
Releases(c) ==
  CASE c = "Error"        -> {"msg"}
    [] c = "DynamicArray" -> {"elements"}
    [] c = "Stack"        -> {"array"}
    [] c = "MsgPart"      -> {"value"}
    [] c = "MsgBuffer"    -> {"parts"}
    [] c = "Serial"       -> {"fd"}
    [] c = "Clock"        -> {"base_time", "priv_clk"}
    [] c = "Duration"     -> {"priv_dur"}
    [] c = "TimePoint"    -> {"priv_time"}
    [] c = "Random"       -> {"priv"}
    [] OTHER              -> {}

\* What a finished object of class c, or of one derived from it, may acquire:
\* a text, elements, a string, an open device.
AcquiresLater(c) ==
  CASE c = "Error"        -> {"msg"}
    [] c = "DynamicArray" -> {"elements"}
    [] c = "MsgPart"      -> {"value"}
    [] c = "Serial"       -> {"fd"}
    [] OTHER              -> {}

-----------------------------------------------------------------------------
VARIABLES order,  \* the order in which see_init makes classes on this platform
          tables, \* tables[c]: for each slot of c the class whose method it holds
          object, \* object[p]: what the object of pointer p has become so far
          leaked  \* members of freed objects that nothing released

vars == <<order, tables, object, leaked>>

Pointers == ObjPointers \cup ErrPointers

\* next is the initialiser slot that is called next, or "return" when the calls
\* return, or "done"; ran are the classes whose initialisers have been entered.
Objects ==
  [cls  : Classes,
   next : {Make[c].slot : c \in DOMAIN Make} \cup {"return", "done"},
   ran  : Seq(Classes),
   held : SUBSET UNION {Releases(c) : c \in Classes}]

TypeOK ==
  /\ order \in Orders
  /\ DOMAIN tables = Classes
  /\ \A c \in Classes : tables[c] # NULL =>
       /\ DOMAIN tables[c] = StructOf(c)
       /\ Range(tables[c]) \subseteq Classes \cup {NULL}
  /\ object \in [Pointers -> Objects \cup {NULL}]

Made(c) == tables[c] # NULL

\* new_class_init, and the class_init of c: what the copy of the parent's
\* struct does not reach is zero.
NewTable(c, ts) ==
  LET d == Declared[c]
  IN  [m \in StructOf(c) |->
         IF m \in d.sets THEN c
         ELSE IF m \in StructOf(d.copies) THEN ts[d.parent][m] ELSE NULL]

Init ==
  /\ order \in Orders
  /\ tables = [c \in Classes |-> IF c = "Object" THEN ObjectClass ELSE NULL]
  /\ object = [p \in Pointers |-> NULL]
  /\ leaked = {}

\* see_init makes the next class; see_copy_error_init sees to its parent first.
MakeClass ==
  \E i \in DOMAIN order :
    /\ ~ Made(order[i])
    /\ \A j \in 1 .. i - 1 : Made(order[j])
    /\ LET needed == IF order[i] = "CopyError" /\ ~ Made("Error")
                     THEN [tables EXCEPT !["Error"] = NewTable("Error", tables)]
                     ELSE tables
       IN  /\ needed[Declared[order[i]].parent] # NULL
           /\ tables' = [needed EXCEPT ![order[i]] = NewTable(order[i], needed)]
    /\ UNCHANGED <<order, object, leaked>>

\* object_new: the zeroed instance knows its class, whose init method is found
\* and calls the initialiser of the class that implements it.
New(c) ==
  [cls |-> c, next |-> Make[tables[c]["init"]].slot, ran |-> <<>>, held |-> {}]

\* The classes with a public constructor for a variable p.
Constructible(p) ==
  {c \in Classes \ {"Meta", "Serial"} :
     ("Error" \in Range(Chain[c])) <=> (p \in ErrPointers)}

\* see_X_new: *out must be NULL, and the class must be there.  (The constructors
\* of SeeIndexError and SeeTimeoutError go through the class pointer unseen.)
Create(p, c) ==
  /\ object[p] = NULL
  /\ c \in Constructible(p)
  /\ Made(c)
  /\ object' = [object EXCEPT ![p] = New(c)]
  /\ UNCHANGED <<order, tables, leaked>>

\* The object that pointer p designates is finished.
Finished(p) == object[p] # NULL /\ object[p].next = "done"

\* An initialiser is entered, and calls that of its parent before all else.
Enter(p) ==
  /\ object[p] # NULL
  /\ object[p].next \notin {"return", "done"}
  /\ LET by == tables[object[p].cls][object[p].next]
     IN  /\ by # NULL
         /\ object' = [object EXCEPT
              ![p].ran = Append(@, by),
              ![p].next = IF by = "Object" THEN "return" ELSE Make[by].calls]
  /\ UNCHANGED <<order, tables, leaked>>

\* The members the initialisers of an object take, those of the parent first.
Wanted(o) == FlattenSeq(Reverse([i \in DOMAIN o.ran |-> Make[o.ran[i]].takes]))

Shortage(o) == {Make[c].shortage : c \in Range(o.ran)}

\* The initialisers have returned: with the first n members that o wants.
With(o, n) ==
  [o EXCEPT !.next = "done", !.held = {Wanted(o)[k] : k \in 1 .. n}]

\* All members can be had, or the initialiser does not mind; the serial, which
\* opens its device only when it is given one, does not mind having none.
Return(p) ==
  /\ object[p] # NULL /\ object[p].next = "return"
  /\ \E n \in 0 .. Len(Wanted(object[p])) :
       /\ \/ n = Len(Wanted(object[p]))
          \/ Shortage(object[p]) = {"ignored"}
          \/ "Serial" \in Range(object[p].ran)
       /\ object' = [object EXCEPT ![p] = With(object[p], n)]
  /\ UNCHANGED <<order, tables, leaked>>

\* The destroy method found in the class of o, and what it leaves behind.
LeftBehind(o) == o.held \ Releases(tables[o.cls]["destroy"])

\* The constructor fails: object_new drops its instance and *out stays NULL.
\* A C++ initialiser makes an error of the message it caught.
ReturnFails(p) ==
  /\ object[p] # NULL /\ object[p].next = "return"
  /\ Shortage(object[p]) \cap {"error", "reported"} # {}
  /\ \E n \in {0, Len(Wanted(object[p])) - 1} \cap Nat :
       leaked' = leaked \cup LeftBehind(With(object[p], n))
  /\ LET without == [object EXCEPT ![p] = NULL]
     IN  \/ object' = without
         \/ /\ "reported" \in Shortage(object[p])
            /\ Made("Error")
            /\ \E e \in ErrPointers :
                 /\ object[e] = NULL
                 /\ object' = [without EXCEPT ![e] = New("Error")]
  /\ UNCHANGED <<order, tables>>

\* A finished object is used: elements are added, a device is opened, a text is
\* set.
Use(p) ==
  /\ Finished(p)
  /\ \E c \in Range(Chain[object[p].cls]) :
       object' = [object EXCEPT ![p].held = @ \cup AcquiresLater(c)]
  /\ UNCHANGED <<order, tables, leaked>>

\* The last reference goes.
Destroy(p) ==
  /\ Finished(p)
  /\ leaked' = leaked \cup LeftBehind(object[p])
  /\ object' = [object EXCEPT ![p] = NULL]
  /\ UNCHANGED <<order, tables>>

\* see_object_copy, or a comparison, returns an error code, with an error object
\* if the class of that is there: the class of p has no copy method; it has no
\* compare method, which the comparisons of SeeObject go by; or its own method
\* finds that the other operand, which may be any object, is of another class.
Refuse(p, e, op) ==
  LET c == IF op = "copy" THEN "CopyError" ELSE "IncomparableError"
  IN  /\ Finished(p)
      /\ object[e] = NULL
      /\ op = "copy" => tables[object[p].cls]["copy"] = NULL
      /\ Made(c)
      /\ object' = [object EXCEPT ![e] = New(c)]
      /\ UNCHANGED <<order, tables, leaked>>

Next ==
  \/ MakeClass
  \/ \E p \in Pointers :
       \/ \E c \in Classes : Create(p, c)
       \/ Enter(p) \/ Return(p) \/ ReturnFails(p) \/ Use(p) \/ Destroy(p)
       \/ \E e \in ErrPointers, op \in Comparisons \cup {"copy"} : Refuse(p, e, op)

Spec == Init /\ [][Next]_vars

-----------------------------------------------------------------------------
(* Properties *)

\* Construction runs the initialiser of each class in the chain once, the most
\* derived first: although each finds its parent's in the class of the object
\* (parent_cls = SEE_OBJECT_GET_CLASS(obj)), and not in the parent, none meets
\* itself again or skips one.
InitialisersOnce ==
  \A p \in Pointers : object[p] # NULL =>
    /\ IsPrefix(object[p].ran, Chain[object[p].cls])
    /\ object[p].next \in {"return", "done"} => object[p].ran = Chain[object[p].cls]

\* The slots that class c sets.
SetBy(c) ==
  IF c = "Object" THEN ObjectSlots \ {"compare", "copy"} ELSE Declared[c].sets

\* The first class in the chain of c that sets slot m.
Nearest(c, m) ==
  LET setters == {i \in DOMAIN Chain[c] : m \in SetBy(Chain[c][i])}
  IN  IF setters = {} THEN NULL ELSE Chain[c][Min(setters)]

\* In the table of an object's class each slot holds the method of the nearest
\* class that has one, and there is one: except of the two methods that
\* see_object_compare and see_object_copy test for, and of to_string, which no
\* function calls.  So every public function that is called on an instance of
\* its class, or of a derived one, reaches a method.
EveryCallLands ==
  \A p \in Pointers : object[p] # NULL =>
    LET c == object[p].cls
    IN  \A m \in StructOf(c) :
          /\ tables[c][m] = Nearest(c, m)
          /\ tables[c][m] = NULL => m \in {"compare", "copy", "to_string"}

\* No member of an object outlives it, whichever class's destroy method it has,
\* and whether its construction succeeded or not.
NothingLeaks == leaked = {}
=============================================================================
