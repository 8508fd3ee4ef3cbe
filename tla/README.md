# see-object in TLA+

see-object is a small C library that gives C programs classes, reference-counted
instances, errors as objects, containers, messages made of typed parts, and
serial links that carry these messages.  This directory holds a verification
development of it: TLA+ modules translated from the code under `src/src`, TLC
configurations that check them on small instances, and proofs that the TLA+ proof
system checks for every value of the constants.

## 1. Inventory of the system

| component | source | state it keeps | operations | what is hard about it |
|---|---|---|---|---|
| instances and counts | `SeeObject.c`, `atomic_operations.c`, `see_functions.c` | `refcount`, class pointer | `object_new`, `see_object_ref`, `see_object_decref`, `destroy` | threads share instances; the last reference may be given up by any of them; destruction cascades |
| classes | `MetaClass.c`, the class structs in the headers, the `*_class_init`, `*_init`, `*_deinit` of each class | one class struct of method pointers per class | `see_meta_class_init`, `see_meta_class_new_class`, `*_deinit` | parents before children; second initialisation; a struct is the copy of its parent's up to a length its caller states |
| library life cycle | `see_init.c`, `Random.cpp` (global device) | `g_init_count`, `g_is_init` | `see_init`, `see_deinit` | concurrent callers, failure half way, restart |
| lazy error classes | `Error.c`, `CopyError.c` | `g_error_initialize`, class pointer | `see_error_init`, `see_copy_error_init` | first-use race without a lock |
| errors | `Error.c`, `CopyError.c`, `IndexError.c`, `RuntimeError.c`, `OverflowError.c`, `TimeoutError.c`, `IncomparableError.c`, the two of `MsgBuffer.c`, `windows/WindowsRuntimeError.c` | message | constructors | chains of initialisers; a constructor that goes on without its message |
| dynamic array | `DynamicArray.c` | `elements`, `size`, `capacity` | add, insert, set, get, pop, resize, reserve, shrink, shuffle, copy | ownership of elements, capacity arithmetic, failing `realloc` |
| stack | `Stack.c` | an array | push, pop, top, copy | emptiness |
| message parts and messages | `MsgBuffer.c` | type and value of each part; id and parts of a message | write, get, encode, decode, compare, copy | declared lengths, malformed input, partial failure |
| serial links | `Serial.c` | timeouts; the byte stream | `write_msg`, `read_msg` with resynchronisation | partial reads and writes, noise, timeouts |
| POSIX serial device | `posix/PosixSerial.c` | the file descriptor | open, close, read, write, timeouts, speed | errors between the system calls of one operation |
| Windows serial device | `windows/WindowsSerial.c` | the handle | the same | the same; numbers cast to 32 bits; a port that is open cannot be opened again |
| time | `Clock.cpp`, `TimePoint.cpp`, `Duration.cpp`, `cpp/*.hpp` | a time point, a duration, a base time | conversions, sums, differences, products | 64-bit arithmetic; results that are written into, or replace, an instance that others share or that is an operand |
| random numbers | `Random.cpp`, `cpp/Random.hpp` | a generator | seed, draw | a global generator shared by threads |
| utilities | `utilities.c`, `utilities.cpp` | none | byte order, sleep, yield | none |

How they interact.  Every instance is created by `object_new` of its class and is
shared by counted pointers.  Containers own elements: an array that holds
references copies them with `see_copy_by_ref` and releases them with
`see_free_see_object`.  A message owns an array of part pointers; a serial link
writes an encoded message and builds a message from the bytes it reads.  Every
class hangs below `SeeObject` and is made by the meta class when the library is
initialised.  Errors are instances too, returned by reference.

What makes each component correct is the list of `hazards` in `PROJECT.json` and
the properties named there.

Two layers hold it together.  Below is the object layer: counted references, the
class objects, and the two ways classes come into being (all at once in `see_init`,
or one at a time in the error initialisers).  Above are the containers and the
message layer, which are sequential: an array, a message or a serial belongs to
one thread, and what interleaves there is the other end of the line, the rest of
the process, and failure.

## 2. Modules

| module | extends | models | abstract specification |
|---|---|---|---|
| `SeeObject` | | instances, counts, destruction | `Collector` |
| `SeeInit` | | `see_init`, `see_deinit`, all class initialisers | |
| `ErrorInit` | | `see_error_init`, `see_copy_error_init` | |
| `ClassTables` | | class structs, `see_meta_class_new_class`, constructors, destruction, calls through the table | |
| `Startup` | `ClassTables`; instances of `SeeInit` and `ErrorInit` | the three together | |
| `DynamicArray` | | `SeeDynamicArray` | `Lists` |
| `Stack` | `DynamicArray` | `SeeStack`, by the operations of its array | `Lifo` |
| `Containers` | `Stack` | the two as clients use them | |
| `MsgFormat` | | messages and parts as values and as bytes | |
| `MsgBuffer` | `MsgFormat` | `SeeMsgPart` and `SeeMsgBuffer`, their clients, a buffer in transit | |
| `SerialLink` | `MsgFormat` | `write_msg`, `read_msg` and the line between them | `MsgLink` |
| `PosixSerial` | | the POSIX device: its descriptor and settings | |
| `WindowsSerial` | | the Windows device: its handle, its port's settings and queues | |
| `Devices` | `PosixSerial`; an instance of `WindowsSerial` | the device of either build | |
| `Time` | | durations, time points, the clock | `Instants` |
| `SeeObjectProofs`, `StartupProofs`, `ContainersProofs`, `DevicesProofs`, `TimeProofs`, `MsgFormatProofs` | the module named | theorems | |
| `MsgBufferProofs`, `SerialLinkProofs` | the module named, and `MsgFormatProofs` | theorems | |
| `MCPlatform` | `Devices`, `Time` | the small instance of both | |
| the other `MC...` | the module named | the small instances of the runs | |

Every module keeps its *changed forms* (marked as such, or collected in a section
of their own) next to the operations they change: each is a bug the code might
have had, and for each property there is one that breaks it.

A module that only puts others together (`Startup`, `Containers`, `Devices`)
chooses at first which of them a behaviour is about, since they share no state at
run time: two platforms are two builds, and a class that is being used is no
longer being made.  It states the assumptions on the constants of its parts.

### SeeObject and Collector

`mem`, `refcount` and `ptr` are the memory of an instance, its counter, and every
counted pointer of the program; `stack[t]` is the nesting of destroy calls in
thread `t`.  `ObjectNew` and `ObjectNewInitFails` are `object_new`; `Ref` and
`Decref` are `see_object_ref` and `see_object_decref`; `DestroyMember` and
`DestroyFree` are the steps of a destroy method, one member at a time.  A count
changes by one atomic instruction, so that is the size of a step; the test of the
decrement's *result* belongs to the same step, because the result is local.

`Collector` has no counter and no stack: an object that some pointer designates
stays, and one that no pointer designates gives up its members and is freed.

Clients must keep three rules the library cannot check, and the model grants
them: a thread uses only pointers it can reach; a slot is accessed under the
client's synchronisation (reading a pointer and incrementing the count behind it
is not atomic in the library); and instances do not own each other in a circle.

### SeeInit

`count` and `ready` are `g_init_count` and `g_is_init`; `classes` are the class
pointers that are not NULL; `device` is the global random device; `pc` and `step`
are where each thread is.  One step makes or destroys one class, in the order of
the calls in `initialize` and `deinit`.  `scenario` fixes, for a whole behaviour,
what the surroundings do: whether `calloc` may fail, whether the compiled waiting
loop loads the plain variable `g_is_init` every time round, when clients start
the library again, and the platform, which decides the class of serial devices
and whether there is a class for the errors of Windows.

### ErrorInit

A thread has a stack of frames since `see_copy_error_init` calls
`see_error_init`.  A step is one access to shared state: the look at the class
pointer, the atomic increment, the look at the parent, the test and the store in
`see_meta_class_new_class`, the atomic decrement, the wait.

### ClassTables and Startup

A class is a record: its parent, the class whose struct's size is handed to
`see_meta_class_new_class` with it, the slots its own struct declares (one
definition per struct of the headers), and the slots its `class_init` sets (one
per `class_init`).  `NewTable` computes from it what the code computes: a copy of
the parent's table as far as that size goes, then the assignments.  `tables` are
the class structs that exist, in the order in which `initialize` makes them.

An object is made by following slots: `Enter` looks the next initialiser up in the
table of the *object's* class, as the code does with `SEE_OBJECT_GET_CLASS(obj)`,
appends the class that implements it to `ran`, and goes on with the slot that this
initialiser calls (`Make`, one definition per constructor).  On the way back,
`Return` and `ReturnFails` take the members in their order (the text of an error,
the array of a stack, the C++ object of a clock, the device of a serial) or fail
at one of them; then the destroy method that the table holds releases what it
releases.  `Use` gives a finished object what it may acquire later; `Refuse` is a
comparison or copy that the class does not support and that makes an error object,
through the same constructors.

`SeeInit` and `ErrorInit` see a class as a name that is there or not, and follow
the threads; `ClassTables` follows what is inside a class, with one thread.
`Startup` asserts that they agree on the order of classes and on their parents
(`OrdersAssumption`).

### DynamicArray, Lists and Stack

An array is its elements, its capacity and the length of its block in bytes; the
block is separate from the capacity so that the two can disagree.  `size_t` wraps
around at `SizeMod`.  `realloc` fails when the block would exceed half of the
address space, and at any other time when `MemFail`.  Elements are plain data, or
counted references with a count `refs`, of which the client holds `held`.  Each
API function is an action, `Refused` is the early return of all of them on a NULL
argument or a pending error.

`Lists` knows neither memory nor counts: an array is a list of values, each call
that succeeds does to it what its name and arguments say, and one that fails
leaves all lists alone.  For that `DynamicArray` keeps in `call` which call the last
step was; no action reads it.  What `Lists` leaves open, since the code does not do
what `DynamicArray.h` says, is whether a resize to more elements gives the list any
(the run `dynamic_array_resize`), and that `see_dynamic_array_set` succeeds past the
end.  `Stack` uses the actions of `DynamicArray`
under `see_stack`'s own tests, and implements `Lifo`.  In `Containers` a behaviour
uses arrays or stacks.

### MsgFormat and MsgBuffer

`MsgFormat` has what needs no state: the bytes of a part and a message, `Encode`,
`Decode` with every check `from_buffer` makes, in its order, and equality.  Numbers
are compared as C does it: a float or double by `==`, so that 0 is -0 and what is no
number (NaN) is unequal to its own copy (`SameValue`, with `IsZero` and `IsNaN` of
the bytes of IEEE 754), everything else by its value.  `MsgBuffer` has
the clients: messages are built, copied, compared, encoded; the encoded buffer may
be damaged before it is decoded.  The assertions of the code are properties here.

### SerialLink and MsgLink

A writer and a reader share the line, a queue of bytes.  The writer's loop hands
over any number of bytes at a time, and the reader's loops take any number that is
there, up to what they ask for.  `reader` is where `read_msg` is: in the header,
in the loop that discards bytes, or in the body.  `intact` is a ghost: it becomes
false when a call fails midway, when a timeout throws away a part of a message,
or when noise comes.  `MsgLink` is a queue of messages that owes delivery as long
as it is `intact`, and nothing afterwards.

### PosixSerial

`table` is the process's table of descriptors, with the owner of each entry; `fd`
is the member of each object; `settings` are the termios settings, which belong to
the terminal and not to the descriptor.  Every function is an action that contains
all its system calls; those named in `Failures` may fail.  `open` gives the lowest
free number, so that a number given up is soon somebody else's: the program's own
`ProgramOpens` and `ProgramCloses` are there for that.

### WindowsSerial and Devices

`open` is what each handle of the process is open on and who opened it; `handle`
is the member of each object; `port` has the settings of a device, which outlive
the handle, and its two queues of bytes.  A port can be open once at a time, as
`CreateFile` without sharing has it.  Each function is an action with all its
system calls, of which each may fail.  Baud rates go through the table of the
source in both directions.  A timeout is asked for in nanoseconds; it is cut down
to whole milliseconds and cast to a `DWORD`, and if this is 0 although the
duration, cut down to whole microseconds, is not, it becomes 1.  `Micro` and `Milli`
are the sizes of the units, and words have 2 bits in the run.  `Devices` has the build choose between this device and the other.

### Time and Instants

`ptr[v]` is the instance that a client's variable designates, `mem` the instances
with their values and counts, `base` the clock's own time point, `now` the steady
clock.  Two helpers are the two ways in which the code returns a result:
`IntoResult` writes into the instance of `*result`, so that all who share it see
it, and `NewResult` puts a new one in its place.  The arithmetic is that of the
C++ classes, in 3 bits.  `use.folded` is a build whose compiler has used that the
overflow of a signed product is undefined and removed the test that follows it.

`Instants` has variables with values, of which some share one because the client
made them share it.  Each call that succeeds has the effect of its name on its
operands: `add` overwrites what its result designates with the sum of the two,
`sub` with the first less the second, `multiply` replaces its result, and so on.
For that `Time` keeps in `call` which call the last step was; no action reads it, so
the configuration leaves it out of the state by a VIEW.  Whichever variable receives
the result, operand or not, it is computed from what was shown before the step.
One thing is left open: whether `see_time_point_add` adds or subtracts.  Its
documentation says the one and the code does the other, as the run `time_point_add`
shows.

## 3. The runs

Sizes are distinct states.  All runs finish in less than three minutes on two
cores.

| run | states | instance | shows |
|---|---|---|---|
| `see_object` | 1 293 | 2 threads, 5 slots, 3 instances that can form a chain | counts are exact, nothing in use is freed, nothing is freed twice or forgotten; refines `Collector` with its fairness |
| `startup` | 59 155 | 3 threads, 20 or 21 classes, 10 scenarios; or 2 callers, 4 scenarios; or 1 object and 1 error of any class, 2 platforms | success means all classes are there, one thread builds at a time, the last `see_deinit` leaves no class, the first use succeeds and returns; an error class is made once, success means ready, the counter returns to 0, never do all callers wait, every call returns; each initialiser of a chain runs once, every call lands in the nearest method, no member outlives its object |
| `see_init_second_use` | | 1 thread, enough memory | **violation**: the second `see_init` fails |
| `containers` | 24 523 | 2 arrays, 2 values, 4-bit `size_t`, elements of 2 bytes; or 2 stacks | blocks, capacities and counts are right, failure changes nothing; each call does to its list what its name and arguments say (refines `Lists`), and refines `Lifo` when the arrays are those of stacks |
| `dynamic_array_shrink_counted` | | the same, shrinking counted arrays | **violation**: the counts of the elements that go are kept |
| `dynamic_array_resize` | | the same | **violation**: a resize to more elements succeeds and leaves the size |
| `msg_buffer` | 231 557 | 2 messages of at most 2 parts, one damage of the buffer | lengths are exact, what is written is read back, what is accepted is what the bytes say; of equally many parts, messages are equal when they are written as the same bytes, NaN and the sign of zeros apart |
| `msg_buffer_equal` | | messages of equal length, all parts set | **violation**: one of two INT32 parts is equal to one of a string |
| `serial_link` | 598 511 | 2 messages, 1 trouble, any number of timeouts | every byte once, only disturbed messages are rejected; refines `MsgLink` with its fairness |
| `serial_link_noise` | | 1 message, 1 byte of noise | **violation**: something else than SMSG is taken for a header |
| `platform` | 148 203 | 2 serials on 1 terminal with 3 descriptors, or on 1 port with 3 handles; or 2 durations, with and without tests for overflow; 1 duration, 2 time points; 1 duration, 1 time point, 1 clock; 3-bit numbers | an open serial has a descriptor, or handle, of its own; none is lost, none of somebody else is closed; no timeout of a microsecond or more shrinks to nothing; no duration or time point is lost or freed early, failure changes nothing, the comparisons agree and order the instances; refines `Instants` |
| `time_point_add` | | the same | **violation**: 0 plus 1 is -1 |

`platform` has two components in one run, since they have nothing in common but the
one thread that calls them: a behaviour is about devices or about time.

Type invariants are among the properties of `see_object` only; those of the other
modules are stated and proved (section 4), or implied by what the runs evaluate.

### Bounds, and why they are enough

- `see_object`: two threads are what a race for the last reference needs.  One
  thread has two variables, so that it can hand a reference on and keep one; the
  chain of three instances (message, its array, a part) makes destruction nest
  twice.  The theorems remove these bounds.
- `startup`: with three threads one can build while another waits and the third
  arrives, or leaves.  All classes are there, since their order is the point.  For
  the error classes, a maker and a waiter in each of the two nested functions.  For
  the tables, one object of each class at a time, and one error, which may be the
  client's own or one that a failing call makes: objects share nothing but
  classes.  The build for Windows gets fewer scenarios, as it differs in two
  classes.
- `containers`: with 4 bits a block is at most 7 bytes, so an array holds 3
  elements, growth by doubling passes 1, 2 and 4, of which the last does not fit,
  and the requests 8, 9 and 15 make the product of the sizes wrap around to 0, 2
  and 14.  One inserted element suffices to move a tail.
- `msg_buffer`: three types of part (a number of 4 bytes, one of 8, a string),
  two parts for their order; the bytes of damage turn a type into every other
  kind (unset, integer, float), a length byte into a shorter or longer length, and
  the FLOAT, which is -0, into 0.  The DOUBLE is a NaN.  To both C's `==` and a
  comparison of bytes give different answers.
- `serial_link`: the second message is what a reader that has lost its place
  would run into; one trouble is enough to break what comes after it.
- `platform`, devices: three descriptors, or handles, are one for each serial and
  one for the program.  `VTIME` ends at 2 tenths instead of 255.  A microsecond is 2
  nanoseconds and a millisecond 2 microseconds, so that of the timeouts 1 is less
  than a microsecond, 2 less than a millisecond, and 16 is 4 milliseconds, hence 0
  in a `DWORD` of 2 bits.
- `platform`, time: two instances are what aliasing needs, a third makes room for a result
  before the old one is given up.  Three bits have numbers that fit, that do not,
  and -4, which has no opposite.

`CHECK_DEADLOCK FALSE` is said where the system may stop: when all instances have
been used up (`see_object`), when all clients are content, or every thread hangs
in a loop whose load was hoisted (`startup`), and when the reader was killed by
the undefined behaviour noise can cause (`serial_link`).

### Fairness, and why the code justifies it

- `SeeObject`: weak fairness of `Destroy(t)`.  A destroy method that has been
  entered is ordinary code of a runnable thread without loops that wait.  Clients
  need never do anything.
- `SeeInit` and `ErrorInit` (as `StartupSpec` repeats it): weak fairness of the steps of each thread *inside* the
  library.  The waiting loops are not assumed to end: they are enabled only when
  what they wait for holds.  Termination is claimed only with enough memory and a
  loop that loads its variable; the scenarios without are in the runs, where
  threads hang, and safety must still hold.
- `SerialLink`: weak fairness of the writer's loop and of the reader, which
  includes that the client calls `read_msg` again.  Nothing is assumed of a device
  except that it goes on taking bytes, and giving those that are there; timeouts
  occur only on an empty line, and are never assumed.

The other modules have no liveness to claim: every call returns in its step.

## 4. What is proved

The proofs hold for every value of the constants.  They were written for formulas
that TLC had already checked on the instances above.  Each theorem is proved from
an invariant that is inductive, or from lemmas that say what each operation
changes; what is named below is defined at the head of the module.

| module | about | hypotheses |
|---|---|---|
| `SeeObjectProofs` | `SeeObject` | none |
| `StartupProofs` | `Startup`, and so `SeeInit`, `ErrorInit` and `ClassTables` | `Orderly`, for the library; none, for the error classes and the class tables |
| `ContainersProofs` | `DynamicArray`, `Stack`, `Containers` | `NoneShrunkEmpty`; for the counts `NoneFreedByAddress` too |
| `DevicesProofs` | `Devices`, and so `PosixSerial` and `WindowsSerial` | none for Windows; `TerminalsOnly` and `CloseWorks` for the other |
| `TimeProofs` | `Time` | none |
| `MsgFormatProofs` | `MsgFormat` | of each lemma, on the message or the bytes it is about |
| `MsgBufferProofs` | `MsgBuffer` | `LengthsFit`, for `RoundTrip` and `EqualIsExact` |
| `SerialLinkProofs` | `SerialLink` | none |

Every hypothesis excludes a behaviour for which the property is false, and which
section 5 describes; `LengthsFit` excludes messages of 2^32 bytes and more, whose
length the four bytes of the header cannot hold.

### SeeObjectProofs

Assumed: `SlotsAssumption` (finitely many slots, each owned by a thread or an
instance, threads are not instances, NULL is no instance).  That instances own
each other in no circle (`RankAssumption`) is not needed for safety; without it
a circle would keep its own counts up, as reference counting does.

`RefcountExact` is not inductive: it speaks of live instances, and says nothing of
one that another thread is destroying.  `IInv` has `CountExact`, that the counter
of *every* instance is the number of slots that designate it, and
`StackUnreferenced`, that what is on a stack of destroy calls is designated by no
slot.  From the two follows what matters: a count that becomes 0 by a decrement
belongs to an instance that is on nobody's stack, hence `DestroyedOnce`; and an
instance that a client can reach is designated by a slot, hence not on a stack,
hence safe to reference (`ReachableIsReferenced`, `AccessibleOwnerLive`).  There is
a lemma for every action, and two about what storing and clearing a pointer does
to the set of references (`StoreRefs`, `ClearRefs`).

Theorems: `TypeCorrect`, `CountIsExact`, `NoDanglingReference`, `NoDoubleDestroy`,
`NoLeak` (with `FreedOwnNothing`), and `RefinesCollector`, the safety part of
`ImplementsCollector`: every step is one of the collector's, or leaves it alone.

### StartupProofs

A step of `Startup` is a step of one part and leaves the variables of the others
alone, so each part has an inductive invariant of its own: `LibraryInv` for the
instance `Lib` of `SeeInit`, `ErrorsInv` for the instance `Errors` of `ErrorInit`,
`TablesInv` for `ClassTables`.

*see_init and see_deinit.*  Assumed: that there are threads, and what `Startup` says
of the scenarios.  Hypothesis `Orderly`: nobody calls `see_init` while the last
`see_deinit` is under way, when `g_is_init` is still set.

The counter says who is alone: `LibraryInv` has that `g_init_count` is the number
of threads between the increment of `see_init` and the decrement of `see_deinit`
(`CountOfInside`), so the thread that counts 1 builds alone, and the one that counts
0 leaves nobody inside (`LastLeaves`).  The rest ties `g_is_init` to the classes:
`ReadyMeansBuilt`; how far a builder has come and how far a thread that tears down
(`BuiltSoFar`, `FreedSoFar`); and, for the first use with enough memory, exactly
which classes are there before each step (`OnlyUse`, `Before`), which is what it
takes to show that no initialiser finds its class made already or its parent
missing.  `SomebodyBuilds` goes on from there: while anybody is inside, `g_is_init`
is set or a thread is in `initialize`, so that no waiting is in vain.

*Error classes.*  A thread has at most two calls of the initialisers under way, one in the other
(`Nesting`).  `slot` gives the frame of each call by its place, so that a step
changes one of them.  `CountedIn` says that the counter of a class is the number of
its calls that are past the increment; two calls that make the same class would
both have counted 1 (`MakersAlone`).  `MadeFresh` is why `new_cls` finds no class
where it puts its own.  With enough memory, whoever waits or leaves has its class
made or being made (`NoneInVain`), and the nested call has made the parent
(`ParentThere`): that is what success rests on.

That the callers cannot all wait follows from `CountedIn` and `Nesting`: a counter
that is not 0 has a call past its increment.  If that call makes `Error` it is the
innermost of its thread and goes on (`ErrorGoesOn`).  If it makes `CopyError` it goes
on too, or has called `see_error_init`, which goes on or waits for a counter that
somebody keeps (`SomebodyGoesOn`); `see_error_init` itself never hangs
(`ErrorNeverHangs`).  So whichever allocations fail there is no deadlock.

*Class tables.*  First what the declarations of the 22 classes have in common, one
by one: each sets one of the slots of initialisers, its own, and `init`
(`SlotReaches`, `InitIsOwn`); and what an instance takes, an initialiser or a later
call of a class of its chain takes and its destroy method releases
(`MembersReleased`).  A chain has at most three classes, each the parent's with one
before it (`ChainSteps`), so the nearest class that sets a slot is the class itself
or the parent's (`NearestIs`).

`TablesInv` is what a behaviour adds to these facts.  `TableRight`: the table that
`NewTable` has copied from the parent's and filled in holds in every slot of its
struct the method of the nearest class that sets it.  The copy is right because the
size and the parent that a `class_init` hands over belong together: the parent's
struct is a part of the class's (`StructGrows`).  `ObjectRight`: the
initialisers that an object has entered are those of its chain from its class
upwards, without a gap or a repetition, the next one is that of the next class, and
the members it holds are among those that classes of its chain take.  The run has one
pointer to an object and one to an error; the theorems hold for any number, with
objects and errors of all classes under way together while `see_init` makes the
classes of either platform.

`ErrorSuccessIsTrue` is about calls with enough memory, like the property it proves:
when the maker's allocation fails, a caller that waited for it returns success for
a class that is not there (section 5).

Theorems: `LibraryTypes`, `UsersAreServed`, `OneBuilderAlways`, `LastOneCleansUp`,
`FirstUseWorks`, `NobodyWaitsInVain`; `ErrorTypes`, `OneMakerAlways`,
`ErrorsMadeOnce`, `ErrorCountersExact`, `NeverAllBlocked`, `ErrorSuccessIsTrue`;
`TableTypes`, `InitialisersRunOnce`, `CallsAlwaysLand`, `NothingEverLeaks`.

### ContainersProofs

Assumed: what `DynamicArray` says of its constants: sizes are positive numbers, the
elements of one insertion fit in memory, there are finitely many arrays and
values.  Hypotheses: `NoneShrunkEmpty`, no array without elements is shrunk to fit,
and for the counts `NoneFreedByAddress`, no array of counted elements is resized
to fewer.

`StaysInBlock` alone is not inductive: whether an element fits is decided from the
capacity, so `Sound` has that the block is as large as the capacity says, and that
its length did not wrap around because it is below half of the address space.
Products and sums are taken modulo `SizeMod`; lemmas show that the code's division
test finds every product that wraps (`DividesBack`, `NoOverflow`), and that the
capacity which is doubled cannot wrap (`EnlargedEffect`).  Each operation has a
lemma that says what it leaves: everything as it was, or one array with other
elements and sound memory (`Puts`).  From the same lemmas follow, besides the
invariants, that failing calls change nothing and that every operation is one of
`Lists`, or none; and that the operations at the end of an array are those of
`Lifo` on the reversed list.

`ElementsCounted` counts pairs of array and index.  `CellsChange` reduces it to how
often an element occurs in the one array that changes, and lemmas with explicit
bijections say how insertion and replacement change that (`OccursInserted`,
`OccursReplaced`).  `Shuffled` is defined by recursion over the exchanges; that it
permutes the elements is shown with the least exchange after which it would not
(`LeastNumber`, `ExchangesExist`, `ShuffledPermuted`), because the induction
theorems of the library take an operator as a parameter, which the provers cannot
instantiate.

Theorems: `ArraysStayInBlock`, `CapacitiesAllocated`, `FailuresAreClean`,
`ElementsAlwaysCounted`, `ContainerTypes` (no count goes below 0), and the
refinements `ArraysImplementLists` and `StacksImplementLifo`, which are whole:
`Lists` and `Lifo` have no fairness.  The first says that each call has its own
effect on its list, with what `Lists` leaves open (section 2).

### DevicesProofs

*POSIX.*  Assumed: the names and settings assumptions of `PosixSerial`, and two
hypotheses in every theorem: `TerminalsOnly`, serials are opened on terminals, and `CloseWorks`,
`close` does not fail.  All other system calls may fail.

`Sound` is an invariant of four values rather than of the variables, because
`see_serial_open` closes one descriptor and opens another in one call: the lemmas
show that it holds of the intermediate values after each half, and the step
follows.  `CloseEffect` and `OpenEffect` say what the two halves do to the table.

Theorems: `TypeCorrect`, `OpenMeansOwn`, `NoDescriptorLost` and
`NobodyElseIsClosed`, the last from the invariant before the step.

*Windows.*  `WInv` is the like of `Sound` for handles: what a serial holds is open and its own,
what it has opened it holds or has lost with its object; and of the settings of
each port that a timeout of a microsecond or more waits (`Waits`).  Any system call may fail,
`CloseHandle` included: a Windows serial keeps a handle that it could not close.
The conversion of durations is followed through both roundings and the cast to a
`DWORD` of any width (`WholeUnit`, `TimeoutWaits`), for any number of nanoseconds in a
microsecond and of those in a millisecond.  Of a timeout of less than a microsecond
nothing is claimed: it becomes 0.

Theorems: `HandlesAlwaysOwned` and `PositiveTimeoutsWait`; and, since a behaviour of
the POSIX build is one of `PosixSerial`, `DevicesOpenMeansOwn`, `DevicesLoseNone`
and `DevicesCloseTheirOwn` under the two hypotheses.

### TimeProofs

No hypotheses beyond the assumptions of `Time`: any width of the integers, any
scalars, with or without compiled overflow tests.  `IInv` is that the memory is of
its type, that counts are exact, and that no variable designates the base time of
a clock (`BaseAlone`), without which a result written into an instance could move
it.  For each of the two ways to return a result there is a lemma that says what
it does to counts and to values; an operation is then one of a few `Changes`.
`AcceptedFits` shows that the test made after a product in 64 bits, which divides
the result again, accepts only what fits, provided that the product wraps as the
build without `folded` has it.

The refinement mapping shows the value of a variable (`Shows`), which other
variables share its instance (`Sharers`) and the base time (`BaseTime`).

Theorems: `CountsAlwaysExact`, `FailuresAreClean`, `ComparisonsAreLinear` (that
comparing is a linear order, which agrees between the two classes' methods and
with whole units) and `TimesImplementInstants`: each call has the effect that
`Instants` gives its name and its operands, with `see_time_point_add` left open.

### MsgFormatProofs

What the functions of `MsgFormat` compute, for every message and buffer.  They go
through a message part by part, by recursive functions: `PartsFrom` reads,
`WithParts` adds, and `FlattenSeq` of the community modules, a fold, joins what the
parts are written as.  An induction over them is a set of numbers, or of sequences,
for which something fails, and its least element (`LeastOne`, `EverySequence`).
That a recursive function exists at all, so that its equation holds, is the same
argument: there is a function up to each n, and any two agree (`JoinsExist`,
`AddsExist`, `ReadsExist`).

Numbers first: network order is its own inverse (`SwappedTwice`), so that the four
bytes of a length are read back as that length if it is below 2^32
(`NumberReadBack`, `NumberWrittenBack`).  Then one part in each direction
(`PartReadBack`, `ReadPartWrites`), many parts (`PartsReadBack`,
`PartsWrittenBack`), and with the header (`HeaderReadBack`) whole messages.

Theorems: `DecodeEncode`, that a well-formed message whose parts are all set and
whose strings have their lengths is read back as itself; `DecodeAccepts`, that what
is accepted is well-formed and, if no string of it ends early, is written as the
very bytes that were read.

### MsgBufferProofs

Assumed (`MsgBufferAssumption`): an id is two bytes, what a call writes in a part is
a number or a string of its type, damage changes bytes into bytes.

Both properties of the run speak of a message as it stands.  They hold because of how
it came to be, so `IInv` has that every message is `WellFormed`: its length is that
of a header and of what its parts are written as, and no 0 byte ends one of its
strings early.  The lemmas for `add_part` and `copy` show that adding a part keeps
it so (`WithPartIs`), the one for `from_buffer` that damaged bytes cannot bring
about another one (`DecodeAccepts`).  A part that is not set is allowed in a
message, for `add_part` keeps it; the exact length is claimed of the others.

`EqualsAreExact` has both directions.  Messages with equal parts, in the sense of C,
become the same when every -0 is made 0, hence are written as the same bytes; and
bytes that are the same are read back as one message (`DecodeEncode`), so that what
remains to compare is whether a number is a NaN.

Theorems: `TypesHold`, `LengthsAreExact`, `WrittenIsReadBack`, `AcceptedIsExact` (an
action property) and `EqualsAreExact`.

### SerialLinkProofs

Assumed (`SerialLinkAssumption`): the messages that are sent are of the library's
making: all parts are set (`write_msg` refuses others before it writes), each is what
copying it gives, its strings have their lengths (section 5 has one that does not)
and its own length fits in 32 bits; noise is bytes; the bounds of the run are numbers.

`EveryByteOnce` is not inductive.  `IInv` adds that nothing is held between two calls
of `read_msg`, and for an undisturbed line (`Steady`) that a reader past its header
has the size of the first message underway.  The step that matters is `ReadSome`:
when the bytes that were wanted are all there they are exactly those of the first
message, because the bytes underway are the messages' one after the other and two
cuts of the same bytes at the same place give the same pieces (`SameCut`); then
`DecodeEncode` says that the message read is the message sent.  That it is never taken
for something out of step, nor declared smaller than its header, is
`RejectsOnlyDisturbed`.

Theorems: `TypesAreRight`, `NoByteLost`, `UndisturbedIsAccepted`, and `LinkIsSafe`,
the safety part of `ImplementsMsgLink`: every step is one of `MsgLink`'s, for any
messages, any number of them, any sizes of reads and writes and any failures.

### What is only model-checked

- All liveness: the collector frees all garbage, `see_init` and the error
  initialisers return (`InitReturns`, `Returns`), the link delivers.  Temporal
  properties under fairness need ENABLED, which the prover does not reason about;
  `RefinesCollector` and `LinkIsSafe` are therefore the safety parts of their
  refinements, and `NobodyWaitsInVain` and `NeverAllBlocked` those of `InitReturns`
  and `Returns`: that whoever waits waits for a thread that can go on.
- The six properties that the violation runs refute.

No run lists the types (`TypeOK` of the modules), `OneMaker` of `ErrorInit` or
`WaitersAreServed` of `SeeInit`, which are proved; TLC has found them true on the
instances of the runs, too.

## 5. What the checks found

Six disagreements between the code and its documentation have a run that shows
them and an entry under `findings`:

1. **The library cannot be used twice** (`Random.cpp:261`).  `see_random_deinit`
   leaves the global device, so the next `see_init` fails; on the way it touches
   the freed class.
2. **Shrinking an array of counted elements frees the wrong pointers**
   (`DynamicArray.c:326`): the address of an element rather than the element.
   The destroy and set functions pass what the documentation says.
3. **Resizing an array to more elements leaves its size** (`DynamicArray.c:361`).
   Room is made and elements are initialised behind the end, out of reach of get and
   set; `DynamicArray.h:462` says the array then has the number asked for.
4. **Different messages are equal** (`MsgBuffer.c:1576`): the result for a
   different number of parts is inverted.  In the trace one message has two INT32
   parts and the other a string of five bytes.
5. **Resynchronisation stops too early** (`Serial.c:185`): the loop that should
   look for SMSG ends as soon as one byte of the four is right.
6. **Adding to a time point subtracts** (`TimePoint.cpp:196`): `time_point_add_dur`,
   the method behind `see_time_point_add`, is that of the difference.

Met while modelling, and visible in the modules as they stand, without a run of
their own:

*Library life cycle.*  A failing `initialize` leaves the callers that wait
spinning for ever (`see_init.c:214`).  That loop reads a plain variable and may be
compiled to read it once, with the same outcome.  Both are among the scenarios of
`startup`, where `InitReturns` says nothing of them.  `see_init` during the last
`see_deinit` finds `g_is_init` set while classes go away (`see_init.c:200`; the
scenario "any_time", which `MCStartup` leaves out, and in which `UsersSeeAllClasses`
fails).  The random device is never freed
(`Random.cpp:280`).  On Windows, `windows_init` makes a class that `deinit` does
not destroy (`see_init.c:58`): `ClassesFreed` allows that one, and the next
`see_init` would fail on it too.

*Error classes.*  A waiter returns success though the maker's allocation failed
(`Error.c:230`), which is why `SuccessMeansReady`, and so `ErrorSuccessIsTrue`, ask
for enough memory.  The
thread that finds the pointer NULL, but counts 1 only after another thread made
the class, gets SEE_INVALID_ARGUMENT for a class that is ready (`Error.c:205`).

*Classes.*  `new_cls` gives up a class whose `class_init` fails but stores it in
`*out` all the same (`MetaClass.c:121`); none of the library's fails.
`see_index_error_new` and `see_timeout_error_new` use their class pointer without
the test that the other constructors make.  `see_overflow_error_new` leaves it to
an assertion that `*error_out` is NULL.  An exception in the initialiser of
`SeeRandom` is not caught.  `SeeMsgPart` and `SeeMsgBuffer` answer `equal` and
`not_equal`, but `less` and its like are refused, since they have no `compare`.
The slot `to_string` of a time point's class stays NULL; nothing calls it.  That
each initialiser looks its parent's up in the class of the object works since no
class of the library sets a slot of its parent's initialiser, which
`InitialisersOnce` checks.

*Arrays.*  `see_dynamic_array_shrink_to_fit` of an empty array
frees its block and keeps pointer and capacity (`DynamicArray.c:254`); the corner
"shrink empty" of `DynamicArray` models it, and `CapacityIsAllocated` fails with
it.  `see_dynamic_array_set` returns success whatever happened
(`DynamicArray.c:557`), for a position past the end too, where `DynamicArray.h:509`
has SEE_ERROR_INDEX.

*Messages.*  `msg_buffer_equal` leaves its result unset for two empty messages.
`msg_part_not_equal` always answers 0 (`MsgBuffer.c:225`).  A type byte that is
unknown stops a debug build in an assertion (`MsgBuffer.c:82`) where the
documentation has the message rejected.  A string that carries a 0 byte keeps its
length, but every copy of it is shorter, and writing one reads behind its end; the
properties that compare bytes except such strings.  A message with an unset part is
equal to an empty one, by the fault of finding 4.  As C's `==` has it, a message with
a NaN is not equal to its own copy.
When there is no memory for a string while decoding, the part is missing and the
return value is that of the next check (`MsgBuffer.c:895`).  A declared length
below 10 is accepted as an empty message.  `add_part` of an unset part fails and
keeps the part (`MsgBuffer.c:1758`), after which the message can be neither copied
nor encoded; no property is about such messages.  Failing calls lose references to parts (`from_buffer`,
`calc_length`), which the model does not count.

*Links.*  While resynchronising, the new byte goes to position 7 instead of 9, so
the header is wrong even when SMSG is found (`Serial.c:193`): `start` is a pointer,
and its size is taken for that of an array.  A size below 10 makes the rest to
read wrap around and overflow a small block (`Serial.c:216`).  A timeout in the
middle of a message discards what was read, and the next `read_msg` takes the rest of
the message for a header (`Serial.c:179`): `HeaderIsFound` fails without noise, too.

*Devices.*  What is not a terminal is closed, but its descriptor stays in the
object, and a later call acts on whoever has the number by then
(`PosixSerial.c:185`; `OwnDescriptor` fails when `Targets` has a file).  A `close`
that fails has the same effect (`PosixSerial.c:232`).  Destroying a serial whose
settings cannot be changed loses the descriptor (the ghost `lost`).  The speed of
the output is reported as that of the input (`PosixSerial.c:412`).  When `tcsetattr`
fails, `posix_serial_set_timeout` returns its -1, which is no `see_error`
(`PosixSerial.c:466`).  Closing hangs up
a device that another object may have open.

Under Windows, a timeout of 1 to 999 nanoseconds becomes 0, though the comment at
`WindowsSerial.c:454` has the smallest amount in mind; a read that times out returns success with 0 bytes, so that
`see_serial_read_msg` goes on for ever; a negative duration becomes a large
`DWORD`; and 230400 is translated to 256000.

*Time.*  A duration times the double 1.5 is itself (`cpp/Duration.hpp:91`): the double
is converted to an integer before the product.  `see_duration_new_s` and its kin multiply before they test
for overflow (`Duration.cpp:190`), so that the test may be compiled away: the
builds with `folded` accept what does not fit, and `Instants` has to allow it for
them.  `see_duration_set` and `see_time_point_set` test none of their arguments.
`see_clock_resolution` is declared but not defined, and `see_time_point_add`
defined but not declared.

## 6. What is not modelled, and why

- **Random generators**: they only draw numbers; the global device and its life is
  in `SeeInit`, the class in `ClassTables`.
- **The text of errors** and the `repr` functions: formatting.  Which error a call
  returns is the value of `ret` or `error` in each module.
- **Classes of clients**: `ClassTables` has the library's.
- **Reading and writing through the POSIX device** is in `SerialLink` and not
  composed with `PosixSerial`: the bytes do not depend on the descriptor.
- **Sleep and yield**: no state of the library.
- **Tests and build files**: read for the way the library is used.
- Clients that pass a pointer into an array's own block as an element, or leave
  the array while another thread uses it: outside what the library allows.

## 7. Plan

Modelled in the order of importance: the object layer first, since everything else
is an instance (`SeeObject`), then the two places where threads race
(`SeeInit`, `ErrorInit`), the containers (`DynamicArray`, `Stack`), the message
layer (`MsgBuffer`), the link (`SerialLink`), the devices (`PosixSerial`,
`WindowsSerial`), time (`Time`), and what a class is made of (`ClassTables`).  What
is left is a composition of `MsgBuffer` and `SeeObject`'s rules that counts the
references of parts which failing calls lose.

## 8. Running it

`tlc -config MCSeeObject.cfg MCSeeObject` and so on for the runs listed in
`PROJECT.json`, with the configuration named there; `tlapm SeeObjectProofs.tla`
and so on for the proofs, in any order.  No proof module takes more than a few
minutes.
