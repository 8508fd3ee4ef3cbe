------------------------------ MODULE MCStartup ------------------------------
(* Small instance of Startup: three threads bring the library up and down, and
   those that start it again wait until the last see_deinit has returned; two
   make error classes; one object and one error are made and used.  The build
   for Windows differs in few classes and gets fewer scenarios. *)
EXTENDS Startup

MCScenarios ==
  [build : {"posix"}, allocFails : BOOLEAN, rereads : BOOLEAN,
   restart : {"never", "after_deinit"}]
  \cup [build : {"windows"}, allocFails : BOOLEAN, rereads : {TRUE},
         restart : {"never"}]

MCOrders == {Lib!InitOrder("posix"), Lib!InitOrder("windows")}

MCErrorScenarios == [allocFails : BOOLEAN, rereads : BOOLEAN]

\* Enough memory, and a second use of the library.
SecondUse ==
  {[build |-> "posix", allocFails |-> FALSE, rereads |-> TRUE,
    restart |-> "after_deinit"]}
=============================================================================
