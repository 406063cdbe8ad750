----------------------- MODULE MCUniversalObservable -----------------------
(* UniversalObservable for TLC: an observer on each of two threads, both of *)
(* which notify, so that one is called at once and the other by a task.     *)
EXTENDS UniversalObservable

HomeOfTwo == [o \in Observers |-> IF o = "adapter" THEN "main" ELSE "plugin-client"]
=============================================================================
