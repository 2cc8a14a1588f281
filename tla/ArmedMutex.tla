------------------------------ MODULE ArmedMutex ------------------------------
(***************************************************************************)
(* What a heap-backed mutex promises to its users, whatever races its       *)
(* lazily allocated backend goes through (rustyfill/src/std/sync/mutex_):   *)
(* there is one backend, it appears once, it is locked by one thread at a   *)
(* time, and it goes away only with the mutex.                              *)
(***************************************************************************)
CONSTANTS Threads, NoOne

VARIABLES
  armed,   \* the backend exists: .lock() allocates nothing any more
  holder   \* the thread inside the critical section, or NoOne

avars == <<armed, holder>>

Init == armed = FALSE /\ holder = NoOne

Arm ==
  /\ ~armed
  /\ armed' = TRUE
  /\ UNCHANGED holder

Acquire(t) ==
  /\ armed /\ holder = NoOne
  /\ holder' = t
  /\ UNCHANGED armed

Release(t) ==
  /\ holder = t
  /\ holder' = NoOne
  /\ UNCHANGED armed

\* Dropping the mutex requires that no guard borrows it.
Disarm ==
  /\ armed /\ holder = NoOne
  /\ armed' = FALSE
  /\ UNCHANGED holder

Next == Arm \/ Disarm \/ \E t \in Threads : Acquire(t) \/ Release(t)

Spec == Init /\ [][Next]_avars
===============================================================================
