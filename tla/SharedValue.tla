----------------------------- MODULE SharedValue -----------------------------
(***************************************************************************)
(* What a reference-counted value promises its users, with no counter in    *)
(* sight (rustyfill/src/alloc/arc, rustyfill/src/alloc/rc): strong handles  *)
(* keep the value, strong and weak handles keep its memory, the value is    *)
(* dropped or moved out once, after the last strong handle, and exclusive   *)
(* access is given only to the sole handle there is.                        *)
(***************************************************************************)
EXTENDS FiniteSets

CONSTANTS Handles, NoHandle

VARIABLES
  held,     \* held[h]: "free", "strong", "weak" or "dangling" (Weak::new())
  value,    \* "none", "raw" (uninitialised), "live", "dropped" or "taken"
  memory,   \* the allocation exists
  unique    \* the handle whose borrower has &mut access, or NoHandle

svars == <<held, value, memory, unique>>

Of(k) == {h \in Handles : held[h] = k}

Init ==
  /\ held = [h \in Handles |-> "free"]
  /\ value = "none"
  /\ ~memory
  /\ unique = NoHandle

Create(h) ==
  /\ ~memory
  /\ memory'
  /\ held[h] = "free"
  /\ \/ /\ held' = [held EXCEPT ![h] = "strong"]
        /\ value' \in {"raw", "live"}
     \/ /\ held' = [held EXCEPT ![h] = "weak"]      \* Arc::new_cyclic
        /\ value' = "raw"
  /\ UNCHANGED unique

\* Arc::new_cyclic ends: its Weak becomes the first strong handle.
Complete(h) ==
  /\ held[h] = "weak" /\ value = "raw" /\ Of("strong") = {}
  /\ held' = [held EXCEPT ![h] = "strong"]
  /\ value' = "live"
  /\ UNCHANGED <<memory, unique>>

\* A new handle on what some existing handle still keeps alive.
Join(n) ==
  /\ held[n] = "free" /\ unique = NoHandle
  /\ \/ /\ Of("strong") # {}
        /\ held' = [held EXCEPT ![n] = "strong"]
     \/ /\ Of("strong") \union Of("weak") # {}
        /\ held' = [held EXCEPT ![n] = "weak"]
  /\ UNCHANGED <<value, memory, unique>>

Dangle(n) ==
  /\ held[n] = "free"
  /\ held' = [held EXCEPT ![n] = "dangling"]
  /\ UNCHANGED <<value, memory, unique>>

Leave(h) ==
  /\ held[h] # "free" /\ unique # h
  /\ held' = [held EXCEPT ![h] = "free"]
  /\ UNCHANGED <<value, memory, unique>>

DropValue ==
  /\ memory /\ value = "live" /\ Of("strong") = {}
  /\ value' = "dropped"
  /\ UNCHANGED <<held, memory, unique>>

\* try_unwrap: the only strong handle leaves with the value.
Take(h) ==
  /\ memory /\ value = "live" /\ Of("strong") = {h} /\ unique = NoHandle
  /\ held' = [held EXCEPT ![h] = "free"]
  /\ value' = "taken"
  /\ UNCHANGED <<memory, unique>>

Free ==
  /\ memory /\ value # "live" /\ Of("strong") \union Of("weak") = {}
  /\ ~memory'
  /\ value' = "none"
  /\ UNCHANGED <<held, unique>>

Isolate(h) ==
  /\ memory /\ Of("strong") = {h} /\ Of("weak") = {} /\ unique = NoHandle
  /\ unique' = h
  /\ UNCHANGED <<held, value, memory>>

Write(h) ==
  /\ unique = h /\ value = "raw"
  /\ unique' = NoHandle
  /\ value' = "live"
  /\ UNCHANGED <<held, memory>>

EndAccess ==
  /\ unique # NoHandle
  /\ unique' = NoHandle
  /\ UNCHANGED <<held, value, memory>>

Next ==
  \/ DropValue \/ Free \/ EndAccess
  \/ \E h \in Handles :
       \/ Create(h) \/ Complete(h) \/ Join(h) \/ Dangle(h) \/ Leave(h)
       \/ Take(h) \/ Isolate(h) \/ Write(h)

Spec == Init /\ [][Next]_svars
===============================================================================
