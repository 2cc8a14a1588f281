---------------------------- MODULE SystemRandom ----------------------------
(***************************************************************************)
(* Random bytes from Linux (rustyfill/src/sys/random/linux.rs, mod.rs): the *)
(* getrandom system call with its fallbacks, chosen by two process-wide     *)
(* flags that threads read and write without a lock, and /dev/urandom,      *)
(* which yields bytes even before the kernel's pool is seeded.  Secure      *)
(* bytes wait for the pool; the keys of a hash map never do.                *)
(*                                                                         *)
(* The kernel is the environment: what it supports is fixed for the life of *)
(* the process, its pool becomes ready at some time or never, and files and *)
(* calls may fail.                                                         *)
(***************************************************************************)
EXTENDS Naturals

CONSTANTS
  Callers,
  Length     \* the largest buffer; the keys of a hash map fill one of that size

ASSUME LengthAssumption == Length \in Nat \ {0}

VARIABLES
  kernel,    \* symbol: libc has getrandom; call: the system call is there and
             \* allowed; insecure: it knows GRND_INSECURE
  pool,      \* the kernel's random pool is initialised
  resolved,  \* GETRANDOM_FN: "unset", "some" or "none"
  grnd_insecure_available,
  urandom_ready,
  device,    \* DEVICE holds /dev/urandom, open
  at,        \* where each thread is in getrandom_impl
  mode,      \* "secure": fill_bytes; "keys": hashmap_random_keys;
             \* "infallible": hashmap_random_keys_infallible
  rest,      \* bytes of the buffer still to fill
  flags,     \* the flags of the system call being made
  early,     \* some byte of the buffer was drawn before the pool was ready
  fault,     \* a call or a file failed this thread (history)
  answer     \* what its last call returned

kvars == <<kernel, pool>>
shared == <<resolved, grnd_insecure_available, urandom_ready, device>>
randomVars == <<kernel, pool, resolved, grnd_insecure_available, urandom_ready, device,
          at, mode, rest, flags, early, fault, answer>>

Modes == {"secure", "keys", "infallible"}
Insecure(t) == mode[t] # "secure"

RandomTypeOK ==
  /\ kernel \in [symbol : BOOLEAN, call : BOOLEAN, insecure : BOOLEAN]
  /\ pool \in BOOLEAN
  /\ resolved \in {"unset", "some", "none"}
  /\ grnd_insecure_available \in BOOLEAN /\ urandom_ready \in BOOLEAN
  /\ device \in BOOLEAN
  /\ at \in [Callers -> {"idle", "resolve", "flags", "call", "ready", "open",
                         "poll", "polling", "read"}]
  /\ mode \in [Callers -> Modes]
  /\ rest \in [Callers -> 0..Length]
  /\ flags \in [Callers -> {"none", "insecure", "nonblock"}]
  /\ early \in [Callers -> BOOLEAN] /\ fault \in [Callers -> BOOLEAN]
  /\ answer \in [Callers -> {"none", "filled", "mixed", "error"}]

RandomInit ==
  /\ kernel \in [symbol : BOOLEAN, call : BOOLEAN, insecure : BOOLEAN]
  /\ pool \in BOOLEAN
  /\ resolved = "unset"
  /\ grnd_insecure_available = TRUE
  /\ urandom_ready = FALSE
  /\ device = FALSE
  /\ at = [t \in Callers |-> "idle"]
  /\ mode = [t \in Callers |-> "secure"]
  /\ rest = [t \in Callers |-> 0]
  /\ flags = [t \in Callers |-> "none"]
  /\ early = [t \in Callers |-> FALSE]
  /\ fault = [t \in Callers |-> FALSE]
  /\ answer = [t \in Callers |-> "none"]

\* The environment: enough entropy has been gathered.
PoolReady ==
  /\ ~pool
  /\ pool' = TRUE
  /\ UNCHANGED <<kernel, shared, at, mode, rest, flags, early, fault, answer>>

Proceed(t, where) == at' = [at EXCEPT ![t] = where]

GetRandom(t) ==
  /\ at[t] = "idle"
  /\ \E k \in Modes, n \in 0..Length :
       /\ k # "secure" => n = Length
       /\ mode' = [mode EXCEPT ![t] = k]
       /\ rest' = [rest EXCEPT ![t] = n]
  /\ early' = [early EXCEPT ![t] = FALSE]
  /\ fault' = [fault EXCEPT ![t] = FALSE]
  /\ answer' = [answer EXCEPT ![t] = "none"]
  /\ Proceed(t, "resolve")
  /\ UNCHANGED <<kvars, shared, flags>>

\* Ok(()).  From hashmap_random_keys: the bytes as two keys.
Filled(t) ==
  /\ answer' = [answer EXCEPT ![t] = "filled"]
  /\ Proceed(t, "idle")

\* Err.  hashmap_random_keys_infallible mixes keys from a stack address instead.
Failed(t) ==
  /\ answer' = [answer EXCEPT ![t] = IF mode[t] = "infallible" THEN "mixed" ELSE "error"]
  /\ Proceed(t, "idle")

\* Err from what the environment did.
Broken(t) ==
  /\ fault' = [fault EXCEPT ![t] = TRUE]
  /\ Failed(t)

(***************************************************************************)
(* getrandom_syscall.                                                      *)
(***************************************************************************)

\* resolve_getrandom: the OnceCell runs dlsym once.
Resolve(t) ==
  /\ at[t] = "resolve"
  /\ resolved' = IF resolved # "unset" THEN resolved
                 ELSE IF kernel.symbol THEN "some" ELSE "none"
  /\ Proceed(t, IF resolved' = "some" THEN "flags" ELSE "ready")
  /\ UNCHANGED <<kvars, grnd_insecure_available, urandom_ready, device,
                 mode, rest, flags, early, fault, answer>>

\* The top of the loop: the buffer is full.
SyscallDone(t) ==
  /\ at[t] = "flags" /\ rest[t] = 0
  /\ Filled(t)
  /\ UNCHANGED <<kvars, shared, mode, rest, flags, early, fault>>

PickFlags(t) ==
  /\ at[t] = "flags" /\ rest[t] > 0
  /\ flags' = [flags EXCEPT ![t] =
       IF ~Insecure(t) THEN "none"
       ELSE IF grnd_insecure_available THEN "insecure" ELSE "nonblock"]
  /\ Proceed(t, "call")
  /\ UNCHANGED <<kvars, shared, mode, rest, early, fault, answer>>

\* What the kernel may answer; with flags 0 the call waits for the pool.
Unavailable == ~kernel.call
Unsupported(t) == kernel.call /\ flags[t] = "insecure" /\ ~kernel.insecure
WouldBlock(t) == kernel.call /\ flags[t] = "nonblock" /\ ~pool
Served(t) ==
  /\ kernel.call
  /\ flags[t] = "insecure" => kernel.insecure
  /\ flags[t] # "insecure" => pool

\* ret != -1: some of the bytes, or all.
Bytes(t) ==
  /\ at[t] = "call" /\ Served(t)
  /\ \E n \in 1..rest[t] : rest' = [rest EXCEPT ![t] = @ - n]
  /\ early' = [early EXCEPT ![t] = @ \/ ~pool]
  /\ Proceed(t, "flags")
  /\ UNCHANGED <<kvars, shared, mode, flags, fault, answer>>

\* EINTR: a signal arrives while the call waits or works.
Interrupted(t) ==
  /\ at[t] = "call" /\ kernel.call
  /\ Served(t) \/ flags[t] = "none"
  /\ Proceed(t, "flags")
  /\ UNCHANGED <<kvars, shared, mode, rest, flags, early, fault, answer>>

\* Mutant of InsecureRejected: the flag all threads share is asked instead.
InsecureStillAvailable(t) == Insecure(t) /\ grnd_insecure_available

\* The code's test that EINVAL means GRND_INSECURE: the flags of this call.
InsecureRejected(t) == flags[t] = "insecure"

\* EINVAL: no GRND_INSECURE in this kernel, for any thread, from now on.
InvalidFlags(t) ==
  /\ at[t] = "call" /\ Unsupported(t)
  /\ IF InsecureRejected(t)
     THEN /\ grnd_insecure_available' = FALSE
          /\ Proceed(t, "flags")
          /\ UNCHANGED answer
     ELSE /\ Failed(t)
          /\ UNCHANGED grnd_insecure_available
  /\ UNCHANGED <<kvars, resolved, urandom_ready, device, mode, rest, flags, early, fault>>

\* EAGAIN, ENOSYS or EPERM: on to /dev/urandom, which fills the buffer anew.
FallBack(t) ==
  /\ at[t] = "call"
  /\ Unavailable \/ WouldBlock(t)
  /\ Proceed(t, "ready")
  /\ UNCHANGED <<kvars, shared, mode, rest, flags, early, fault, answer>>

\* Any other error.
SyscallFails(t) ==
  /\ at[t] = "call" /\ Served(t)
  /\ Broken(t)
  /\ UNCHANGED <<kvars, shared, mode, rest, flags, early>>

(***************************************************************************)
(* wait_for_urandom_ready.                                                 *)
(***************************************************************************)
\* Mutants of NeedNotWait: /dev/urandom is open, so somebody must have waited;
\* and a pool that everybody waits for.
DeviceOpen(t) == Insecure(t) \/ urandom_ready \/ device
OnlyWhenReady(t) == urandom_ready

NeedNotWait(t) == Insecure(t) \/ urandom_ready

CheckReady(t) ==
  /\ at[t] = "ready"
  /\ Proceed(t, IF NeedNotWait(t) THEN "read" ELSE "open")
  /\ UNCHANGED <<kvars, shared, mode, rest, flags, early, fault, answer>>

OpenRandom(t) ==
  /\ at[t] = "open"
  /\ Proceed(t, "poll")
  /\ UNCHANGED <<kvars, shared, mode, rest, flags, early, fault, answer>>

\* while !urandom_ready
PollLoop(t) ==
  /\ at[t] = "poll"
  /\ Proceed(t, IF urandom_ready THEN "read" ELSE "polling")
  /\ UNCHANGED <<kvars, shared, mode, rest, flags, early, fault, answer>>

\* poll returns 1 with POLLIN: what it waited for.
Polled(t) ==
  /\ at[t] = "polling" /\ pool
  /\ urandom_ready' = TRUE
  /\ Proceed(t, "read")
  /\ UNCHANGED <<kvars, resolved, grnd_insecure_available, device,
                 mode, rest, flags, early, fault, answer>>

\* EINTR: round the loop again.
PollInterrupted(t) ==
  /\ at[t] = "polling"
  /\ Proceed(t, "poll")
  /\ UNCHANGED <<kvars, shared, mode, rest, flags, early, fault, answer>>

\* /dev/random cannot be opened, or poll fails.
PollFails(t) ==
  /\ at[t] \in {"open", "polling"}
  /\ Broken(t)
  /\ UNCHANGED <<kvars, shared, mode, rest, flags, early>>

(***************************************************************************)
(* read_urandom: read_exact over the whole buffer.                         *)
(***************************************************************************)
Read(t) ==
  /\ at[t] = "read"
  /\ device' = TRUE
  /\ rest' = [rest EXCEPT ![t] = 0]
  /\ early' = [early EXCEPT ![t] = ~pool]
  /\ Filled(t)
  /\ UNCHANGED <<kvars, resolved, grnd_insecure_available, urandom_ready,
                 mode, flags, fault>>

\* The device cannot be opened, and DEVICE stays empty, or the read fails.
ReadFails(t) ==
  /\ at[t] = "read"
  /\ device' \in {device, TRUE}
  /\ Broken(t)
  /\ UNCHANGED <<kvars, resolved, grnd_insecure_available, urandom_ready,
                 mode, rest, flags, early>>

\* What a call does when nothing fails or interrupts it.
Progress(t) ==
  \/ Resolve(t) \/ SyscallDone(t) \/ PickFlags(t) \/ Bytes(t) \/ InvalidFlags(t) \/ FallBack(t)
  \/ CheckReady(t) \/ OpenRandom(t) \/ PollLoop(t) \/ Polled(t) \/ Read(t)

Fault(t) == SyscallFails(t) \/ PollFails(t) \/ ReadFails(t)

RandomNext ==
  \/ PoolReady
  \/ \E t \in Callers :
       GetRandom(t) \/ Progress(t) \/ Fault(t) \/ Interrupted(t) \/ PollInterrupted(t)

RandomSpec == RandomInit /\ [][RandomNext]_randomVars

(***************************************************************************)
(* A thread in a call is scheduled, and signals do not interrupt the same   *)
(* call for ever: an answer that can be had again and again is had.  Nothing *)
(* says that the pool becomes ready, that a file fails, or that anyone      *)
(* calls.                                                                  *)
(***************************************************************************)
Fairness == \A t \in Callers :
  WF_randomVars(Progress(t)) /\ SF_randomVars(Bytes(t)) /\ SF_randomVars(Polled(t))

FairRandomSpec == RandomSpec /\ Fairness

(***************************************************************************)
(* Properties.                                                             *)
(***************************************************************************)

\* No byte that fill_bytes returns was drawn before the kernel's pool was
\* seeded, whichever fallback it took and whichever thread set URANDOM_READY.
SecureIsSeeded == \A t \in Callers :
  answer[t] = "filled" /\ mode[t] = "secure" => ~early[t]

\* A call fails, or falls back on mixed keys, only because a file or a system
\* call failed it: never because another thread has just found out that
\* GRND_INSECURE is not supported.
ErrorsHaveCause == \A t \in Callers : answer[t] \in {"error", "mixed"} => fault[t]

\* The keys of a hash map are had even if the pool is never seeded; a secure
\* call returns once it is.
CallsReturn == \A t \in Callers :
  /\ at[t] # "idle" /\ Insecure(t) ~> at[t] = "idle"
  /\ at[t] # "idle" /\ pool ~> at[t] = "idle"
===============================================================================
