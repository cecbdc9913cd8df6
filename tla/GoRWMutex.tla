----------------------------- MODULE GoRWMutex -----------------------------
(***************************************************************************)
(* Go's sync.RWMutex as a value and the operators that change it.          *)
(*                                                                         *)
(* A mutex is held by any number of readers ("active") or by one writer.   *)
(* A writer first announces itself and then waits for the active readers:  *)
(* from the announcement on, a new reader queues up ("blocked") behind it. *)
(* When the writer unlocks, every queued reader becomes active at once, so *)
(* neither side starves the other.  There is one writer in this system,    *)
(* the goroutine that reloads the indexes.                                 *)
(***************************************************************************)

RWMutexes(G) ==
    [active: SUBSET G, blocked: SUBSET G, writer: {"none", "waiting", "held"}]

FreeMutex == [active |-> {}, blocked |-> {}, writer |-> "none"]

RLock(m, g) ==
    IF m.writer = "none"
    THEN [m EXCEPT !.active = @ \cup {g}]
    ELSE [m EXCEPT !.blocked = @ \cup {g}]

RUnlock(m, g) == [m EXCEPT !.active = @ \ {g}]

AnnounceLock(m) == [m EXCEPT !.writer = "waiting"]

CanHold(m) == m.writer = "waiting" /\ m.active = {}

Hold(m) == [m EXCEPT !.writer = "held"]

Unlock(m) == [active |-> m.blocked, blocked |-> {}, writer |-> "none"]
=============================================================================
