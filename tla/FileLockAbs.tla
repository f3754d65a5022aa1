---------------------------- MODULE FileLockAbs -----------------------------
(***************************************************************************)
(* What record locks promise: every owner has a map from bytes to the kind *)
(* of lock it holds there, and a request changes the map of its owner at   *)
(* once, exactly on the bytes it names.  A request that fails for lack of  *)
(* a lock structure gives nothing, but it may have released bytes: some it *)
(* was asked about, and some it held with the type it was asked for.       *)
(***************************************************************************)
EXTENDS Integers

CONSTANTS
    Owner,      \* processes, of this machine or of others
    Byte,       \* bytes of the file
    Ask         \* regions asked for: [type, start, end]

VARIABLE
    held        \* the lock each owner has on each byte, or none

Init == held = [o \in Owner |-> [b \in Byte |-> "none"]]

Covers(r) == r.start .. r.end

\* r could be granted to o
Compatible(o, r) ==
    \A other \in Owner \ {o}, b \in Covers(r) :
      held[other][b] = "none" \/ (held[other][b] = "rd" /\ r.type = "rd")

Becomes(o, r, type) ==
    held' = [held EXCEPT ![o] = [b \in Byte |-> IF b \in Covers(r) THEN type ELSE @[b]]]

Grant(o, r)   == Becomes(o, r, r.type) /\ Compatible(o, r)
Release(o, r) == Becomes(o, r, "none")
Close(o)      == held' = [held EXCEPT ![o] = [b \in Byte |-> "none"]]

\* Bytes are lost; other owners and other bytes are left alone
Fail(o, r, type) ==
    /\ \A b \in Byte : \/ held'[o][b] = held[o][b]
                       \/ held'[o][b] = "none" /\ (b \in Covers(r) \/ held[o][b] = type)
    /\ \A other \in Owner \ {o} : held'[other] = held[other]

Next == \E o \in Owner :
    \/ \E r \in Ask : Grant(o, r) \/ Release(o, r) \/ Fail(o, r, r.type) \/ Fail(o, r, "un")
    \/ Close(o)

Spec == Init /\ [][Next]_held
=============================================================================
