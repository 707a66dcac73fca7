------------------------------ MODULE MemoTable ------------------------------
(***************************************************************************)
(* What a cache of compiled kernels promises its callers: a call for a key *)
(* is answered with the kernel made for that key, always the same one; or  *)
(* it throws, only while there is none, and changes nothing.               *)
(***************************************************************************)
CONSTANTS
    Caller,     \* the threads
    Key,        \* what a kernel is made for
    Kernel,     \* the kernels there could be, records with a field "key"
    None        \* no call, no kernel

VARIABLES
    table,      \* the kernels that have been made
    asked,      \* asked[c]: the key c has called for, or None
    got         \* got[c]: what the last call of c returned, or None

vars == <<table, asked, got>>

Init ==
    /\ table = {}
    /\ asked = [c \in Caller |-> None]
    /\ got = [c \in Caller |-> None]

Ask(c, k) ==
    /\ asked[c] = None
    /\ asked' = [asked EXCEPT ![c] = k]
    /\ got' = [got EXCEPT ![c] = None]
    /\ UNCHANGED table

Answer(c, kernel) ==
    /\ asked[c] # None
    /\ kernel.key = asked[c]
    /\ \A other \in table : other.key = kernel.key => other = kernel
    /\ table' = table \cup {kernel}
    /\ got' = [got EXCEPT ![c] = kernel]
    /\ asked' = [asked EXCEPT ![c] = None]

Throw(c) ==
    /\ asked[c] # None
    /\ \A other \in table : other.key # asked[c]
    /\ asked' = [asked EXCEPT ![c] = None]
    /\ UNCHANGED <<table, got>>

Next ==
    \E c \in Caller :
        \/ \E k \in Key : Ask(c, k)
        \/ \E kernel \in Kernel : Answer(c, kernel)
        \/ Throw(c)

Spec == Init /\ [][Next]_vars
=============================================================================
