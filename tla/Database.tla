------------------------------ MODULE Database ------------------------------
(***************************************************************************)
(* What class Database of wca/databases.py promises its callers: a set     *)
(* that returns has stored its value as a whole, and get returns a value   *)
(* that was stored, or nothing.  A set that raises may have stored its     *)
(* value or not, and a write may take effect again, or late, as long as it *)
(* is outstanding: nothing stronger holds of a client that repeats         *)
(* requests after a timeout.                                               *)
(***************************************************************************)
CONSTANTS Clients, Keys, Values, None

VARIABLES
    store,        \* the value of every key
    calls,        \* the call each client is in
    outstanding   \* writes that may still take effect

databaseVars == <<store, calls, outstanding>>

Raised == [op |-> "raised"]
Returned(v) == [op |-> "returned", value |-> v]
Idle(c) == calls[c].op \in {"raised", "returned"}
SetCall(k, v, done) == [op |-> "set", key |-> k, value |-> v, done |-> done]
GetCall(k, v, done) == [op |-> "get", key |-> k, value |-> v, done |-> done]

Init ==
    /\ store = [k \in Keys |-> None]
    /\ calls = [c \in Clients |-> Raised]
    /\ outstanding = {}

Set(c, k, v) ==
    /\ Idle(c)
    /\ calls' = [calls EXCEPT ![c] = SetCall(k, v, FALSE)]
    /\ outstanding' = outstanding \cup {<<k, v>>}
    /\ UNCHANGED store

Get(c, k) ==
    /\ Idle(c)
    /\ calls' = [calls EXCEPT ![c] = GetCall(k, None, FALSE)]
    /\ UNCHANGED <<store, outstanding>>

(* Writes will not take effect any more. *)
MayForget == outstanding' \in SUBSET outstanding

(* A write takes effect, as a whole. *)
Effect(k, v) ==
    /\ <<k, v>> \in outstanding
    /\ store' = [store EXCEPT ![k] = v]
    /\ calls' = [c \in Clients |->
                    IF calls[c] = SetCall(k, v, FALSE) THEN SetCall(k, v, TRUE) ELSE calls[c]]
    /\ MayForget

(* The value of the key is looked up; only the last lookup is returned. *)
Lookup(c) ==
    /\ calls[c].op = "get"
    /\ calls' = [calls EXCEPT ![c] = GetCall(calls[c].key, store[calls[c].key], TRUE)]
    /\ UNCHANGED <<store, outstanding>>

Return(c) ==
    /\ ~Idle(c) /\ calls[c].done
    /\ calls' = [calls EXCEPT ![c] = Returned(calls[c].value)]
    /\ UNCHANGED store /\ MayForget

Raise(c) ==
    /\ ~Idle(c)
    /\ calls' = [calls EXCEPT ![c] = Raised]
    /\ UNCHANGED store /\ MayForget

Forget == MayForget /\ UNCHANGED <<store, calls>>

Next ==
    \/ \E c \in Clients, k \in Keys : Get(c, k) \/ \E v \in Values : Set(c, k, v)
    \/ \E k \in Keys, v \in Values : Effect(k, v)
    \/ \E c \in Clients : Lookup(c) \/ Return(c) \/ Raise(c)
    \/ Forget

Spec == Init /\ [][Next]_databaseVars
=============================================================================
