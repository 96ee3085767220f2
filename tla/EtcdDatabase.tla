---------------------------- MODULE EtcdDatabase ----------------------------
(***************************************************************************)
(* EtcdDatabase of wca/databases.py: a request is posted to the hosts of   *)
(* the cluster one after the other, until one answers; a host that does    *)
(* not answer in time is passed over, and any other failure is raised.  A  *)
(* request given up on may still reach its host and be carried out.        *)
(***************************************************************************)
EXTENDS Integers, FiniteSets

CONSTANTS Clients, Keys, Values, None,
    Hosts,      \* the number of hosts of the cluster
    MaxCalls    \* bound on the calls all clients make

ASSUME NoneIsNoValue == None \notin Values
ASSUME HostsAssumption == Hosts \in Nat \ {0}
ASSUME BoundAssumption == MaxCalls \in Nat

VARIABLES
    store,      \* etcd's key-value store, the same on every host
    call,       \* the call each client is in: its key, value and result
    host,       \* the host (1..Hosts) the client waits for
    requests,   \* requests under way, of the clients waiting for them or given up on
    answer,     \* the answer under way to a client: "none", "done" or "error"
    made        \* number of calls made

vars == <<store, call, host, requests, answer, made>>

Idle(c) == call[c].op \in {"raised", "returned"}

(* The request of client c to the next host. *)
_format_data(c, m) == [client |-> c, host |-> host[c] + 1, of |-> made, waiting |-> TRUE,
                       op |-> m.op, key |-> m.key, value |-> m.value]

Init ==
    /\ store = [k \in Keys |-> None]
    /\ call = [c \in Clients |-> [op |-> "raised"]]
    /\ host = [c \in Clients |-> 0]
    /\ requests = {}
    /\ answer = [c \in Clients |-> "none"]
    /\ made = 0

Post(c, m) ==
    /\ host' = [host EXCEPT ![c] = @ + 1]
    /\ answer' = [answer EXCEPT ![c] = "none"]
    /\ call' = [call EXCEPT ![c] = m]

Begin(c, m) ==
    /\ Idle(c) /\ made < MaxCalls
    /\ made' = made + 1
    /\ Post(c, m)
    /\ requests' = requests \cup {_format_data(c, m)}
    /\ UNCHANGED store

set(c, k, v) == Begin(c, [op |-> "set", key |-> k, value |-> v, done |-> FALSE])
get(c, k) == Begin(c, [op |-> "get", key |-> k, value |-> None, done |-> FALSE])

(* A host carries out a request; the answer only reaches a client that     *)
(* still waits for it.                                                     *)
Serve(r) ==
    /\ r \in requests
    /\ requests' = requests \ {r}
    /\ answer' = IF ~r.waiting THEN answer ELSE [answer EXCEPT ![r.client] = "done"]
    /\ \/ /\ r.op = "set"
          /\ store' = [store EXCEPT ![r.key] = r.value]
          /\ call' = [c \in Clients |->
                        IF call[c] = [op |-> "set", key |-> r.key, value |-> r.value, done |-> FALSE]
                        THEN [call[c] EXCEPT !.done = TRUE] ELSE call[c]]
       \/ /\ r.op = "get"
          /\ call' = [call EXCEPT ![r.client].value = store[r.key], ![r.client].done = TRUE]
          /\ UNCHANGED store
    /\ UNCHANGED <<host, made>>

(* Mutant: the earlier requests are still waited for. *)
GivenUp_none(c) == requests

(* A write given up on may still be carried out; a late lookup is nothing. *)
GivenUp(c) == {[r EXCEPT !.waiting = @ /\ r.client # c] :
                  r \in {q \in requests : q.client = c => q.op = "set"}}

(* An error but for a timeout: the host refuses the request                *)
(* (raise_for_status), or the connection breaks, perhaps after the host    *)
(* got the request: a write may be carried out all the same.               *)
Refuse(r) ==
    /\ r \in requests /\ r.waiting
    /\ requests' = GivenUp(r.client)
    /\ answer' = [answer EXCEPT ![r.client] = "error"]
    /\ UNCHANGED <<store, call, host, made>>

(* A request given up on is lost. *)
Lose(r) ==
    /\ r \in requests /\ ~r.waiting
    /\ requests' = requests \ {r}
    /\ UNCHANGED <<store, call, host, answer, made>>

Finished(c, outcome) ==
    /\ call' = [call EXCEPT ![c] = outcome]
    /\ host' = [host EXCEPT ![c] = 0]
    /\ answer' = [answer EXCEPT ![c] = "none"]
    /\ UNCHANGED <<store, made>>

(* Mutant: no answer is taken for an empty one. *)
Answered_or_not(c) ==
    /\ answer[c] # "error" /\ ~Idle(c)
    /\ answer[c] = "done" \/ host[c] = Hosts
    /\ Finished(c, [op |-> "returned", value |-> call[c].value])
    /\ requests' = GivenUp(c)

(* set and get return what the first answer says. *)
Answered(c) ==
    /\ answer[c] = "done"
    /\ Finished(c, [op |-> "returned", value |-> call[c].value]) /\ UNCHANGED requests

Raised(c) ==
    /\ answer[c] = "error"
    /\ Finished(c, [op |-> "raised"]) /\ UNCHANGED requests

(* Timeout on a host: the next one is tried with the same request. *)
TryNextHost(c) ==
    /\ ~Idle(c) /\ answer[c] = "none" /\ host[c] < Hosts
    /\ Post(c, call[c])
    /\ requests' = GivenUp(c) \cup {_format_data(c, call[c])}
    /\ UNCHANGED <<store, made>>

(* Mutant: the last host is waited for without end. *)
TimeoutOnAllHosts_never(c) == FALSE /\ UNCHANGED vars

(* Timeout on the last host is raised. *)
TimeoutOnAllHosts(c) ==
    /\ ~Idle(c) /\ answer[c] = "none" /\ host[c] = Hosts
    /\ Finished(c, [op |-> "raised"])
    /\ requests' = GivenUp(c)

Client(c) == Answered(c) \/ Raised(c) \/ TryNextHost(c) \/ TimeoutOnAllHosts(c)

Next ==
    \/ \E c \in Clients, k \in Keys : get(c, k) \/ \E v \in Values : set(c, k, v)
    \/ \E r \in requests : Serve(r) \/ Refuse(r) \/ Lose(r)
    \/ \E c \in Clients : Client(c)

(* A waiting client goes on: the request has a timeout. *)
Spec == Init /\ [][Next]_vars /\ \A c \in Clients : WF_vars(Client(c))

-----------------------------------------------------------------------------
Ops == [op : {"set"}, key : Keys, value : Values, done : BOOLEAN]
         \cup [op : {"get"}, key : Keys, value : Values \cup {None}, done : BOOLEAN]
         \cup [op : {"returned"}, value : Values \cup {None}] \cup [op : {"raised"}]

(* At most one request of a client is one it still waits for. *)
TypeOK ==
    /\ store \in [Keys -> Values \cup {None}]
    /\ \A c \in Clients :
          /\ call[c] \in Ops
          /\ host[c] \in 0..Hosts /\ (host[c] = 0 <=> Idle(c))
          /\ Cardinality({r \in requests : r.client = c /\ r.waiting}) <= (IF Idle(c) THEN 0 ELSE 1)
    /\ answer \in [Clients -> {"none", "done", "error"}]
    /\ made \in 0..MaxCalls

(* Every request not carried out may still write its value; so may the one *)
(* a waiting client sends to its next host.                                *)
Outstanding ==
    {<<r.key, r.value>> : r \in {q \in requests : q.op = "set"}}
      \cup {<<call[c].key, call[c].value>> :
               c \in {d \in Clients : call[d].op = "set"}}

D == INSTANCE Database WITH calls <- call, outstanding <- Outstanding

(* EtcdDatabase keeps the promises of Database over timeouts, repeated and *)
(* late requests: a set that returns was carried out as a whole on some    *)
(* host, and get returns a value the store held while it was called.       *)
ImplementsDatabase == D!Spec

(* Every call ends: it returns or raises (timeouts are passed to the next  *)
(* host, and the last one's is raised).                                    *)
CallsEnd == \A c \in Clients : ~Idle(c) ~> Idle(c)
=============================================================================
