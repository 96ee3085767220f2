------------------------- MODULE EtcdDatabaseProofs -------------------------
(***************************************************************************)
(* Proofs about EtcdDatabase, for any clients, keys, values, hosts and     *)
(* number of calls: it implements Database.                                *)
(*                                                                         *)
(* What the refinement rests on is that an answer belongs to the call the  *)
(* client is in.  The inductive invariant IInv says so of the requests     *)
(* under way (Awaited, Single) and of the answers (Answers): only writes   *)
(* are left behind by a client that gives up, and a request that is still  *)
(* waited for is the only one, with the operation and the key of the call. *)
(***************************************************************************)
EXTENDS EtcdDatabase, FiniteSetTheorems, TLAPS

Requests ==
  [client : Clients, host : 1..Hosts, of : Nat, waiting : BOOLEAN,
   op : {"set", "get"}, key : Keys, value : Values \cup {None}]

Types ==
  /\ store \in [Keys -> Values \cup {None}]
  /\ call \in [Clients -> Ops]
  /\ host \in [Clients -> 0..Hosts]
  /\ \A c \in Clients : host[c] = 0 <=> Idle(c)
  /\ requests \subseteq Requests
  /\ \A r \in requests : r.op = "set" => r.value \in Values
  /\ answer \in [Clients -> {"none", "done", "error"}]
  /\ made \in 0..MaxCalls

\* A request that is waited for is that of its client's call, which has no
\* answer yet; only a write is left under way by a client that gives up.
Awaited ==
  \A r \in requests :
    /\ r.waiting =>
         /\ answer[r.client] = "none"
         /\ call[r.client].op = r.op
         /\ call[r.client].key = r.key
         /\ r.op = "set" => call[r.client].value = r.value
    /\ r.op = "get" => r.waiting

\* A client waits for one request at a time.
Single ==
  \A r, s \in requests : r.waiting /\ s.waiting /\ r.client = s.client => r = s

\* An answer is that of the call the client is in.
Answers ==
  \A c \in Clients :
    /\ answer[c] # "none" => ~Idle(c)
    /\ answer[c] = "done" => call[c].done

IInv == Types /\ Awaited /\ Single /\ Answers

-----------------------------------------------------------------------------

\* The calls a client can be in.
SetCalls == [op : {"set"}, key : Keys, value : Values, done : BOOLEAN]
GetCalls == [op : {"get"}, key : Keys, value : Values \cup {None}, done : BOOLEAN]

LEMMA CallsOfClients ==
  ASSUME IInv, NEW c \in Clients
  PROVE  /\ call[c].op \in {"set", "get", "returned", "raised"}
         /\ call[c].op = "set" => call[c] \in SetCalls
         /\ call[c].op = "get" => call[c] \in GetCalls
         /\ Idle(c) <=> call[c].op \notin {"set", "get"}
<1>1. call[c] \in Ops
    BY DEF IInv, Types
<1> QED
    BY <1>1 DEF Ops, SetCalls, GetCalls, Idle

\* IInv implies the type invariant: one request is waited for at most.
LEMMA IInvTypeOK == IInv => TypeOK
<1> SUFFICES ASSUME IInv PROVE TypeOK
    OBVIOUS
<1>1. ASSUME NEW c \in Clients
      PROVE  Cardinality({r \in requests : r.client = c /\ r.waiting})
               <= (IF Idle(c) THEN 0 ELSE 1)
  <2> DEFINE W == {r \in requests : r.client = c /\ r.waiting}
  <2>1. CASE W = {}
      BY <2>1, FS_EmptySet
  <2>2. CASE W # {}
    <3>1. PICK r \in W : TRUE
        BY <2>2
    <3>2. W = {r}
        BY <3>1 DEF IInv, Single
    <3>3. ~Idle(c)
        BY <3>1 DEF IInv, Awaited, Types, Requests, Idle
    <3>4. Cardinality({r}) = 1
        BY FS_Singleton
    <3> QED
        BY <3>2, <3>3, <3>4
  <2> QED
      BY <2>1, <2>2
<1> QED
    BY <1>1 DEF TypeOK, IInv, Types

\* Initially no client has called.
LEMMA InitIInv == Init => IInv
BY HostsAssumption, BoundAssumption
DEF Init, IInv, Types, Awaited, Single, Answers, Idle, Ops

\* What is left of the requests when client c waits for none of them.
Kept(c, rest) ==
  /\ rest \subseteq Requests
  /\ \A r \in rest : r.op = "set" => r.value \in Values
  /\ \A r \in rest : r.waiting => r \in requests /\ r.client # c
  /\ \A r \in rest : r.op = "get" => r.waiting

\* A client that gives up leaves its writes under way, waits for none of them,
\* and does not touch the requests of others.
LEMMA GivenUpRequests ==
  ASSUME IInv, NEW c \in Clients
  PROVE  /\ Kept(c, GivenUp(c))
         /\ \A r \in GivenUp(c) : \E q \in requests :
              q.op = r.op /\ q.key = r.key /\ q.value = r.value
<1> SUFFICES ASSUME NEW r \in GivenUp(c)
             PROVE  /\ r \in Requests
                    /\ r.op = "set" => r.value \in Values
                    /\ r.waiting => r \in requests /\ r.client # c
                    /\ r.op = "get" => r.waiting
                    /\ \E q \in requests :
                         q.op = r.op /\ q.key = r.key /\ q.value = r.value
    BY DEF Kept
<1>1. PICK q \in requests : /\ q.client = c => q.op = "set"
                            /\ r = [q EXCEPT !.waiting = q.waiting /\ q.client # c]
    BY DEF GivenUp
<1>2. q \in Requests
    BY DEF IInv, Types
<1>3. PICK b \in BOOLEAN : b = (q.waiting /\ q.client # c)
    OBVIOUS
<1>4. r = [q EXCEPT !.waiting = b]
    BY <1>1, <1>3
<1>5. /\ r \in Requests /\ r.op = q.op /\ r.key = q.key /\ r.value = q.value
      /\ r.client = q.client /\ r.waiting = b
    BY <1>2, <1>4 DEF Requests
<1>6. r.waiting => r = q
  <2>1. ASSUME r.waiting PROVE b = q.waiting
      BY <1>2, <1>3, <1>5, <2>1 DEF Requests
  <2>2. [q EXCEPT !.waiting = q.waiting] = q
      BY <1>2 DEF Requests
  <2> QED
      BY <1>4, <2>1, <2>2
<1>7. r.op = "get" => r.waiting
    BY <1>1, <1>3, <1>5 DEF IInv, Awaited
<1>8. r.waiting => r \in requests /\ r.client # c
    BY <1>3, <1>5, <1>6
<1>9. r.op = "set" => r.value \in Values
    BY <1>5 DEF IInv, Types
<1> QED
    BY <1>5, <1>7, <1>8, <1>9

\* The request of a call is one of its operation, key and value.
LEMMA FormattedData ==
  ASSUME IInv, NEW c \in Clients, NEW m \in SetCalls \cup GetCalls, host[c] < Hosts
  PROVE  LET q == _format_data(c, m)
         IN  /\ q \in Requests /\ q.client = c /\ q.waiting
             /\ q.op = m.op /\ q.key = m.key /\ q.value = m.value
             /\ q.op = "set" => q.value \in Values
BY HostsAssumption, BoundAssumption
DEF IInv, Types, _format_data, Requests, SetCalls, GetCalls

\* A request is posted to a host: that of a new call, or that of a call whose
\* request to the host before is given up on.
LEMMA PostStep ==
  ASSUME IInv, NEW c \in Clients, NEW m \in SetCalls \cup GetCalls,
         host[c] < Hosts, Post(c, m), UNCHANGED store, made' \in 0..MaxCalls,
         NEW rest, Kept(c, rest),
         requests' = rest \cup {_format_data(c, m)}
  PROVE  IInv'
<1>1. PICK q : q = _format_data(c, m)
    OBVIOUS
<1>2. /\ q \in Requests /\ q.client = c /\ q.waiting
      /\ q.op = m.op /\ q.key = m.key /\ q.value = m.value
      /\ q.op = "set" => q.value \in Values
    BY <1>1, FormattedData
<1>3. requests' = rest \cup {q}
    BY <1>1
<1>4. m \in Ops /\ m.op \in {"set", "get"}
    BY DEF Ops, SetCalls, GetCalls
<1>5. /\ call' \in [Clients -> Ops] /\ call'[c] = m
      /\ answer' \in [Clients -> {"none", "done", "error"}] /\ answer'[c] = "none"
      /\ host' \in [Clients -> 0..Hosts] /\ host'[c] # 0
      /\ \A d \in Clients \ {c} :
           call'[d] = call[d] /\ answer'[d] = answer[d] /\ host'[d] = host[d]
    BY <1>4, HostsAssumption DEF Post, IInv, Types
<1>6. Types'
    BY <1>2, <1>3, <1>4, <1>5 DEF IInv, Types, Idle, Kept
<1>7. Awaited'
  <2> SUFFICES ASSUME NEW r \in requests'
               PROVE  /\ r.waiting =>
                           /\ answer'[r.client] = "none"
                           /\ call'[r.client].op = r.op
                           /\ call'[r.client].key = r.key
                           /\ r.op = "set" => call'[r.client].value = r.value
                      /\ r.op = "get" => r.waiting
      BY DEF Awaited
  <2>1. CASE r = q
      BY <1>2, <1>5, <2>1
  <2>2. CASE r \in rest
    <3>1. r \in Requests
        BY <2>2 DEF Kept
    <3>2. r.client \in Clients
        BY <3>1 DEF Requests
    <3> QED
        BY <1>5, <2>2, <3>2 DEF IInv, Awaited, Kept
  <2> QED
      BY <1>3, <2>1, <2>2
<1>8. Single'
    BY <1>2, <1>3 DEF IInv, Single, Kept
<1>9. Answers'
    BY <1>4, <1>5 DEF IInv, Answers, Idle
<1> QED
    BY <1>6, <1>7, <1>8, <1>9 DEF IInv

\* A client's call ends, with none of its requests waited for.
LEMMA FinishedStep ==
  ASSUME IInv, NEW c \in Clients,
         NEW o \in [op : {"returned"}, value : Values \cup {None}] \cup [op : {"raised"}],
         Finished(c, o),
         Kept(c, requests')
  PROVE  IInv'
<1>1. o \in Ops /\ o.op \in {"returned", "raised"}
    BY DEF Ops
<1>2. /\ call' \in [Clients -> Ops] /\ call'[c] = o
      /\ answer' \in [Clients -> {"none", "done", "error"}] /\ answer'[c] = "none"
      /\ host' \in [Clients -> 0..Hosts] /\ host'[c] = 0
      /\ \A d \in Clients \ {c} :
           call'[d] = call[d] /\ answer'[d] = answer[d] /\ host'[d] = host[d]
      /\ store' = store /\ made' = made
    BY <1>1, HostsAssumption DEF Finished, IInv, Types
<1>3. Types'
    BY <1>1, <1>2 DEF IInv, Types, Idle, Kept
<1>4. Awaited'
  <2> SUFFICES ASSUME NEW r \in requests'
               PROVE  /\ r.waiting =>
                           /\ answer'[r.client] = "none"
                           /\ call'[r.client].op = r.op
                           /\ call'[r.client].key = r.key
                           /\ r.op = "set" => call'[r.client].value = r.value
                      /\ r.op = "get" => r.waiting
      BY DEF Awaited
  <2>1. r \in Requests
      BY DEF Kept
  <2>2. r.client \in Clients
      BY <2>1 DEF Requests
  <2> QED
      BY <1>2, <2>2 DEF IInv, Awaited, Kept
<1>5. Single'
    BY DEF IInv, Single, Kept
<1>6. Answers'
    BY <1>2 DEF IInv, Answers, Idle
<1> QED
    BY <1>3, <1>4, <1>5, <1>6 DEF IInv

\* A host carries a request out.
LEMMA ServeStep ==
  ASSUME IInv, NEW r \in requests, Serve(r)
  PROVE  IInv'
<1>1. r \in Requests /\ r.client \in Clients
    BY DEF IInv, Types, Requests
<1>2. /\ requests' = requests \ {r} /\ host' = host /\ made' = made
      /\ answer' = IF ~r.waiting THEN answer ELSE [answer EXCEPT ![r.client] = "done"]
    BY DEF Serve
<1>3. /\ store' \in [Keys -> Values \cup {None}]
      /\ call' \in [Clients -> Ops]
      /\ \A c \in Clients : call'[c].op = call[c].op
      /\ \A c \in Clients : call[c].op \in {"set", "get"} => call'[c].key = call[c].key
      /\ \A c \in Clients : call[c].op = "set" => call'[c].value = call[c].value
      /\ \A c \in Clients : call[c].op \in {"set", "get"} /\ call[c].done => call'[c].done
      /\ r.waiting => call'[r.client].done
  <2>1. CASE r.op = "set"
    <3>1. /\ store' = [store EXCEPT ![r.key] = r.value]
          /\ call' = [c \in Clients |->
                        IF call[c] = [op |-> "set", key |-> r.key, value |-> r.value, done |-> FALSE]
                        THEN [call[c] EXCEPT !.done = TRUE] ELSE call[c]]
        BY <2>1 DEF Serve
    <3>2. r.key \in Keys /\ r.value \in Values
        BY <1>1, <2>1 DEF IInv, Types, Requests
    <3>3. PICK a : a = [op |-> "set", key |-> r.key, value |-> r.value, done |-> FALSE]
        OBVIOUS
    <3>4. PICK b : b = [a EXCEPT !.done = TRUE]
        OBVIOUS
    <3>5. /\ a.op = "set" /\ a.key = r.key /\ a.value = r.value /\ ~a.done
          /\ b \in SetCalls /\ b.op = "set" /\ b.key = r.key /\ b.value = r.value /\ b.done
        BY <3>2, <3>3, <3>4 DEF SetCalls
    <3>6. \A c \in Clients : call'[c] = IF call[c] = a THEN b ELSE call[c]
        BY <3>1, <3>3, <3>4
    <3>7. call' \in [Clients -> Ops]
      <4>1. b \in Ops
          BY <3>5 DEF Ops, SetCalls
      <4> QED
          BY <3>1, <3>6, <4>1 DEF IInv, Types
    <3>8. ASSUME r.waiting PROVE call'[r.client].done
      <4>1. /\ call[r.client].op = "set" /\ call[r.client].key = r.key
            /\ call[r.client].value = r.value
          BY <2>1, <3>8 DEF IInv, Awaited
      <4>2. call[r.client] \in SetCalls
          BY <1>1, <4>1, CallsOfClients
      <4>3. ~call[r.client].done => call[r.client] = a
          BY <3>3, <4>1, <4>2 DEF SetCalls
      <4> QED
          BY <1>1, <3>5, <3>6, <4>3
    <3> QED
        BY <3>1, <3>2, <3>5, <3>6, <3>7, <3>8 DEF IInv, Types
  <2>2. CASE r.op = "get"
    <3>1. /\ store' = store
          /\ call' = [call EXCEPT ![r.client].value = store[r.key],
                                  ![r.client].done = TRUE]
        BY <2>2 DEF Serve
    <3>2. call[r.client].op = "get" /\ call[r.client].key = r.key /\ r.key \in Keys
        BY <1>1, <2>2 DEF IInv, Awaited, Requests
    <3>3. PICK a \in GetCalls : a = call[r.client]
        BY <1>1, <3>2, CallsOfClients
    <3>4. PICK v \in Values \cup {None} : v = store[r.key]
        BY <3>2 DEF IInv, Types
    <3>5. PICK b : b = [a EXCEPT !.value = v, !.done = TRUE]
        OBVIOUS
    <3>6. b \in GetCalls /\ b.op = "get" /\ b.key = a.key /\ b.done
        BY <3>3, <3>4, <3>5 DEF GetCalls
    <3>7. call' = [call EXCEPT ![r.client] = b]
        BY <1>1, <3>1, <3>3, <3>4, <3>5 DEF IInv, Types
    <3>8. b \in Ops
        BY <3>6 DEF Ops, GetCalls
    <3> QED
        BY <1>1, <3>1, <3>2, <3>3, <3>6, <3>7, <3>8 DEF IInv, Types
  <2> QED
      BY <1>1, <2>1, <2>2 DEF Requests
<1>4. Types'
    BY <1>1, <1>2, <1>3 DEF IInv, Types, Idle
<1>5. Awaited'
  <2> SUFFICES ASSUME NEW q \in requests'
               PROVE  /\ q.waiting =>
                           /\ answer'[q.client] = "none"
                           /\ call'[q.client].op = q.op
                           /\ call'[q.client].key = q.key
                           /\ q.op = "set" => call'[q.client].value = q.value
                      /\ q.op = "get" => q.waiting
      BY DEF Awaited
  <2>1. q \in requests /\ q # r /\ q.client \in Clients /\ q.op \in {"set", "get"}
      BY <1>2 DEF IInv, Types, Requests
  <2>2. q.waiting /\ r.waiting => q.client # r.client
      BY <2>1 DEF IInv, Single
  <2>3. q.waiting => answer'[q.client] = answer[q.client]
      BY <1>1, <1>2, <2>1, <2>2 DEF IInv, Types
  <2> QED
      BY <1>3, <2>1, <2>3 DEF IInv, Awaited
<1>6. Single'
    BY <1>2 DEF IInv, Single
<1>7. Answers'
  <2> SUFFICES ASSUME NEW c \in Clients
               PROVE  /\ answer'[c] # "none" => ~Idle(c)'
                      /\ answer'[c] = "done" => call'[c].done
      BY DEF Answers
  <2>1. CASE r.waiting /\ c = r.client
    <3>1. call'[c].op = r.op /\ r.op \in {"set", "get"}
        BY <1>1, <1>3, <2>1 DEF IInv, Awaited, Requests
    <3> QED
        BY <1>3, <2>1, <3>1 DEF Idle
  <2>2. CASE ~(r.waiting /\ c = r.client)
    <3>1. answer'[c] = answer[c]
        BY <1>1, <1>2, <2>2 DEF IInv, Types
    <3>2. answer[c] # "none" => call[c].op \in {"set", "get"}
        BY CallsOfClients DEF IInv, Answers
    <3> QED
        BY <1>3, <3>1, <3>2 DEF IInv, Answers, Idle
  <2> QED
      BY <2>1, <2>2
<1> QED
    BY <1>4, <1>5, <1>6, <1>7 DEF IInv

\* A call begins.
LEMMA BeginStep ==
  ASSUME IInv, NEW c \in Clients, NEW m \in SetCalls \cup GetCalls, Begin(c, m)
  PROVE  IInv'
<1>1. host[c] < Hosts
    BY HostsAssumption DEF Begin, IInv, Types
<1>2. made' \in 0..MaxCalls
    BY BoundAssumption DEF Begin, IInv, Types
<1>3. Kept(c, requests)
  <2>1. ASSUME NEW r \in requests, r.waiting PROVE r.client # c
      BY <2>1 DEF IInv, Types, Awaited, Requests, Begin, Idle
  <2> QED
      BY <2>1 DEF Kept, IInv, Types, Awaited
<1> QED
    BY <1>1, <1>2, <1>3, PostStep DEF Begin

\* Once a call is answered none of its client's requests is waited for.
LEMMA AnsweredKept ==
  ASSUME IInv, NEW c \in Clients, answer[c] # "none"
  PROVE  Kept(c, requests)
BY DEF Kept, IInv, Types, Awaited

\* Every step preserves the invariant.
LEMMA IInvStep == IInv /\ [Next]_vars => IInv'
<1> SUFFICES ASSUME IInv, [Next]_vars PROVE IInv'
    OBVIOUS
<1>1. ASSUME NEW c \in Clients, NEW k \in Keys, get(c, k) PROVE IInv'
  <2>1. [op |-> "get", key |-> k, value |-> None, done |-> FALSE] \in GetCalls
      BY DEF GetCalls
  <2> QED
      BY <1>1, <2>1, BeginStep DEF get
<1>2. ASSUME NEW c \in Clients, NEW k \in Keys, NEW v \in Values, set(c, k, v)
      PROVE  IInv'
  <2>1. [op |-> "set", key |-> k, value |-> v, done |-> FALSE] \in SetCalls
      BY DEF SetCalls
  <2> QED
      BY <1>2, <2>1, BeginStep DEF set
<1>3. ASSUME NEW r \in requests, Serve(r) PROVE IInv'
    BY <1>3, ServeStep
<1>4. ASSUME NEW r \in requests, Refuse(r) PROVE IInv'
  <2>1. PICK c \in Clients : c = r.client /\ r.op \in {"set", "get"}
      BY DEF IInv, Types, Requests
  <2>2. /\ requests' = GivenUp(c) /\ answer' = [answer EXCEPT ![c] = "error"]
        /\ call' = call /\ UNCHANGED <<store, host, made>>
      BY <1>4, <2>1 DEF Refuse
  <2>3. Kept(c, requests')
      BY <2>2, GivenUpRequests
  <2>4. Types'
      BY <2>2, <2>3 DEF IInv, Types, Idle, Kept
  <2>5. ASSUME NEW q \in requests', q.waiting
        PROVE  /\ q \in requests /\ q.client \in Clients
               /\ answer'[q.client] = answer[q.client]
      BY <2>2, <2>3, <2>5 DEF IInv, Types, Requests, Kept
  <2>6. Awaited'
      BY <2>2, <2>3, <2>5 DEF IInv, Awaited, Kept
  <2>7. Single'
      BY <2>5 DEF IInv, Single
  <2>8. Answers'
    <3>1. r.waiting /\ call[c].op = r.op
        BY <1>4, <2>1 DEF Refuse, IInv, Awaited
    <3> QED
        BY <2>1, <2>2, <3>1 DEF IInv, Types, Answers, Idle
  <2> QED
      BY <2>4, <2>6, <2>7, <2>8 DEF IInv
<1>5. ASSUME NEW r \in requests, Lose(r) PROVE IInv'
    BY <1>5 DEF Lose, IInv, Types, Awaited, Single, Answers, Idle
<1>6. ASSUME NEW c \in Clients, Answered(c) PROVE IInv'
  <2>1. PICK o : o = [op |-> "returned", value |-> call[c].value]
      OBVIOUS
  <2>2. call[c].value \in Values \cup {None}
      BY <1>6, CallsOfClients DEF Answered, IInv, Answers, SetCalls, GetCalls
  <2>3. o \in [op : {"returned"}, value : Values \cup {None}]
      BY <2>1, <2>2
  <2>4. Kept(c, requests')
      BY <1>6, AnsweredKept DEF Answered
  <2> QED
      BY <1>6, <2>1, <2>3, <2>4, FinishedStep DEF Answered
<1>7. ASSUME NEW c \in Clients, Raised(c) PROVE IInv'
  <2>1. Kept(c, requests')
      BY <1>7, AnsweredKept DEF Raised
  <2> QED
      BY <1>7, <2>1, FinishedStep DEF Raised
<1>8. ASSUME NEW c \in Clients, TryNextHost(c) PROVE IInv'
  <2>1. call[c] \in SetCalls \cup GetCalls
      BY <1>8, CallsOfClients DEF TryNextHost
  <2>2. made' \in 0..MaxCalls
      BY <1>8 DEF TryNextHost, IInv, Types
  <2> QED
      BY <1>8, <2>1, <2>2, GivenUpRequests, PostStep DEF TryNextHost
<1>9. ASSUME NEW c \in Clients, TimeoutOnAllHosts(c) PROVE IInv'
    BY <1>9, GivenUpRequests, FinishedStep DEF TimeoutOnAllHosts
<1>10. CASE UNCHANGED vars
    BY <1>10 DEF vars, IInv, Types, Awaited, Single, Answers, Idle
<1> QED
    BY <1>1, <1>2, <1>3, <1>4, <1>5, <1>6, <1>7, <1>8, <1>9, <1>10 DEF Next, Client

-----------------------------------------------------------------------------

\* IInv holds in every reachable state.
THEOREM Invariance == Spec => []IInv
BY InitIInv, IInvStep, PTL DEF Spec

\* For any clients and hosts: EtcdDatabase keeps its types, and a client waits
\* for one request at most, and only during a call (EtcdDatabase._send).
THEOREM TypeCorrect == Spec => []TypeOK
BY Invariance, IInvTypeOK, PTL

-----------------------------------------------------------------------------
(***************************************************************************)
(* The refinement, one lemma per kind of step.                             *)
(***************************************************************************)

\* A write is outstanding exactly if a request under way or a call makes it.
LEMMA OutstandingWrites ==
  ASSUME NEW k, NEW v
  PROVE  <<k, v>> \in Outstanding <=>
           \/ \E q \in requests : q.op = "set" /\ q.key = k /\ q.value = v
           \/ \E c \in Clients :
                call[c].op = "set" /\ call[c].key = k /\ call[c].value = v
BY DEF Outstanding

\* Writes are only forgotten if the requests and the calls make no others.
LEMMA Forgotten ==
  ASSUME \A q \in requests' : q.op = "set" =>
           \/ \E r \in requests : r.op = "set" /\ r.key = q.key /\ r.value = q.value
           \/ \E c \in Clients :
                call[c].op = "set" /\ call[c].key = q.key /\ call[c].value = q.value,
         \A c \in Clients : call'[c].op = "set" =>
           /\ call[c].op = "set" /\ call[c].key = call'[c].key
           /\ call[c].value = call'[c].value
  PROVE  Outstanding' \in SUBSET Outstanding
BY DEF Outstanding

\* A new call of a client: nothing else changes but the writes outstanding.
LEMMA BeginRefines ==
  ASSUME IInv, NEW c \in Clients, NEW m \in SetCalls \cup GetCalls, Begin(c, m)
  PROVE  Outstanding' = IF m.op = "set" THEN Outstanding \cup {<<m.key, m.value>>}
                        ELSE Outstanding
<1>1. host[c] < Hosts
    BY HostsAssumption DEF Begin, IInv, Types
<1>2. PICK q : q = _format_data(c, m)
    OBVIOUS
<1>3. q.op = m.op /\ q.key = m.key /\ q.value = m.value
    BY <1>1, <1>2, FormattedData
<1>4. requests' = requests \cup {q} /\ call' = [call EXCEPT ![c] = m]
    BY <1>2 DEF Begin, Post
<1>5. call[c].op # "set" /\ call'[c] = m /\ \A d \in Clients \ {c} : call'[d] = call[d]
    BY <1>4 DEF Begin, Idle, IInv, Types
<1> QED
    BY <1>3, <1>4, <1>5 DEF Outstanding

\* A host that carries a request out makes a write take effect, or looks the
\* value up.
LEMMA ServeRefines ==
  ASSUME IInv, NEW r \in requests, Serve(r)
  PROVE  D!Next
<1>1. r \in Requests /\ r.client \in Clients /\ r.key \in Keys
    BY DEF IInv, Types, Requests
<1>2. requests' = requests \ {r}
    BY DEF Serve
<1>3. CASE r.op = "set"
  <2>1. PICK k \in Keys, v \in Values : k = r.key /\ v = r.value
      BY <1>1, <1>3 DEF IInv, Types
  <2>2. PICK a, b : /\ a = [op |-> "set", key |-> k, value |-> v, done |-> FALSE]
                    /\ b = [op |-> "set", key |-> k, value |-> v, done |-> TRUE]
      OBVIOUS
  <2>3. /\ [a EXCEPT !.done = TRUE] = b
        /\ a.op = "set" /\ a.key = b.key /\ a.value = b.value
    <3>1. PICK e : e = [a EXCEPT !.done = TRUE]
        OBVIOUS
    <3>2. e = [op |-> "set", key |-> k, value |-> v, done |-> TRUE]
        BY <2>2, <3>1
    <3>3. a.op = "set" /\ a.key = k /\ a.value = v /\ b.key = k /\ b.value = v
        BY <2>2
    <3> QED
        BY <2>2, <3>1, <3>2, <3>3
  <2>4. /\ store' = [store EXCEPT ![k] = v]
        /\ call' = [c \in Clients |-> IF call[c] = a THEN b ELSE call[c]]
    <3>1. /\ store' = [store EXCEPT ![k] = v]
          /\ call' = [c \in Clients |->
                        IF call[c] = a THEN [call[c] EXCEPT !.done = TRUE] ELSE call[c]]
        BY <1>3, <2>1, <2>2 DEF Serve
    <3>2. [c \in Clients |-> IF call[c] = a THEN [call[c] EXCEPT !.done = TRUE] ELSE call[c]]
            = [c \in Clients |-> IF call[c] = a THEN b ELSE call[c]]
        BY <2>3
    <3> QED
        BY <3>1, <3>2
  <2>5. <<k, v>> \in Outstanding
      BY <1>3, <2>1 DEF Outstanding
  <2>6. Outstanding' \in SUBSET Outstanding
      BY <1>2, <2>3, <2>4, Forgotten
  <2>7. D!Effect(k, v)
      BY <2>2, <2>4, <2>5, <2>6 DEF D!Effect, D!SetCall, D!MayForget
  <2> QED
      BY <2>7 DEF D!Next
<1>4. CASE r.op = "get"
  <2>1. /\ store' = store
        /\ call' = [call EXCEPT ![r.client].value = store[r.key],
                                ![r.client].done = TRUE]
      BY <1>4 DEF Serve
  <2>2. call[r.client].op = "get" /\ call[r.client].key = r.key
      BY <1>4 DEF IInv, Awaited
  <2>3. PICK a \in GetCalls : a = call[r.client]
      BY <1>1, <2>2, CallsOfClients
  <2>4. PICK v : v = store[r.key]
      OBVIOUS
  <2>5. PICK b : b = [a EXCEPT !.value = v, !.done = TRUE]
      OBVIOUS
  <2>6. b = [op |-> "get", key |-> r.key, value |-> v, done |-> TRUE] /\ b.op = "get"
      BY <2>2, <2>3, <2>5 DEF GetCalls
  <2>7. call' = [call EXCEPT ![r.client] = b]
      BY <1>1, <2>1, <2>3, <2>4, <2>5 DEF IInv, Types
  <2>8. Outstanding' = Outstanding
    <3>1. /\ call[r.client].op # "set" /\ call'[r.client].op # "set"
          /\ \A c \in Clients \ {r.client} : call'[c] = call[c]
        BY <1>1, <2>2, <2>6, <2>7 DEF IInv, Types
    <3> QED
        BY <1>2, <1>4, <3>1 DEF Outstanding
  <2>9. D!Lookup(r.client)
      BY <2>1, <2>2, <2>4, <2>6, <2>7, <2>8 DEF D!Lookup, D!GetCall
  <2> QED
      BY <1>1, <2>9 DEF D!Next
<1> QED
    BY <1>1, <1>3, <1>4 DEF Requests

\* Every step of EtcdDatabase is a step of Database, or changes nothing of it.
LEMMA StepRefines == IInv /\ [Next]_vars => [D!Next]_(D!databaseVars)
<1> SUFFICES ASSUME IInv, [Next]_vars PROVE [D!Next]_(D!databaseVars)
    OBVIOUS
<1>1. ASSUME NEW c \in Clients, NEW k \in Keys, get(c, k) PROVE D!Next
  <2>1. PICK m : m = [op |-> "get", key |-> k, value |-> None, done |-> FALSE]
      OBVIOUS
  <2>2. m \in GetCalls /\ m.op = "get" /\ Begin(c, m)
      BY <1>1, <2>1 DEF GetCalls, get
  <2>3. Outstanding' = Outstanding
      BY <2>2, BeginRefines
  <2>4. D!Get(c, k)
      BY <2>1, <2>2, <2>3 DEF D!Get, D!GetCall, D!Idle, Idle, Begin, Post
  <2> QED
      BY <2>4 DEF D!Next
<1>2. ASSUME NEW c \in Clients, NEW k \in Keys, NEW v \in Values, set(c, k, v)
      PROVE  D!Next
  <2>1. PICK m : m = [op |-> "set", key |-> k, value |-> v, done |-> FALSE]
      OBVIOUS
  <2>2. m \in SetCalls /\ m.op = "set" /\ m.key = k /\ m.value = v /\ Begin(c, m)
      BY <1>2, <2>1 DEF SetCalls, set
  <2>3. Outstanding' = Outstanding \cup {<<k, v>>}
      BY <2>2, BeginRefines
  <2>4. D!Set(c, k, v)
      BY <2>1, <2>2, <2>3 DEF D!Set, D!SetCall, D!Idle, Idle, Begin, Post
  <2> QED
      BY <2>4 DEF D!Next
<1>3. ASSUME NEW r \in requests, Serve(r) PROVE D!Next
    BY <1>3, ServeRefines
<1>4. ASSUME NEW r \in requests, Refuse(r) \/ Lose(r) PROVE D!Next
  <2>1. call' = call /\ store' = store
      BY <1>4 DEF Refuse, Lose
  <2>2. r.client \in Clients
      BY DEF IInv, Types, Requests
  <2>3. \A q \in requests' : \E s \in requests :
          s.op = q.op /\ s.key = q.key /\ s.value = q.value
    <3>1. CASE Refuse(r)
        BY <2>2, <3>1, GivenUpRequests DEF Refuse
    <3>2. CASE Lose(r)
        BY <3>2 DEF Lose
    <3> QED
        BY <1>4, <3>1, <3>2
  <2>4. Outstanding' \in SUBSET Outstanding
      BY <2>1, <2>3, Forgotten
  <2> QED
      BY <2>1, <2>4 DEF D!Next, D!Forget, D!MayForget
<1>5. ASSUME NEW c \in Clients, NEW o, o.op # "set", Finished(c, o),
             \A q \in requests' : \E r \in requests :
               r.op = q.op /\ r.key = q.key /\ r.value = q.value
      PROVE  Outstanding' \in SUBSET Outstanding
  <2>1. call'[c] = o /\ \A d \in Clients \ {c} : call'[d] = call[d]
      BY <1>5 DEF Finished, IInv, Types
  <2> QED
      BY <1>5, <2>1, Forgotten
<1>6. ASSUME NEW c \in Clients, Answered(c) PROVE D!Next
  <2>1. PICK o : o = [op |-> "returned", value |-> call[c].value]
      OBVIOUS
  <2>2. Finished(c, o) /\ o.op # "set" /\ requests' = requests
      BY <1>6, <2>1 DEF Answered
  <2>3. Outstanding' \in SUBSET Outstanding
      BY <1>5, <2>2
  <2>4. ~Idle(c) /\ call[c].done
      BY <1>6 DEF Answered, IInv, Answers
  <2>5. D!Return(c)
      BY <2>1, <2>2, <2>3, <2>4
      DEF D!Return, D!Returned, D!Idle, Idle, D!MayForget, Finished
  <2> QED
      BY <2>5 DEF D!Next
<1>7. ASSUME NEW c \in Clients, Raised(c) \/ TimeoutOnAllHosts(c) PROVE D!Next
  <2>1. PICK o : o = [op |-> "raised"]
      OBVIOUS
  <2>2. Finished(c, o) /\ o.op # "set" /\ requests' \in {requests, GivenUp(c)}
      BY <1>7, <2>1 DEF Raised, TimeoutOnAllHosts
  <2>3. \A q \in requests' : \E r \in requests :
          r.op = q.op /\ r.key = q.key /\ r.value = q.value
      BY <2>2, GivenUpRequests
  <2>4. Outstanding' \in SUBSET Outstanding
      BY <1>5, <2>2, <2>3
  <2>5. ~Idle(c)
      BY <1>7 DEF Raised, TimeoutOnAllHosts, IInv, Answers
  <2>6. D!Raise(c)
      BY <2>1, <2>2, <2>4, <2>5
      DEF D!Raise, D!Raised, D!Idle, Idle, D!MayForget, Finished
  <2> QED
      BY <2>6 DEF D!Next
<1>8. ASSUME NEW c \in Clients, TryNextHost(c) PROVE D!Next
  <2>1. call[c] \in SetCalls \cup GetCalls /\ host[c] < Hosts
      BY <1>8, CallsOfClients DEF TryNextHost
  <2>2. PICK q : q = _format_data(c, call[c])
      OBVIOUS
  <2>3. q.op = call[c].op /\ q.key = call[c].key /\ q.value = call[c].value
      BY <2>1, <2>2, FormattedData
  <2>4. requests' = GivenUp(c) \cup {q} /\ call' = call /\ store' = store
      BY <1>8, <2>2 DEF TryNextHost, Post, IInv, Types
  <2>5. Outstanding' \in SUBSET Outstanding
      BY <2>3, <2>4, Forgotten, GivenUpRequests
  <2> QED
      BY <2>4, <2>5 DEF D!Next, D!Forget, D!MayForget
<1>9. CASE UNCHANGED vars
    BY <1>9 DEF vars, D!databaseVars, Outstanding
<1> QED
    BY <1>1, <1>2, <1>3, <1>4, <1>6, <1>7, <1>8, <1>9 DEF Next, Client

\* The initial states are initial states of Database.
LEMMA InitRefines == Init => D!Init
BY DEF Init, D!Init, D!Raised, Outstanding

\* For any clients, keys, values and hosts, EtcdDatabase keeps the promises of
\* Database over timeouts and repeated, late and lost requests: a set that
\* returns was carried out as a whole, and get returns what the store held.
THEOREM EtcdImplementsDatabase == Spec => ImplementsDatabase
BY Invariance, InitRefines, StepRefines, PTL DEF Spec, ImplementsDatabase, D!Spec

=============================================================================
