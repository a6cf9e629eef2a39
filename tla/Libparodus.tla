----------------------------- MODULE Libparodus -----------------------------
(***************************************************************************)
(* The libparodus adapter (internal/adapters/libparodus).  Services in     *)
(* other processes register with it by name; it dials each of them, keeps  *)
(* them in the map subServices, subscribes them to the hub and sends them  *)
(* keepalive messages until a send fails.                                  *)
(*                                                                         *)
(* Each Start has a receive goroutine with a socket and a context of its   *)
(* own; each registration has an external with a keepalive goroutine.      *)
(* Messages other than registrations change nothing here: forward looks    *)
(* its target up in subServices and sends.                                 *)
(***************************************************************************)
EXTENDS Integers, FiniteSets

CONSTANTS
  Name,       \* the names of services
  MaxStarts,  \* bound on the calls of Start that start a receiver
  MaxExts     \* bound on the registrations that are dialled

ASSUME LibparodusAssumption ==
  Name # {} /\ MaxStarts \in Nat /\ MaxExts \in Nat

Gen == 1..MaxStarts
Ext == 1..MaxExts

VARIABLES
  shutdown,     \* the receiver whose cancel function a.shutdown is, or 0
  gens,         \* receivers so far
  canceled,     \* the receivers whose context is cancelled
  start,        \* where each Start is
  rcv,          \* where each receiver is
  bound,        \* the receivers whose socket listens
  stopCall,     \* where Stop is
  todo,         \* the names it still has to visit
  subServices,  \* from names to externals, 0 for none
  exts,         \* externals so far
  ext           \* what is known of each
adapterVars == <<shutdown, gens, canceled, start, rcv, bound, stopCall, todo,
                 subServices, exts, ext>>

AdapterTypeOK ==
  /\ shutdown \in 0..MaxStarts /\ gens \in 0..MaxStarts
  /\ canceled \subseteq Gen /\ bound \subseteq Gen
  /\ start \in [Gen -> {"no", "select", "ok", "failed"}]
  /\ rcv \in [Gen -> {"none", "spawned", "socket", "failed", "listening",
                      "loop", "dialed", "replaced", "done"}]
  /\ stopCall \in {"no", "visiting", "waiting"} /\ todo \subseteq Name
  /\ subServices \in [Name -> 0..MaxExts] /\ exts \in 0..MaxExts
  /\ ext \in [Ext -> [name : Name, gen : Gen, live : BOOLEAN, gone : BOOLEAN,
                      ka : {"none", "auth", "select", "send", "cancel", "done"}]]

(* An external before its registration; live means that it is subscribed,  *)
(* its own context is not cancelled and its socket is open (they end       *)
(* together, in terminate); gone, that the other side has disappeared and  *)
(* the socket's queue of one message is full.                              *)
AdapterInit ==
  /\ shutdown = 0 /\ gens = 0 /\ canceled = {} /\ bound = {}
  /\ start = [g \in Gen |-> "no"] /\ rcv = [g \in Gen |-> "none"]
  /\ stopCall = "no" /\ todo = {}
  /\ subServices = [n \in Name |-> 0] /\ exts = 0
  /\ ext = [e \in Ext |-> [name |-> CHOOSE n \in Name : TRUE, gen |-> 1,
                            live |-> FALSE, gone |-> FALSE, ka |-> "none"]]

(* a.wg is zero.                                                           *)
wgZero == \A g \in Gen : rcv[g] \in {"none", "spawned", "done"}

services == <<subServices, exts, ext>>
calls == <<shutdown, gens, canceled, start, stopCall, todo>>

-----------------------------------------------------------------------------
(* Mutant: a.shutdown is not looked at.                                    *)
StartAgain ==
  /\ gens < MaxStarts
  /\ gens' = gens + 1 /\ shutdown' = gens + 1
  /\ start' = [start EXCEPT ![gens + 1] = "select"]
  /\ rcv' = [rcv EXCEPT ![gens + 1] = "spawned"]
  /\ UNCHANGED <<canceled, bound, stopCall, todo, services>>

(* Start: a receiver, whose word is awaited.                               *)
Start ==
  /\ shutdown = 0 /\ gens < MaxStarts
  /\ gens' = gens + 1 /\ shutdown' = gens + 1
  /\ start' = [start EXCEPT ![gens + 1] = "select"]
  /\ rcv' = [rcv EXCEPT ![gens + 1] = "spawned"]
  /\ UNCHANGED <<canceled, bound, stopCall, todo, services>>

StartCanceled(g) ==
  /\ start[g] = "select" /\ g \in canceled
  /\ start' = [start EXCEPT ![g] = "ok"]
  /\ UNCHANGED <<shutdown, gens, canceled, rcv, bound, stopCall, todo, services>>

(* Any Start may take the word of any receiver: there is one channel.      *)
Listening(g, s) ==
  /\ start[s] = "select"
  /\ \/ rcv[g] = "listening" /\ rcv' = [rcv EXCEPT ![g] = "loop"]
        /\ start' = [start EXCEPT ![s] = "ok"]
     \/ rcv[g] = "failed" /\ rcv' = [rcv EXCEPT ![g] = "done"]
        /\ start' = [start EXCEPT ![s] = "failed"]
  /\ UNCHANGED <<shutdown, gens, canceled, bound, stopCall, todo, services>>

(* What ext.cancel does: the subscription, the context and the socket end, *)
(* and whatever is registered under the name is removed.                   *)
terminated(e) == [ext EXCEPT ![e].live = FALSE]
without(n) == [subServices EXCEPT ![n] = 0]

(* Stop cancels the receiver,                                              *)
Stop ==
  /\ stopCall = "no"
  /\ stopCall' = "visiting" /\ shutdown' = 0
  /\ canceled' = IF shutdown = 0 THEN canceled ELSE canceled \cup {shutdown}
  /\ todo' = {n \in Name : subServices[n] # 0}
  /\ UNCHANGED <<gens, start, rcv, bound, services>>

(* cancels the externals, reading the map without the lock: an entry that  *)
(* is removed meanwhile is not visited, nor need be one that is added,     *)
StopVisits(n) ==
  /\ stopCall = "visiting" /\ n \in todo
  /\ todo' = todo \ {n}
  /\ IF subServices[n] = 0
     THEN UNCHANGED services
     ELSE /\ ext' = terminated(subServices[n])
          /\ subServices' = without(n)
          /\ UNCHANGED exts
  /\ UNCHANGED <<shutdown, gens, canceled, start, rcv, bound, stopCall>>

StopVisited ==
  /\ stopCall = "visiting" /\ todo = {}
  /\ stopCall' = "waiting"
  /\ UNCHANGED <<shutdown, gens, canceled, start, rcv, bound, todo, services>>

(* and waits for the receivers.                                            *)
StopReturns ==
  /\ stopCall = "waiting" /\ wgZero
  /\ stopCall' = "no"
  /\ UNCHANGED <<shutdown, gens, canceled, start, rcv, bound, todo, services>>

-----------------------------------------------------------------------------
(* receive: a.wg.Add(1),                                                   *)
Enter(g) ==
  /\ rcv[g] = "spawned"
  /\ rcv' = [rcv EXCEPT ![g] = "socket"]
  /\ UNCHANGED <<calls, bound, services>>

(* a socket that listens, which fails while another one does,              *)
Listen(g) ==
  /\ rcv[g] = "socket"
  /\ \/ /\ bound = {}
        /\ bound' = {g} /\ rcv' = [rcv EXCEPT ![g] = "listening"]
     \/ /\ rcv' = [rcv EXCEPT ![g] = "failed"]
        /\ UNCHANGED bound
  /\ UNCHANGED <<calls, services>>

(* Mutant: the context is not looked at.                                   *)
ReceiveGoesOn(g) == FALSE /\ UNCHANGED adapterVars

(* and messages until the context is cancelled.  The socket stays open.    *)
ReceiveEnds(g) ==
  /\ rcv[g] = "loop" /\ g \in canceled
  /\ rcv' = [rcv EXCEPT ![g] = "done"]
  /\ UNCHANGED <<calls, bound, services>>

(* register: newExternal dials and subscribes the service,                 *)
Register(g, n) ==
  /\ rcv[g] = "loop" /\ exts < MaxExts
  /\ exts' = exts + 1
  /\ ext' = [ext EXCEPT ![exts + 1] = [name |-> n, gen |-> g, live |-> TRUE,
                                       gone |-> FALSE, ka |-> "auth"]]
  /\ rcv' = [rcv EXCEPT ![g] = "dialed"]
  /\ UNCHANGED <<calls, bound, subServices>>

(* or fails to, and calls terminate;                                       *)
RegisterFails(g, n) ==
  /\ rcv[g] = "loop"
  /\ subServices' = without(n)
  /\ UNCHANGED <<calls, rcv, bound, exts, ext>>

(* the external registered before under that name is cancelled,            *)
Replace(g) ==
  LET n == ext[exts].name
      prev == subServices[n]
  IN
  /\ rcv[g] = "dialed"
  /\ rcv' = [rcv EXCEPT ![g] = "replaced"]
  /\ IF prev = 0
     THEN UNCHANGED <<ext, subServices>>
     ELSE ext' = terminated(prev) /\ subServices' = without(n)
  /\ UNCHANGED <<calls, bound, exts>>

(* Mutant: the first external of a name stays in the map.                  *)
RegisteredFirst(g) ==
  /\ rcv[g] = "replaced"
  /\ rcv' = [rcv EXCEPT ![g] = "loop"]
  /\ subServices' = [subServices EXCEPT ![ext[exts].name] =
                       CHOOSE e \in 1..exts : ext[e].name = ext[exts].name]
  /\ UNCHANGED <<calls, bound, exts, ext>>

(* and the new one takes its place.                                        *)
Registered(g) ==
  /\ rcv[g] = "replaced"
  /\ rcv' = [rcv EXCEPT ![g] = "loop"]
  /\ subServices' = [subServices EXCEPT ![ext[exts].name] = exts]
  /\ UNCHANGED <<calls, bound, exts, ext>>

-----------------------------------------------------------------------------
Ka(e, from, to) ==
  /\ ext[e].ka = from
  /\ ext' = [ext EXCEPT ![e].ka = to]
  /\ UNCHANGED <<calls, rcv, bound, subServices, exts>>

(* sock.Send fails when the socket is closed or the other side is gone.    *)
sends(e) == ext[e].live /\ ~ext[e].gone

(* keepalive: the first message, and one after every interval.  When the   *)
(* context is done, break leaves the select and the message is sent too.   *)
KeepaliveSends(e) ==
  /\ sends(e)
  /\ Ka(e, "auth", "select") \/ Ka(e, "send", "select")

(* Mutant: a failing send is ignored.                                      *)
KeepaliveIgnores(e) ==
  /\ ~sends(e)
  /\ Ka(e, "auth", "select") \/ Ka(e, "send", "select")

KeepaliveFails(e) ==
  /\ ~sends(e)
  /\ Ka(e, "auth", "cancel") \/ Ka(e, "send", "cancel")

KeepaliveWaits(e) == Ka(e, "select", "send")

(* keepalive ends: s.cancel().                                             *)
KeepaliveCancels(e) ==
  /\ ext[e].ka = "cancel"
  /\ ext' = [terminated(e) EXCEPT ![e].ka = "done"]
  /\ subServices' = without(ext[e].name)
  /\ UNCHANGED <<calls, rcv, bound, exts>>

(* forward: the external that a message from service n goes to, 0 for      *)
(* ErrNoService.                                                           *)
forwardsTo(n) == subServices[n]

(* The service's process ends.                                             *)
Gone(e) ==
  /\ ext[e].ka # "none" /\ ~ext[e].gone
  /\ ext' = [ext EXCEPT ![e].gone = TRUE]
  /\ UNCHANGED <<calls, rcv, bound, subServices, exts>>

-----------------------------------------------------------------------------
Receive(g) ==
  \/ Enter(g) \/ Listen(g) \/ ReceiveEnds(g) \/ Replace(g) \/ Registered(g)
  \/ \E n \in Name : Register(g, n) \/ RegisterFails(g, n)

Keepalive(e) ==
  KeepaliveSends(e) \/ KeepaliveFails(e) \/ KeepaliveWaits(e) \/ KeepaliveCancels(e)

AdapterNext ==
  \/ Start \/ Stop \/ StopVisited \/ StopReturns
  \/ \E n \in Name : StopVisits(n)
  \/ \E g \in Gen : Receive(g) \/ StartCanceled(g) \/ \E s \in Gen : Listening(g, s)
  \/ \E e \in Ext : Keepalive(e) \/ Gone(e)

AdapterSpec == AdapterInit /\ [][AdapterNext]_adapterVars

(* Every goroutine goes on when it can; whether a service registers or     *)
(* disappears is left to it.                                               *)
Stopping == StopVisited \/ StopReturns \/ \E n \in Name : StopVisits(n)
Starting(g) == StartCanceled(g) \/ \E s \in Gen : Listening(g, s)
Receiving(g) ==
  Enter(g) \/ Listen(g) \/ ReceiveEnds(g) \/ Replace(g) \/ Registered(g)

AdapterFairness ==
  /\ WF_adapterVars(Stopping)
  /\ \A g \in Gen : WF_adapterVars(Starting(g)) /\ WF_adapterVars(Receiving(g))
  /\ \A e \in Ext : WF_adapterVars(Keepalive(e))

AdapterLiveSpec == AdapterSpec /\ AdapterFairness

-----------------------------------------------------------------------------
(* However Start and Stop interleave, at most one receiver is not told to  *)
(* end.                                                                    *)
OneReceiver == Cardinality({g \in 1..gens : g \notin canceled}) <= 1

(* subServices never leads to an external that a later registration of its *)
(* name has replaced, so that forward does not send to a closed socket     *)
(* while there is a newer one.                                             *)
MapIsNewest ==
  \A n \in Name : \A e \in 1..exts :
    subServices[n] # 0 /\ e > subServices[n] /\ ext[e].name = n
      => e = exts /\ \E g \in Gen : rcv[g] \in {"dialed", "replaced"}

(* The receiver has something to say and no Start listens.                 *)
Unheard ==
  /\ \E g \in Gen : rcv[g] \in {"listening", "failed"}
  /\ \A g \in Gen : start[g] # "select"

(* Stop returns, unless the receiver waits for a Start that has left, or   *)
(* Start has been called again meanwhile: a.wg counts the new receiver.    *)
StopReturnsUnlessUnheard ==
  stopCall # "no" ~> stopCall = "no" \/ Unheard \/ shutdown # 0

(* "At some point the external service will stop sending heartbeats, and   *)
(* the subscription will be canceled."                                     *)
GoneIsUnsubscribed == \A e \in Ext : ext[e].gone ~> ~ext[e].live

-----------------------------------------------------------------------------
(* "The message needs to be sent to the appropriate service attached to    *)
(* this adapter": forward finds the newest external of a name while that   *)
(* is subscribed and the adapter runs.                                     *)
ServiceIsFound ==
  \A e \in 1..exts :
    /\ shutdown # 0 /\ ext[e].live
    /\ \A g \in Gen : rcv[g] \notin {"dialed", "replaced"}
    /\ \A f \in (e + 1)..exts : ext[f].name # ext[e].name
    => forwardsTo(ext[e].name) = e
==============================================================================
