----------------------------- MODULE Credentials -----------------------------
(***************************************************************************)
(* The credentials service (internal/credentials/credentials.go) and the   *)
(* file it keeps its token in (internal/fs/options.go).  One goroutine,    *)
(* run, loads, fetches, publishes and stores tokens; other goroutines      *)
(* start and stop it, wait for it, and mark the credentials invalid.       *)
(*                                                                         *)
(* Time is abstract: the timer may fire whenever run waits, and a token    *)
(* may expire at any moment.  The process may crash and start again with   *)
(* what is on the disk; a crash in the middle of a write leaves the file   *)
(* torn.  A token stands for its text and its expiration time.             *)
(***************************************************************************)
EXTENDS Integers, FiniteSets

CONSTANTS
  Token,       \* tokens the server may issue
  blank,       \* those with an empty text
  Caller,      \* goroutines that call MarkInvalid, once each
  Waiter,      \* goroutines that call WaitUntilValid, once each
  hasFS,       \* LocalStorage was given
  MaxCrashes,  \* bound on the crashes
  None, Torn   \* no token, and a file cut short

ASSUME CredentialsAssumption ==
  /\ blank \subseteq Token
  /\ hasFS \in BOOLEAN
  /\ MaxCrashes \in Nat
  /\ IsFiniteSet(Caller)
  /\ None \notin Token \cup Caller /\ Torn \notin Token /\ None # Torn

VARIABLES
  c,        \* the Credentials and the goroutines around it, see State
  disk,     \* the token file and its checksum file
  issued,   \* the tokens the server has issued
  expired,  \* the tokens whose time is over
  crashes
vars == <<c, disk, issued, expired, crashes>>

Channel == 1..(Cardinality(Caller) + 1)

State == [
  shutdown : BOOLEAN,            \* c.shutdown is set
  ctxDone : BOOLEAN,             \* and was called
  wg : 0..1,                     \* c.wg
  pc : {"none", "spawned", "load", "fetch", "announce", "use", "store",
        "file", "sum", "sumfile", "select", "ack", "done"},
  cur : Token \cup {None},       \* run's token
  fromDisc : BOOLEAN,            \* run's fromDisc
  valid : BOOLEAN,               \* run's valid
  token : Token \cup {None},     \* c.token
  fetched : BOOLEAN,             \* c.fetched is closed
  channel : Channel,             \* c.valid, by number
  closed : SUBSET Channel,       \* the channels closed so far
  panicked : BOOLEAN,            \* a closed channel was closed
  ackTo : Caller \cup {None},    \* the caller run owes an answer
  mark : [Caller -> {"idle", "offer", "wait", "done", "gone"}],
  wait : [Waiter -> Channel \cup {0, -1}],   \* 0 before, -1 after the call
  stop : {"no", "waiting", "returned"},      \* the call of Stop
  ioErr : BOOLEAN]               \* a write has failed (history)

TypeOK ==
  /\ c \in State
  /\ disk \in [file : Token \cup {None, Torn}, sum : Token \cup {None, Torn}]
  /\ issued \subseteq Token
  /\ expired \subseteq Token
  /\ crashes \in 0..MaxCrashes

(* New.                                                                    *)
Fresh ==
  [shutdown |-> FALSE, ctxDone |-> FALSE, wg |-> 0, pc |-> "none",
   cur |-> None, fromDisc |-> FALSE, valid |-> FALSE, token |-> None,
   fetched |-> FALSE, channel |-> 1, closed |-> {}, panicked |-> FALSE,
   ackTo |-> None, mark |-> [x \in Caller |-> "idle"],
   wait |-> [w \in Waiter |-> 0], stop |-> "no", ioErr |-> FALSE]

Init ==
  /\ c = Fresh
  /\ disk = [file |-> None, sum |-> None]
  /\ issued = {} /\ expired = {}
  /\ crashes = 0

Inside == UNCHANGED <<disk, issued, expired, crashes>>

-----------------------------------------------------------------------------
(* Start; a second Start, also after Stop, does nothing.                   *)
Start ==
  /\ ~c.shutdown
  /\ c' = [c EXCEPT !.shutdown = TRUE, !.pc = "spawned"]
  /\ Inside

(* Stop cancels the context, if there is one, and waits for run, if run    *)
(* has come to c.wg.Add(1).                                                *)
Stop ==
  /\ c.stop = "no"
  /\ c' = [c EXCEPT !.stop = "waiting", !.ctxDone = c.shutdown]
  /\ Inside

StopReturns ==
  /\ c.stop = "waiting" /\ c.wg = 0
  /\ c' = [c EXCEPT !.stop = "returned"]
  /\ Inside

-----------------------------------------------------------------------------
(* run: c.wg.Add(1).                                                       *)
Enter ==
  /\ c.pc = "spawned"
  /\ c' = [c EXCEPT !.pc = "load", !.wg = 1]
  /\ Inside

(* Mutant: the checksum is not looked at.                                  *)
ReadableUnchecked == disk.file # None

(* load: ReadFileWithSHA256 compares the file with its checksum.           *)
Readable == disk.file # None /\ disk.file = disk.sum /\ disk.file # Torn

LoadOk ==
  /\ c.pc = "load" /\ hasFS /\ Readable
  /\ c' = [c EXCEPT !.pc = "announce", !.cur = disk.file, !.fromDisc = TRUE]
  /\ Inside

(* ... or there is no storage, or any of its operations fails.             *)
LoadFails ==
  /\ c.pc = "load"
  /\ c' = [c EXCEPT !.pc = "fetch"]
  /\ Inside

(* Mutant: fromDisc keeps its first value.                                 *)
FetchKeepsFromDisc(t) ==
  /\ c.pc = "fetch" /\ ~c.ctxDone
  /\ c' = [c EXCEPT !.pc = "announce", !.cur = t]
  /\ issued' = issued \cup {t}
  /\ UNCHANGED <<disk, expired, crashes>>

(* fetch: the server answers with a token,                                 *)
FetchOk(t) ==
  /\ c.pc = "fetch" /\ ~c.ctxDone
  /\ c' = [c EXCEPT !.pc = "announce", !.cur = t, !.fromDisc = FALSE]
  /\ issued' = issued \cup {t}
  /\ UNCHANGED <<disk, expired, crashes>>

(* or the request, the answer or its body fails.                           *)
FetchFails ==
  /\ c.pc = "fetch"
  /\ c' = [c EXCEPT !.pc = "announce", !.cur = None]
  /\ Inside

(* Mutant: only a success is announced.                                    *)
AnnounceSuccess ==
  /\ c.pc = "announce"
  /\ c' = [c EXCEPT !.pc = "use", !.fetched = @ \/ c.cur # None]
  /\ Inside

(* run: close(c.fetched), the first time.                                  *)
Announce ==
  /\ c.pc = "announce"
  /\ c' = [c EXCEPT !.pc = "use", !.fetched = TRUE]
  /\ Inside

(* run: a token is published and waiters are woken; one from the network   *)
(* is stored.                                                              *)
Use ==
  /\ c.pc = "use"
  /\ \/ /\ c.cur = None
        /\ c' = [c EXCEPT !.pc = "select"]
     \/ /\ c.cur # None
        /\ c' = [c EXCEPT
                   !.pc = IF c.fromDisc \/ ~hasFS THEN "select" ELSE "store",
                   !.token = c.cur,
                   !.valid = TRUE,
                   !.closed = IF c.valid THEN @ ELSE @ \cup {c.channel},
                   !.panicked = @ \/ (~c.valid /\ c.channel \in c.closed)]
  /\ Inside

(* store: WriteFileWithSHA256 truncates and writes the file, then the      *)
(* checksum.  Its errors are ignored.                                      *)
Write(from, to, file, sum) ==
  /\ c.pc = from
  /\ \/ /\ disk' = [file |-> file, sum |-> sum]
        /\ c' = [c EXCEPT !.pc = to]
     \/ /\ c' = [c EXCEPT !.pc = "select", !.ioErr = TRUE]
        /\ UNCHANGED disk
  /\ UNCHANGED <<issued, expired, crashes>>

Store ==
  \/ Write("store", "file", Torn, disk.sum)
  \/ Write("file", "sum", c.cur, disk.sum)
  \/ Write("sum", "sumfile", disk.file, Torn)
  \/ Write("sumfile", "select", disk.file, c.cur)

-----------------------------------------------------------------------------
(* run's select: the timer,                                                *)
TimerFires ==
  /\ c.pc = "select"
  /\ c' = [c EXCEPT !.pc = "fetch"]
  /\ Inside

(* Mutant: c.wg.Done() is forgotten.                                       *)
ContextDoneUncounted ==
  /\ c.pc = "select" /\ c.ctxDone
  /\ c' = [c EXCEPT !.pc = "done"]
  /\ Inside

(* the context,                                                            *)
ContextDone ==
  /\ c.pc = "select" /\ c.ctxDone
  /\ c' = [c EXCEPT !.pc = "done", !.wg = 0]
  /\ Inside

(* Mutant: every MarkInvalid makes a new channel.                          *)
WakeupRenews(x) ==
  /\ c.pc = "select" /\ c.mark[x] = "offer"
  /\ c' = [c EXCEPT !.pc = "ack", !.ackTo = x, !.mark[x] = "wait",
                    !.channel = @ + 1, !.valid = FALSE]
  /\ Inside

(* Mutant: the credentials become invalid and the channel stays.           *)
WakeupKeeps(x) ==
  /\ c.pc = "select" /\ c.mark[x] = "offer"
  /\ c' = [c EXCEPT !.pc = "ack", !.ackTo = x, !.mark[x] = "wait",
                    !.valid = FALSE]
  /\ Inside

(* or a caller of MarkInvalid, who is answered once a new channel is in    *)
(* place.                                                                  *)
Wakeup(x) ==
  /\ c.pc = "select" /\ c.mark[x] = "offer"
  /\ c' = [c EXCEPT !.pc = "ack", !.ackTo = x, !.mark[x] = "wait",
                    !.channel = IF c.valid THEN @ + 1 ELSE @,
                    !.valid = FALSE]
  /\ Inside

Ack ==
  /\ c.pc = "ack" /\ c.mark[c.ackTo] = "wait"
  /\ c' = [c EXCEPT !.pc = "fetch", !.mark[c.ackTo] = "done", !.ackTo = None]
  /\ Inside

(* MarkInvalid, until run takes its channel or its own context is over.    *)
MarkInvalid(x) ==
  /\ c.mark[x] = "idle"
  /\ c' = [c EXCEPT !.mark[x] = "offer"]
  /\ Inside

MarkInvalidGivesUp(x) ==
  /\ c.mark[x] \in {"offer", "wait"}
  /\ c' = [c EXCEPT !.mark[x] = "gone"]
  /\ Inside

(* WaitUntilValid takes the current channel and returns when it is closed  *)
(* or its own context is over.                                             *)
WaitUntilValid(w) ==
  /\ c.wait[w] = 0
  /\ c' = [c EXCEPT !.wait[w] = c.channel]
  /\ Inside

WaitReturns(w) ==
  /\ c.wait[w] \in c.closed
  /\ c' = [c EXCEPT !.wait[w] = -1]
  /\ Inside

WaitGivesUp(w) ==
  /\ c.wait[w] > 0
  /\ c' = [c EXCEPT !.wait[w] = -1]
  /\ Inside

(* Decorate puts the token into the headers, or returns an error.          *)
Decorates == c.token # None /\ c.token \notin blank \cup expired

-----------------------------------------------------------------------------
Expire(t) ==
  /\ t \in issued \ expired
  /\ expired' = expired \cup {t}
  /\ UNCHANGED <<c, disk, issued, crashes>>

Crash ==
  /\ crashes < MaxCrashes
  /\ crashes' = crashes + 1
  /\ c' = Fresh
  /\ UNCHANGED <<disk, issued, expired>>

Run ==
  \/ Enter \/ LoadOk \/ LoadFails \/ FetchFails \/ (\E t \in Token : FetchOk(t))
  \/ Announce \/ Use \/ Store \/ TimerFires \/ ContextDone
  \/ (\E x \in Caller : Wakeup(x)) \/ Ack

Next ==
  \/ Start \/ Stop \/ StopReturns \/ Run
  \/ \E x \in Caller : MarkInvalid(x) \/ MarkInvalidGivesUp(x)
  \/ \E w \in Waiter : WaitUntilValid(w) \/ WaitReturns(w) \/ WaitGivesUp(w)
  \/ \E t \in Token : Expire(t)
  \/ Crash

Spec == Init /\ [][Next]_vars

(* What the scheduler gives: run goes on when it can, an answer run offers *)
(* is taken or the caller gives up, and a request does not hang.  Go's     *)
(* select chooses among the ready cases at random, so one that is ready    *)
(* again and again is chosen; the server answers now and then.             *)
Fairness ==
  /\ WF_vars(StopReturns)
  /\ WF_vars(Run)
  /\ SF_vars(ContextDone)
  /\ SF_vars(\E t \in Token : FetchOk(t))
  /\ \A w \in Waiter : WF_vars(WaitReturns(w))

LiveSpec == Spec /\ Fairness

-----------------------------------------------------------------------------
(* run never closes a channel twice (close(c.valid) panics on the second   *)
(* time), whatever the order of fetches, failures and MarkInvalid.         *)
NoDoubleClose == ~c.panicked

(* WaitUntilValid holds a channel that was current when it was called.     *)
(* That channel is still the one run will close, or it is closed already:  *)
(* MarkInvalid replaces no channel that somebody may be waiting on.        *)
NoLostWakeup ==
  \A w \in Waiter : c.wait[w] > 0 => c.wait[w] \in c.closed \cup {c.channel}

(* What load returns is a token the server once issued, complete, however  *)
(* the writes of this and of earlier lives of the process were cut short.  *)
LoadedWasIssued == c.fromDisc /\ c.cur # None => c.cur \in issued

(* When Stop has returned and run is over, the token in memory is the one  *)
(* the next life of the process will load, unless a write has failed       *)
(* (TestToAndFromFile relies on it).                                       *)
StoppedIsStored ==
  /\ hasFS /\ c.stop = "returned" /\ c.pc = "done" /\ c.token # None /\ ~c.ioErr
  => Readable /\ disk.file = c.token

(* run blocks in the answer to a caller of MarkInvalid who has left.       *)
Abandoned == c.pc = "ack" /\ c.mark[c.ackTo] = "gone"

(* A Stop that has cancelled the context (one that finds no context to     *)
(* cancel, since Start has yet to come, waits for a run nobody ends)       *)
(* returns, unless run is blocked in that answer or the process ends.      *)
StopReturnsUnlessAbandoned ==
  c.stop = "waiting" /\ c.ctxDone
    ~> c.stop = "returned" \/ Abandoned \/ ~c.shutdown

(* Once started, the service makes its first attempt known to the callers  *)
(* of WaitUntilFetched, also when it is stopped meanwhile (not when the    *)
(* process ends: only Crash resets c.shutdown).                            *)
FetchIsAnnounced == c.shutdown ~> c.fetched \/ ~c.shutdown

(* A caller of WaitUntilValid is woken when the service runs on.           *)
WaiterIsWoken ==
  \A w \in Waiter :
    c.shutdown /\ c.wait[w] > 0
      ~> c.wait[w] = -1 \/ c.ctxDone \/ Abandoned \/ ~c.shutdown

(* Both kinds of callers that wait for the service come away: for the      *)
(* first attempt (credentials.go:359) and for a valid token (:172).        *)
WaitersComeAway == FetchIsAnnounced /\ WaiterIsWoken

-----------------------------------------------------------------------------
(* "Stop stops the credentials service."  It returns.                      *)
StopCompletes == c.stop = "waiting" /\ c.ctxDone ~> c.stop = "returned"

(* "If the credentials are not valid, an error is returned": a caller      *)
(* whose MarkInvalid has returned gets no header from Decorate until new   *)
(* credentials are there.                                                  *)
InvalidIsNotUsed == (\E x \in Caller : c.mark[x] = "done") /\ ~c.valid => ~Decorates
=============================================================================
