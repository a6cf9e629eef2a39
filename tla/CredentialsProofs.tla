-------------------------- MODULE CredentialsProofs --------------------------
(***************************************************************************)
(* The safety of the credentials service for any tokens, callers and       *)
(* waiters, and for any number of crashes.                                 *)
(*                                                                         *)
(* None of the four properties is inductive.  The strengthening says which *)
(* channels are closed at any moment (ChannelInv), that only what the      *)
(* server issued is in memory or, complete, on the disk (IssuedInv), and   *)
(* how far the file has come at each step of store (StoreInv).             *)
(***************************************************************************)
EXTENDS Credentials, TLAPS

Storing == {"store", "file", "sum", "sumfile"}

\* What the proofs need of the types.  How many channels there can be, which
\* TypeOK bounds by the number of callers, does not matter.
Types ==
  /\ c \in [shutdown : BOOLEAN, ctxDone : BOOLEAN, wg : {0, 1},
            pc : {"none", "spawned", "load", "fetch", "announce", "use",
                  "select", "ack", "done"} \cup Storing,
            cur : Token \cup {None}, fromDisc : BOOLEAN, valid : BOOLEAN,
            token : Token \cup {None}, fetched : BOOLEAN,
            channel : Nat \ {0}, closed : SUBSET Nat, panicked : BOOLEAN,
            ackTo : Caller \cup {None},
            mark : [Caller -> {"idle", "offer", "wait", "done", "gone"}],
            wait : [Waiter -> Int],
            stop : {"no", "waiting", "returned"}, ioErr : BOOLEAN]
  /\ disk \in [file : Token \cup {None, Torn}, sum : Token \cup {None, Torn}]
  /\ issued \subseteq Token

\* All channels but the current one are closed, and the current one is if the
\* credentials are valid.  A waiter has one of them.
ChannelInv ==
  /\ c.closed = IF c.valid THEN 1..c.channel ELSE 1..(c.channel - 1)
  /\ ~c.panicked
  /\ \A w \in Waiter : c.wait[w] <= c.channel

\* The server issued what run holds and what the file holds when it is complete.
IssuedInv ==
  /\ c.cur \in issued \cup {None}
  /\ disk.file \in issued \cup {None, Torn}

\* A token is published before it is stored; file and checksum get it one after
\* the other.  One that was loaded is on the disk, and so is the published one
\* outside store, unless a write has failed.  run is there after Start only.
StoreInv ==
  /\ ~c.shutdown => c.pc = "none"
  /\ c.pc \in Storing => c.cur # None /\ c.token = c.cur
  /\ c.pc \in {"sum", "sumfile"} => disk.file = c.cur
  /\ c.pc \in {"announce", "use"} /\ c.fromDisc /\ c.cur # None =>
       Readable /\ disk.file = c.cur
  /\ hasFS /\ ~c.ioErr /\ c.token # None /\ c.pc \notin Storing =>
       Readable /\ disk.file = c.token

IInv == Types /\ ChannelInv /\ IssuedInv /\ StoreInv

-----------------------------------------------------------------------------
\* A new process, also after a crash, satisfies what concerns its memory.
LEMMA FreshOK ==
  ASSUME Types, IssuedInv, c' = Fresh, UNCHANGED <<disk, issued>>
  PROVE  IInv'
  BY DEF Types, IssuedInv, IInv, ChannelInv, StoreInv, Fresh, Storing

\* The first process begins with nothing in memory and an empty disk.
LEMMA InitIInv == Init => IInv
  BY DEF Init, Types, IssuedInv, IInv, ChannelInv, StoreInv, Fresh, Storing

\* Steps of run.
LEMMA RunIInv == IInv /\ Run => IInv'
  <1> SUFFICES ASSUME IInv, Run PROVE IInv'
    OBVIOUS
  <1> USE CredentialsAssumption DEF IInv
  <1>1. CASE Enter
    <2>1. Types'
      BY <1>1, ZenonT(60) DEF Enter, Inside, Types, Storing
    <2>2. ChannelInv' /\ IssuedInv'
      BY <1>1 DEF Enter, Inside, Types, ChannelInv, IssuedInv
    <2>3. StoreInv'
      BY <1>1 DEF Enter, Inside, Types, StoreInv, Storing, Readable
    <2> QED
      BY <2>1, <2>2, <2>3
  <1>2. CASE LoadOk
    <2>1. Types'
      BY <1>2, ZenonT(60) DEF LoadOk, Inside, Types, Storing, Readable
    <2>2. ChannelInv' /\ IssuedInv'
      BY <1>2 DEF LoadOk, Inside, Types, ChannelInv, IssuedInv, Readable
    <2>3. StoreInv'
      BY <1>2 DEF LoadOk, Inside, Types, StoreInv, Storing, Readable
    <2> QED
      BY <2>1, <2>2, <2>3
  <1>3. CASE LoadFails \/ TimerFires
    <2>1. Types'
      BY <1>3 DEF LoadFails, TimerFires, Inside, Types, Storing
    <2>2. ChannelInv' /\ IssuedInv'
      BY <1>3 DEF LoadFails, TimerFires, Inside, Types, ChannelInv, IssuedInv
    <2>3. StoreInv'
      BY <1>3 DEF LoadFails, TimerFires, Inside, Types, StoreInv, Storing, Readable
    <2> QED
      BY <2>1, <2>2, <2>3
  <1>4. ASSUME NEW t \in Token, FetchOk(t) PROVE IInv'
    <2>1. Types'
      BY <1>4, ZenonT(60) DEF FetchOk, Types, Storing
    <2>2. ChannelInv' /\ IssuedInv'
      BY <1>4 DEF FetchOk, Types, ChannelInv, IssuedInv
    <2>3. StoreInv'
      BY <1>4 DEF FetchOk, Types, StoreInv, Storing, Readable
    <2> QED
      BY <2>1, <2>2, <2>3
  <1>5. CASE FetchFails
    <2>1. Types'
      BY <1>5, ZenonT(60) DEF FetchFails, Inside, Types, Storing
    <2>2. ChannelInv' /\ IssuedInv'
      BY <1>5 DEF FetchFails, Inside, Types, ChannelInv, IssuedInv
    <2>3. StoreInv'
      BY <1>5 DEF FetchFails, Inside, Types, StoreInv, Storing, Readable
    <2> QED
      BY <2>1, <2>2, <2>3
  <1>6. CASE Announce
    <2>1. Types'
      BY <1>6, ZenonT(60) DEF Announce, Inside, Types, Storing
    <2>2. ChannelInv' /\ IssuedInv'
      BY <1>6 DEF Announce, Inside, Types, ChannelInv, IssuedInv
    <2>3. StoreInv'
      BY <1>6 DEF Announce, Inside, Types, StoreInv, Storing, Readable
    <2> QED
      BY <2>1, <2>2, <2>3
  <1>7. CASE Use /\ c.cur = None
    <2> USE <1>7 DEF Use, Inside
    <2>1. c' = [c EXCEPT !.pc = "select"] /\ UNCHANGED <<disk, issued>>
      OBVIOUS
    <2>2. Types'
      BY <2>1 DEF Types, Storing
    <2>3. ChannelInv' /\ IssuedInv'
      BY <2>1 DEF Types, ChannelInv, IssuedInv
    <2>4. StoreInv'
      BY <2>1 DEF Types, StoreInv, Storing, Readable
    <2> QED
      BY <2>2, <2>3, <2>4
  <1>8. CASE Use /\ c.cur # None
    <2> DEFINE next == IF c.fromDisc \/ ~hasFS THEN "select" ELSE "store"
    <2>1. (IF c.valid THEN c.closed ELSE c.closed \cup {c.channel}) = 1..c.channel
      <3>1. c.channel \in Nat \ {0} /\ c.valid \in BOOLEAN
        BY DEF Types
      <3>2. 1..(c.channel - 1) \cup {c.channel} = 1..c.channel
        BY <3>1
      <3> QED
        BY <3>1, <3>2, ZenonT(60) DEF ChannelInv
    <2>2. (c.panicked \/ (~c.valid /\ c.channel \in c.closed)) = FALSE
      BY DEF Types, ChannelInv
    <2>3. /\ c' = [c EXCEPT !.pc = next, !.token = c.cur, !.valid = TRUE,
                            !.closed = 1..c.channel, !.panicked = FALSE]
          /\ UNCHANGED <<disk, issued>>
      BY <1>8, <2>1, <2>2, ZenonT(60) DEF Use, Inside
    <2>4. next \in {"select", "store"} /\ 1..c.channel \in SUBSET Nat
      BY DEF Types
    <2> HIDE DEF next
    <2>5. Types'
      BY <2>3, <2>4, ZenonT(60) DEF Types, Storing
    <2>6. ChannelInv' /\ IssuedInv'
      BY <2>3, <2>4 DEF Types, ChannelInv, IssuedInv
    <2>7. c.fromDisc \/ ~hasFS \/ next = "store"
      BY DEF next
    <2>8. StoreInv'
      BY <1>8, <2>3, <2>4, <2>7 DEF Use, Types, StoreInv, Storing, Readable
    <2> QED
      BY <2>5, <2>6, <2>8
  <1>9. CASE Store
    <2>1. CASE /\ c.pc \in Storing
               /\ c' = [c EXCEPT !.pc = "select", !.ioErr = TRUE]
               /\ UNCHANGED <<disk, issued>>
      <3>1. Types'
        BY <2>1, ZenonT(60) DEF Types, Storing
      <3>2. ChannelInv' /\ IssuedInv'
        BY <2>1 DEF Types, ChannelInv, IssuedInv
      <3>3. StoreInv'
        BY <2>1 DEF Types, StoreInv, Storing
      <3> QED
        BY <3>1, <3>2, <3>3
    <2>2. ASSUME NEW to \in {"select"} \cup Storing, c' = [c EXCEPT !.pc = to],
                 NEW file \in issued \cup {None, Torn}, NEW sum \in Token \cup {None, Torn},
                 disk' = [file |-> file, sum |-> sum], UNCHANGED issued,
                 c.pc \in Storing,
                 to \in {"sum", "sumfile", "select"} => file = c.cur,
                 to = "select" => sum = c.cur
          PROVE  IInv'
      <3>1. Types'
        BY <2>2 DEF Types, Storing
      <3>2. ChannelInv' /\ IssuedInv'
        BY <2>2 DEF Types, ChannelInv, IssuedInv
      <3>3. StoreInv'
        BY <2>2 DEF Types, StoreInv, Storing, Readable
      <3> QED
        BY <3>1, <3>2, <3>3
    <2>3. /\ disk.file \in issued \cup {None, Torn} /\ c.cur \in issued \cup {None, Torn}
          /\ disk.sum \in Token \cup {None, Torn} /\ c.cur \in Token \cup {None, Torn}
          /\ c.pc \in {"sum", "sumfile"} => disk.file = c.cur
      BY DEF Types, IssuedInv, StoreInv
    <2> QED
      BY <1>9, <2>1, <2>2, <2>3 DEF Store, Write, Storing
  <1>10. CASE ContextDone
    <2>1. Types'
      BY <1>10, ZenonT(60) DEF ContextDone, Inside, Types, Storing
    <2>2. ChannelInv' /\ IssuedInv'
      BY <1>10 DEF ContextDone, Inside, Types, ChannelInv, IssuedInv
    <2>3. StoreInv'
      BY <1>10 DEF ContextDone, Inside, Types, StoreInv, Storing, Readable
    <2> QED
      BY <2>1, <2>2, <2>3
  <1>11. ASSUME NEW x \in Caller, Wakeup(x) PROVE IInv'
    <2> DEFINE next == IF c.valid THEN c.channel + 1 ELSE c.channel
    <2>1. /\ next \in Nat \ {0}
          /\ c.closed = 1..(next - 1)
          /\ \A w \in Waiter : c.wait[w] <= next
      BY DEF Types, ChannelInv
    <2>2. c' = [c EXCEPT !.pc = "ack", !.ackTo = x, !.mark[x] = "wait",
                         !.channel = next, !.valid = FALSE]
      BY <1>11 DEF Wakeup
    <2>3. UNCHANGED <<disk, issued>>
      BY <1>11 DEF Wakeup, Inside
    <2> HIDE DEF next
    <2>4. PICK m \in [Caller -> {"idle", "offer", "wait", "done", "gone"}] :
            c' = [c EXCEPT !.pc = "ack", !.ackTo = x, !.mark = m,
                           !.channel = next, !.valid = FALSE]
      BY <2>2 DEF Types
    <2>5. Types'
      BY <2>1, <2>3, <2>4, ZenonT(60) DEF Types, Storing
    <2>6. ChannelInv' /\ IssuedInv'
      BY <2>1, <2>3, <2>4 DEF Types, ChannelInv, IssuedInv
    <2>7. StoreInv'
      BY <1>11, <2>3, <2>4 DEF Wakeup, Types, StoreInv, Storing, Readable
    <2> QED
      BY <2>5, <2>6, <2>7
  <1>12. CASE Ack
    <2>1. Types'
      BY <1>12, ZenonT(60) DEF Ack, Inside, Types, Storing
    <2>2. ChannelInv' /\ IssuedInv'
      BY <1>12 DEF Ack, Inside, Types, ChannelInv, IssuedInv
    <2>3. StoreInv'
      BY <1>12 DEF Ack, Inside, Types, StoreInv, Storing, Readable
    <2> QED
      BY <2>1, <2>2, <2>3
  <1> QED
    BY <1>1, <1>2, <1>3, <1>4, <1>5, <1>6, <1>7, <1>8, <1>9, <1>10, <1>11, <1>12 DEF Run

\* Steps of the callers, the server's clock and the crash.
LEMMA NextIInv == IInv /\ [Next]_vars => IInv'
  <1> SUFFICES ASSUME IInv, [Next]_vars PROVE IInv'
    OBVIOUS
  <1> USE CredentialsAssumption DEF IInv
  <1>1. CASE Start
    <2>1. Types'
      BY <1>1, ZenonT(60) DEF Start, Inside, Types, Storing
    <2>2. ChannelInv' /\ IssuedInv'
      BY <1>1 DEF Start, Inside, Types, ChannelInv, IssuedInv
    <2>3. StoreInv'
      BY <1>1 DEF Start, Inside, Types, StoreInv, Storing, Readable
    <2> QED
      BY <2>1, <2>2, <2>3
  <1>2. CASE Stop \/ StopReturns
    <2>1. PICK done \in BOOLEAN, s \in {"waiting", "returned"} :
            c' = [c EXCEPT !.stop = s, !.ctxDone = done]
      <3>1. CASE Stop
        BY <3>1, ZenonT(60) DEF Stop, Types
      <3>2. CASE StopReturns
        <4>1. c' = [c EXCEPT !.stop = "returned", !.ctxDone = c.ctxDone] /\ c.ctxDone \in BOOLEAN
          BY <3>2, ZenonT(60) DEF StopReturns, Types
        <4> QED
          BY <4>1, ZenonT(60)
      <3> QED
        BY <1>2, <3>1, <3>2, ZenonT(60)
    <2>2. UNCHANGED <<disk, issued>>
      BY <1>2 DEF Stop, StopReturns, Inside
    <2>3. Types'
      BY <2>1, <2>2, ZenonT(60) DEF Types, Storing
    <2>4. ChannelInv' /\ IssuedInv'
      BY <2>1, <2>2 DEF Types, ChannelInv, IssuedInv
    <2>5. StoreInv'
      BY <2>1, <2>2 DEF Types, StoreInv, Storing, Readable
    <2> QED
      BY <2>3, <2>4, <2>5
  <1>3. CASE Run
    BY <1>3, RunIInv
  <1>4. ASSUME NEW x \in Caller, MarkInvalid(x) \/ MarkInvalidGivesUp(x) PROVE IInv'
    <2>1. Types'
      BY <1>4 DEF MarkInvalid, MarkInvalidGivesUp, Inside, Types, Storing
    <2>2. ChannelInv' /\ IssuedInv'
      BY <1>4, SMT, SMTT(60) DEF MarkInvalid, MarkInvalidGivesUp, Inside, Types,
         ChannelInv, IssuedInv
    <2>3. StoreInv'
      BY <1>4 DEF MarkInvalid, MarkInvalidGivesUp, Inside, Types, StoreInv, Storing, Readable
    <2> QED
      BY <2>1, <2>2, <2>3
  <1>5. ASSUME NEW w \in Waiter, WaitUntilValid(w) \/ WaitReturns(w) \/ WaitGivesUp(w)
        PROVE  IInv'
    <2>1. PICK k \in {c.channel, -1} : c' = [c EXCEPT !.wait[w] = k]
      BY <1>5 DEF WaitUntilValid, WaitReturns, WaitGivesUp
    <2>2. k \in Int /\ k <= c.channel
      BY DEF Types
    <2>3. UNCHANGED <<disk, issued>>
      BY <1>5 DEF WaitUntilValid, WaitReturns, WaitGivesUp, Inside
    <2>4. Types'
      BY <2>1, <2>2, <2>3 DEF Types, Storing
    <2>5. ChannelInv' /\ IssuedInv'
      BY <2>1, <2>2, <2>3 DEF Types, ChannelInv, IssuedInv
    <2>6. StoreInv'
      BY <2>1, <2>3 DEF Types, StoreInv, Storing, Readable
    <2> QED
      BY <2>4, <2>5, <2>6
  <1>6. CASE (\E t \in Token : Expire(t)) \/ UNCHANGED vars
    BY <1>6 DEF Expire, vars, Types, ChannelInv, IssuedInv, StoreInv, Readable
  <1>7. CASE Crash
    BY <1>7, FreshOK DEF Crash
  <1> QED
    BY <1>1, <1>2, <1>3, <1>4, <1>5, <1>6, <1>7 DEF Next

\* In every state of credentials.go's run, Stop and MarkInvalid the channels are the
\* closed ones up to the current one, and the disk is as far as store has come.
THEOREM Inductive == Spec => []IInv
  BY InitIInv, NextIInv, PTL DEF Spec

-----------------------------------------------------------------------------
\* run closes no channel twice, whatever fetches, failures and calls of MarkInvalid
\* come in whatever order.
THEOREM ClosedOnce == Spec => []NoDoubleClose
  <1>1. IInv => NoDoubleClose
    BY DEF IInv, ChannelInv, NoDoubleClose
  <1> QED
    BY Inductive, <1>1, PTL

\* The channel a caller of WaitUntilValid holds is closed or will be: MarkInvalid never
\* replaces one that is still open.
THEOREM WakeupNotLost == Spec => []NoLostWakeup
  <1>1. IInv => NoLostWakeup
    BY DEF IInv, Types, ChannelInv, NoLostWakeup
  <1> QED
    BY Inductive, <1>1, PTL

\* A token from the disk was issued by the server, after any number of crashes in the
\* middle of any number of writes.
THEOREM LoadIsSound == Spec => []LoadedWasIssued
  <1>1. IInv => LoadedWasIssued
    BY DEF IInv, IssuedInv, LoadedWasIssued
  <1> QED
    BY Inductive, <1>1, PTL

\* What the stopped service had published is what its next life will load, unless a
\* write failed.
THEOREM StopStores == Spec => []StoppedIsStored
  <1>1. IInv => StoppedIsStored
    BY DEF IInv, StoreInv, StoppedIsStored, Storing
  <1> QED
    BY Inductive, <1>1, PTL
==============================================================================
