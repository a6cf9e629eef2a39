----------------------------- MODULE AgentProofs -----------------------------
(***************************************************************************)
(* SetIsWhole for any number of requests at once, of any names.            *)
(*                                                                         *)
(* It speaks of the moments at which no SET is at work and is far from     *)
(* inductive.  The strengthening follows each field while SETs are at      *)
(* work (TableInv): a SET that began after the one whose value the field   *)
(* has was done is still going to write it.                                *)
(***************************************************************************)
EXTENDS Agent, TLAPS

Name == Seq(STRING)
Item == [p : Name, f : Field]
Msg == {m[r] : m \in Message, r \in Request}

Types ==
    /\ req \in [Request -> [at : {"none", "publish", "published", "forbid", "missing", "over", "expired"},
                            local : BOOLEAN, msg : Msg]]
    /\ task \in [Request -> {"none", "begin", "refused", "accepted", "write", "timer", "answer", "answering"}]
    /\ table \in [Parameter -> [Field -> Request \cup {file, torn}]]
    /\ todo \in [Request -> Seq(Item)]
    /\ history \in Seq(Request)

\* The goroutine of a request starts with its publication, and a SET is noted in
\* history when it begins.
TaskInv ==
    \A r \in Request :
      /\ req[r].at \in {"none", "publish"} => task[r] = "none"
      /\ task[r] \in {"none", "begin"} => Position(r) = {}
      /\ task[r] = "write" => Position(r) # {}
      /\ Position(r) # {} => req[r].msg.kind = "set"

\* Only a SET at work has something to write, and only what it names.
TodoInv ==
    \A r \in Request :
      /\ todo[r] # <<>> => task[r] = "write"
      /\ \A x \in Range(todo[r]) : x.p \in Range(req[r].msg.names)

Writers(p) == {r \in Range(history) : p \in Range(req[r].msg.names)}
Due(r, p, f) == [p |-> p, f |-> f] \in Range(todo[r])
\* q began when r was done.
Later(q, r) == task[r] # "write" /\ Follows(q, r)

FieldInv(p, f, w) ==
    \/ w = file /\ \A q \in Writers(p) : Due(q, p, f)
    \/ w \in Writers(p) /\ \A q \in Writers(p) : Later(q, w) => Due(q, p, f)
    \/ /\ w = torn
       /\ \E q, r \in Writers(p) :
            q # r /\ \A s \in Writers(p) : Later(s, q) \/ Later(s, r) => Due(s, p, f)

TableInv == \A p \in Parameter, f \in Field : FieldInv(p, f, table[p][f])

IInv == Types /\ TaskInv /\ TodoInv /\ TableInv

-----------------------------------------------------------------------------
(* Sequences.                                                              *)

\* Taking the first element of a sequence.
LEMMA TailRange ==
    ASSUME NEW S, NEW s \in Seq(S), s # <<>>
    PROVE  /\ Head(s) \in S /\ Head(s) \in Range(s) /\ Tail(s) \in Seq(S)
           /\ \A x \in Range(Tail(s)) : x \in Range(s)
           /\ \A x \in Range(s) : x = Head(s) \/ x \in Range(Tail(s))
  <1>1. Head(s) \in S /\ Head(s) \in Range(s) /\ Tail(s) \in Seq(S)
    BY DEF Range
  <1>2. ASSUME NEW x \in Range(Tail(s)) PROVE x \in Range(s)
    BY <1>2 DEF Range
  <1>3. ASSUME NEW x \in Range(s), x # Head(s) PROVE x \in Range(Tail(s))
    <2>1. PICK i \in 1..Len(s) : x = s[i]
      BY <1>3 DEF Range
    <2>2. i # 1 /\ i - 1 \in 1..Len(Tail(s)) /\ Tail(s)[i - 1] = x
      BY <1>3, <2>1
    <2>3. DOMAIN Tail(s) = 1..Len(Tail(s))
      OBVIOUS
    <2> QED
      BY <2>2, <2>3, Zenon DEF Range
  <1> QED
    BY <1>1, <1>2, <1>3

\* The fields a SET writes are both fields of each name.
LEMMA WritesRange ==
    ASSUME NEW names \in Seq(Name)
    PROVE  /\ Writes(names) \in Seq(Item)
           /\ \A x \in Range(Writes(names)) : x.p \in Range(names)
           /\ \A p \in Range(names), f \in Field : [p |-> p, f |-> f] \in Range(Writes(names))
  <1> DEFINE n == Len(names)
             elem(i) == [p |-> names[(i + 1) \div 2], f |-> IF i % 2 = 1 THEN "value" ELSE "type"]
  <1>1. \A i \in 1..(2 * n) : (i + 1) \div 2 \in 1..n
    OBVIOUS
  <1>2. \A i \in 1..(2 * n) : elem(i) \in Item /\ elem(i).p \in Range(names)
    BY <1>1 DEF Item, Field, Range
  <1>3. Writes(names) = [i \in 1..(2 * n) |-> elem(i)] /\ 2 * n \in Nat
    BY DEF Writes
  <1>4. Writes(names) \in Seq(Item)
    BY <1>2, <1>3
  <1>5. Range(Writes(names)) = {elem(i) : i \in 1..(2 * n)}
    <2>1. /\ DOMAIN Writes(names) = 1..(2 * n)
          /\ \A i \in 1..(2 * n) : Writes(names)[i] = elem(i)
      BY <1>3
    <2> HIDE DEF n, elem
    <2> QED
      BY <2>1 DEF Range
  <1>6. ASSUME NEW p \in Range(names), NEW f \in Field
        PROVE  [p |-> p, f |-> f] \in {elem(i) : i \in 1..(2 * n)}
    <2>1. PICK k \in 1..n : p = names[k]
      BY DEF Range
    <2>2. CASE f = "value"
      <3>1. 2 * k - 1 \in 1..(2 * n) /\ ((2 * k - 1) + 1) \div 2 = k /\ (2 * k - 1) % 2 = 1
        OBVIOUS
      <3>2. elem(2 * k - 1) = [p |-> p, f |-> f]
        BY <2>1, <2>2, <3>1, SMT, SMTT(60)
      <3> QED
        BY <3>1, <3>2, Zenon
    <2>3. CASE f = "type"
      <3>1. 2 * k \in 1..(2 * n) /\ (2 * k + 1) \div 2 = k /\ (2 * k) % 2 = 0
        OBVIOUS
      <3>2. elem(2 * k) = [p |-> p, f |-> f]
        BY <2>1, <2>3, <3>1, SMT, SMTT(60)
      <3> QED
        BY <3>1, <3>2, Zenon
    <2> QED
      BY <2>2, <2>3, Zenon DEF Field
  <1> QED
    BY <1>2, <1>4, <1>5, <1>6, Zenon

\* A request is noted in history.
LEMMA Noted ==
    ASSUME Types, NEW r \in Request, history' = Append(history, r)
    PROVE  /\ history' \in Seq(Request)
           /\ Range(history') = Range(history) \cup {r}
           /\ Position(r)' = Position(r) \cup {Len(history) + 1}
           /\ \A q \in Request \ {r} : Position(q)' = Position(q)
           /\ \A q \in Request : Position(q) \subseteq 1..Len(history)
  <1> DEFINE n == Len(history)
  <1>1. history \in Seq(Request) /\ n \in Nat /\ DOMAIN history = 1..n
    BY DEF Types
  <1>2. history' \in Seq(Request) /\ DOMAIN history' = 1..(n + 1)
    BY <1>1
  <1>3. history'[n + 1] = r /\ \A i \in 1..n : history'[i] = history[i]
    BY <1>1
  <1> HIDE DEF n
  <1>4. 1..(n + 1) = 1..n \cup {n + 1}
    BY <1>1
  <1>5. Range(history') = Range(history) \cup {r}
    BY <1>1, <1>2, <1>3, <1>4, SMT, SMTT(60) DEF Range
  <1>6. Position(r)' = Position(r) \cup {n + 1}
    BY <1>1, <1>2, <1>3, <1>4, SMT, SMTT(60) DEF Position
  <1>7. ASSUME NEW q \in Request \ {r} PROVE Position(q)' = Position(q)
    BY <1>1, <1>2, <1>3, <1>4, SMT, SMTT(60) DEF Position
  <1>8. \A q \in Request : Position(q) \subseteq 1..n
    BY <1>1 DEF Position
  <1> QED
    BY <1>2, <1>5, <1>6, <1>7, <1>8, SMT, SMTT(60) DEF n

\* Who is in history has a position there.
LEMMA HasPosition ==
    ASSUME Types
    PROVE  \A r : r \in Range(history) <=> r \in Request /\ Position(r) # {}
  BY DEF Types, Range, Position

-----------------------------------------------------------------------------
(* Steps that write nothing.                                               *)

ReqAt == {"none", "publish", "published", "forbid", "missing", "over", "expired"}
TaskAt == {"none", "begin", "refused", "accepted", "write", "timer", "answer", "answering"}

\* What keeps the messages, and who is writing, keeps what is said of the table.
LEMMA NothingWritten ==
    ASSUME IInv, UNCHANGED tr181,
           req' \in [Request -> [at : ReqAt, local : BOOLEAN, msg : Msg]],
           task' \in [Request -> TaskAt],
           \A r \in Request :
             /\ req'[r].msg = req[r].msg
             /\ task'[r] = "write" <=> task[r] = "write"
             /\ req'[r].at \in {"none", "publish"} => task'[r] = "none"
             /\ task'[r] \in {"none", "begin"} => task[r] \in {"none", "begin"}
    PROVE  IInv'
  <1>1. Types'
    BY DEF IInv, Types, tr181, ReqAt, TaskAt
  <1>2. \A r : Position(r)' = Position(r)
    BY DEF Position, tr181
  <1>3. TaskInv'
    BY <1>2 DEF IInv, TaskInv
  <1>4. TodoInv'
    BY DEF IInv, TodoInv, tr181
  <1>5. ASSUME NEW p \in Parameter, NEW f \in Field PROVE FieldInv(p, f, table[p][f])'
    <2>1. Range(history) \subseteq Request /\ Range(history') = Range(history)
      BY HasPosition DEF IInv, tr181
    <2>2. Writers(p)' = Writers(p) /\ Writers(p) \subseteq Request
      BY <2>1 DEF Writers
    <2>3. \A q \in Request : Due(q, p, f)' <=> Due(q, p, f)
      BY DEF Due, tr181
    <2>4. \A q, r \in Request : Later(q, r)' <=> Later(q, r)
      BY <1>2 DEF Later, Follows
    <2>5. table'[p][f] = table[p][f] /\ FieldInv(p, f, table[p][f])
      BY DEF IInv, TableInv, tr181
    <2> QED
      BY <2>2, <2>3, <2>4, <2>5, SMT, SMTT(60) DEF FieldInv
  <1> QED
    BY <1>1, <1>3, <1>4, <1>5, SMT, SMTT(60) DEF IInv, TableInv

\* A request goes on in the chain.
LEMMA RequestGoesOn ==
    ASSUME IInv, NEW r \in Request, NEW at \in ReqAt, NEW local \in BOOLEAN,
           req' = [req EXCEPT ![r] = [at |-> at, local |-> local, msg |-> req[r].msg]],
           at \in {"none", "publish"} => req[r].at = "none",
           UNCHANGED <<task, tr181>>
    PROVE  IInv'
  <1>1. req[r].msg \in Msg
    BY DEF IInv, Types
  <1>2. req' \in [Request -> [at : ReqAt, local : BOOLEAN, msg : Msg]]
    BY <1>1 DEF IInv, Types, ReqAt
  <1>3. \A q \in Request : req'[q].msg = req[q].msg
    BY DEF IInv, Types
  <1>4. \A q \in Request : req'[q].at \in {"none", "publish"} => task[q] = "none"
    BY DEF IInv, Types, TaskInv
  <1>5. task \in [Request -> TaskAt]
    BY DEF IInv, Types, TaskAt
  <1> QED
    BY <1>2, <1>3, <1>4, <1>5, NothingWritten, SMT, SMTT(60)

\* The step At makes of a request.
LEMMA AtStep ==
    ASSUME Types, NEW r \in Request, NEW where, At(r, where)
    PROVE  /\ req' = [req EXCEPT ![r] = [at |-> where, local |-> req[r].local, msg |-> req[r].msg]]
           /\ req[r].local \in BOOLEAN
  <1>1. PICK x \in [at : ReqAt, local : BOOLEAN, msg : Msg] : x = req[r]
    BY DEF Types, ReqAt
  <1>2. [x EXCEPT !.at = where] = [at |-> where, local |-> x.local, msg |-> x.msg]
    BY <1>1, SMT, SMTT(60)
  <1> QED
    BY <1>1, <1>2, Zenon DEF At

\* The goroutine of a request goes on, and is not at a SET.
LEMMA TaskGoesOn ==
    ASSUME IInv, NEW r \in Request, task[r] \notin {"none", "write"},
           NEW at \in TaskAt \ {"none", "begin", "write"}, Task(r, at), UNCHANGED <<req, tr181>>
    PROVE  IInv'
  <1>1. task' \in [Request -> TaskAt]
    BY DEF IInv, Types, Task, TaskAt
  <1>2. req \in [Request -> [at : ReqAt, local : BOOLEAN, msg : Msg]]
    BY DEF IInv, Types, ReqAt
  <1>3. task'[r] = at /\ \A q \in Request \ {r} : task'[q] = task[q]
    BY DEF IInv, Types, Task
  <1>4. \A q \in Request : req[q].at \in {"none", "publish"} => task'[q] = "none"
    BY <1>3 DEF IInv, TaskInv
  <1> QED
    BY <1>1, <1>2, <1>3, <1>4, NothingWritten, SMT, SMTT(60)

\* Requests on their way: the listener, auth, missing and the hub.
LEMMA ChainIInv ==
    ASSUME IInv, NEW r \in Request,
           Receive(r) \/ ReceiveLocal(r) \/ Publish(r) \/ Return(r) \/ Refuse(r)
    PROVE  IInv'
  <1> USE DEF IInv
  <1>1. CASE Receive(r)
    <2>1. PICK at \in {"publish", "forbid", "over"} : At(r, at)
      BY <1>1 DEF Receive, Unauthorized
    <2> QED
      BY <1>1, <2>1, AtStep, RequestGoesOn, SMT, SMTT(60) DEF Receive, service, ReqAt
  <1>2. CASE ReceiveLocal(r)
    <2>1. req' = [req EXCEPT ![r] = [at |-> "publish", local |-> TRUE, msg |-> req[r].msg]]
      <3>1. PICK x \in [at : ReqAt, local : BOOLEAN, msg : Msg] : x = req[r]
        BY DEF Types, ReqAt
      <3>2. [[x EXCEPT !.at = "publish"] EXCEPT !.local = TRUE]
              = [at |-> "publish", local |-> TRUE, msg |-> x.msg]
        <4>1. PICK y : y = [at |-> "publish", local |-> x.local, msg |-> x.msg]
          BY Zenon
        <4>2. [x EXCEPT !.at = "publish"] = y
          BY <3>1, <4>1
        <4>3. \A b : [y EXCEPT !.local = b] = [at |-> "publish", local |-> b, msg |-> x.msg]
          BY <4>1
        <4> QED
          BY <4>2, <4>3, Zenon
      <3>3. req' = [[req EXCEPT ![r].at = "publish"] EXCEPT ![r].local = TRUE]
        BY <1>2 DEF ReceiveLocal
      <3>4. req' = [req EXCEPT ![r] = [[x EXCEPT !.at = "publish"] EXCEPT !.local = TRUE]]
        BY <3>1, <3>3, Zenon DEF Types
      <3> QED
        BY <3>1, <3>2, <3>4, Zenon
    <2> QED
      BY <1>2, <2>1, RequestGoesOn, Zenon DEF ReceiveLocal, service, ReqAt
  <1>3. CASE Publish(r)
    <2>1. PICK t \in {"refused", "begin"} : Task(r, t)
      BY <1>3, Zenon DEF Publish, Task
    <2>2. task[r] = "none"
      BY <1>3 DEF Publish, TaskInv
    <2>3. req' = [req EXCEPT ![r] = [at |-> "published", local |-> req[r].local, msg |-> req[r].msg]]
      BY <1>3, AtStep, SMT, SMTT(60) DEF Publish
    <2>4. req[r].msg \in Msg /\ req[r].local \in BOOLEAN
      BY DEF Types
    <2>5. req' \in [Request -> [at : ReqAt, local : BOOLEAN, msg : Msg]]
      BY <2>3, <2>4, SMT, SMTT(60) DEF Types, ReqAt
    <2>6. /\ \A q \in Request : req'[q].msg = req[q].msg
          /\ req'[r].at = "published"
          /\ \A q \in Request \ {r} : req'[q].at = req[q].at
      BY <2>3 DEF Types
    <2>7. /\ task' \in [Request -> TaskAt] /\ task'[r] = t
          /\ \A q \in Request \ {r} : task'[q] = task[q]
      BY <2>1, SMT, SMTT(60) DEF Types, Task, TaskAt
    <2>8. UNCHANGED tr181
      BY <1>3, SMT, SMTT(60) DEF Publish
    <2>9. \A q \in Request : req'[q].at \in {"none", "publish"} => task'[q] = "none"
      BY <2>6, <2>7, SMT, SMTT(60) DEF TaskInv
    <2> QED
      BY <2>2, <2>5, <2>6, <2>7, <2>8, <2>9, NothingWritten, SMT, SMTT(60)
  <1>4. CASE Return(r)
    <2>1. PICK at \in {"over", "missing", "expired"} : At(r, at)
      BY <1>4, SMT, SMTT(60) DEF Return, NotHandled
    <2> QED
      BY <1>4, <2>1, AtStep, RequestGoesOn, SMT, SMTT(60) DEF Return, service, ReqAt
  <1>5. CASE Refuse(r)
    BY <1>5, AtStep, RequestGoesOn, SMT, SMTT(60) DEF Refuse, service, ReqAt
  <1> QED
    BY <1>1, <1>2, <1>3, <1>4, <1>5, SMT, SMTT(60)

\* The services, but for an accepted SET.
LEMMA ServiceIInv ==
    ASSUME IInv, NEW r \in Request,
           \/ Read(r) \/ Crud(r) \/ NewTimer(r) \/ AnswerCrud(r) \/ AnswerTr181(r)
           \/ Answered(r)
    PROVE  IInv'
  <1>1. task[r] \in {"begin", "timer", "answer", "answering"} /\ UNCHANGED <<req, tr181>>
    BY SMT, SMTT(60) DEF Read, Crud, NewTimer, AnswerCrud, AnswerTr181, Answered, chain
  <1>2. PICK at \in {"refused", "accepted", "timer", "answer", "answering"} : Task(r, at)
    BY DEF Read, Crud, NewTimer, AnswerCrud, AnswerTr181, Answered, Answer
  <1> QED
    BY <1>1, <1>2, TaskGoesOn, SMT, SMTT(60) DEF TaskAt

\* Start, stop, the lock, the timers and the way out concern no SET.
LEMMA OthersIInv ==
    ASSUME IInv, UNCHANGED <<req, task, tr181>>
    PROVE  IInv'
  <1>1. req \in [Request -> [at : ReqAt, local : BOOLEAN, msg : Msg]] /\ task \in [Request -> TaskAt]
    BY DEF IInv, Types, ReqAt, TaskAt
  <1>2. \A r \in Request : req[r].at \in {"none", "publish"} => task[r] = "none"
    BY DEF IInv, TaskInv
  <1> QED
    BY <1>1, <1>2, NothingWritten, SMT, SMTT(60)

-----------------------------------------------------------------------------
(* The SETs.                                                               *)

\* A SET is refused or begins: whatever the fields hold, it is going to write them.
LEMMA SetIInv ==
    ASSUME IInv, NEW r \in Request, Set(r)
    PROVE  IInv'
  <1> USE DEF IInv
  <1>1. task[r] = "begin" /\ req[r].msg.kind = "set" /\ UNCHANGED <<req, table>>
    BY DEF Set, chain
  <1>2. CASE SetStatus(Range(req[r].msg.names)) # 202
    <2>1. Task(r, "answer") /\ UNCHANGED <<req, tr181>>
      BY <1>1, <1>2, SMT, SMTT(60) DEF Set, Answer, tr181
    <2> QED
      BY <1>1, <2>1, TaskGoesOn, SMT, SMTT(60) DEF TaskAt
  <1>3. CASE SetStatus(Range(req[r].msg.names)) = 202
    <2> DEFINE names == req[r].msg.names
    <2>1. /\ Task(r, "write") /\ todo' = [todo EXCEPT ![r] = Writes(names)]
          /\ history' = Append(history, r)
      BY <1>3 DEF Set
    <2>2. names \in Seq(Name)
      <3>1. req[r].msg \in Msg
        BY DEF Types
      <3> QED
        BY <1>1, <3>1, NamesAreSequences, SMT, SMTT(60) DEF Msg, Name
    <2>3. /\ task'[r] = "write" /\ \A q \in Request \ {r} : task'[q] = task[q]
      BY <2>1 DEF Types, Task
    <2>4. todo'[r] = Writes(names) /\ \A q \in Request \ {r} : todo'[q] = todo[q]
      BY <2>1 DEF Types
    <2>5. /\ Writes(names) \in Seq(Item)
          /\ \A x \in Range(Writes(names)) : x.p \in Range(names)
          /\ \A p \in Range(names), f \in Field : [p |-> p, f |-> f] \in Range(Writes(names))
      BY <2>2, WritesRange, SMT, SMTT(60)
    <2>6. /\ history' \in Seq(Request)
          /\ Range(history') = Range(history) \cup {r}
          /\ Position(r)' = Position(r) \cup {Len(history) + 1}
          /\ \A q \in Request \ {r} : Position(q)' = Position(q)
      BY <2>1, Noted, SMT, SMTT(60)
    <2>7. Position(r) = {} /\ r \notin Range(history) /\ Range(history) \subseteq Request
      BY <1>1, HasPosition, SMT, SMTT(60) DEF TaskInv
    <2>8. Types'
      BY <1>1, <2>1, <2>5, <2>6, SMT, SMTT(60) DEF Types, Task
    <2>9. TaskInv'
      BY <1>1, <2>3, <2>6, SMT, SMTT(60) DEF TaskInv
    <2>10. TodoInv'
      BY <1>1, <2>3, <2>4, <2>5, SMT, SMTT(60) DEF TodoInv
    <2>11. ASSUME NEW p \in Parameter, NEW f \in Field PROVE FieldInv(p, f, table[p][f])'
      <3>1. Writers(p) \subseteq Writers(p)' /\ Writers(p)' \subseteq Writers(p) \cup {r}
        BY <1>1, <2>6, SMT, SMTT(60) DEF Writers
      <3>2. r \in Writers(p)' => Due(r, p, f)'
        BY <1>1, <2>4, <2>5, SMT, SMTT(60) DEF Writers, Due
      <3>3. r \notin Writers(p) /\ Writers(p) \subseteq Request
        BY <2>7, SMT, SMTT(60) DEF Writers
      <3>4. \A q \in Writers(p) : Due(q, p, f)' <=> Due(q, p, f)
        BY <2>4, <3>3, SMT, SMTT(60) DEF Due
      <3>5. \A q, s \in Writers(p) : Later(q, s)' <=> Later(q, s)
        BY <2>3, <2>6, <3>3, SMT, SMTT(60) DEF Later, Follows
      <3>6. FieldInv(p, f, table[p][f]) /\ table'[p][f] = table[p][f]
        BY <1>1, SMT, SMTT(60) DEF TableInv
      <3> QED
        BY <3>1, <3>2, <3>3, <3>4, <3>5, <3>6, SMT, SMTT(60) DEF FieldInv
    <2> QED
      BY <2>8, <2>9, <2>10, <2>11, SMT, SMTT(60) DEF TableInv
  <1> QED
    BY <1>2, <1>3, SMT, SMTT(60)

\* A SET is done: it owes nothing any more, and no other has begun since.
LEMMA WrittenIInv ==
    ASSUME IInv, NEW r \in Request, Written(r)
    PROVE  IInv'
  <1> USE DEF IInv
  <1>1. /\ task[r] = "write" /\ todo[r] = <<>> /\ Task(r, "answer")
        /\ history' = Append(history, r) /\ UNCHANGED <<req, table, todo>>
    BY DEF Written, Answer, chain
  <1>2. task'[r] = "answer" /\ \A q \in Request \ {r} : task'[q] = task[q]
    BY <1>1 DEF Types, Task
  <1>3. /\ history' \in Seq(Request)
        /\ Range(history') = Range(history) \cup {r}
        /\ Position(r)' = Position(r) \cup {Len(history) + 1}
        /\ \A q \in Request \ {r} : Position(q)' = Position(q)
        /\ \A q \in Request : Position(q) \subseteq 1..Len(history)
    BY <1>1, Noted, SMT, SMTT(60)
  <1>4. Position(r) # {} /\ r \in Range(history)
        /\ \A q \in Range(history) : q \in Request /\ Position(q) # {}
    BY <1>1, HasPosition, SMT, SMTT(60) DEF TaskInv
  <1>5. Types'
    BY <1>1, <1>3, SMT, SMTT(60) DEF Types, Task
  <1>6. TaskInv'
    BY <1>1, <1>2, <1>3, <1>4, SMT, SMTT(60) DEF TaskInv
  <1>7. TodoInv'
    BY <1>1, <1>2, SMT, SMTT(60) DEF TodoInv
  <1>8. Len(history) \in Nat
    BY SMT, SMTT(60) DEF Types
  <1>9. ASSUME NEW p \in Parameter, NEW f \in Field PROVE FieldInv(p, f, table[p][f])'
    <2>1. Writers(p)' = Writers(p) /\ Writers(p) \subseteq Request
      BY <1>1, <1>3, <1>4, SMT, SMTT(60) DEF Writers
    <2>2. \A q \in Request : Due(q, p, f)' <=> Due(q, p, f)
      BY <1>1 DEF Due
    <2>3. ASSUME NEW q \in Writers(p) PROVE ~Later(q, r)'
      <3>1. PICK j \in Position(q) : j \in 1..Len(history)
        BY <1>3, <1>4, <2>3, SMT, SMTT(60) DEF Writers
      <3>2. j \in Position(q)' /\ Len(history) + 1 \in Position(r)'
        BY <1>3, <2>1, <2>3, SMT, SMTT(60)
      <3>3. ~(Len(history) + 1 < j)
        BY <1>8, <3>1, SMT, SMTT(60)
      <3> QED
        BY <3>2, <3>3, SMT, SMTT(60) DEF Later, Follows
    <2>4. ASSUME NEW q \in Writers(p), NEW s \in Writers(p), Later(q, s)' PROVE Later(q, s)
      <3>1. s # r
        BY <2>3, <2>4, SMT, SMTT(60)
      <3>2. task[s] # "write" /\ Position(s)' = Position(s)
        BY <1>2, <1>3, <2>1, <2>4, <3>1, SMT, SMTT(60) DEF Later
      <3>3. Position(q) \subseteq Position(q)'
        BY <1>3, <2>1, SMT, SMTT(60)
      <3> QED
        BY <2>4, <3>2, <3>3, SMT, SMTT(60) DEF Later, Follows
    <2>5. FieldInv(p, f, table[p][f]) /\ table'[p][f] = table[p][f]
      BY <1>1, SMT, SMTT(60) DEF TableInv
    <2> QED
      BY <2>1, <2>2, <2>4, <2>5, SMT, SMTT(60) DEF FieldInv
  <1> QED
    BY <1>5, <1>6, <1>7, <1>9 DEF TableInv

\* SETs of D write the field they have all come to, and the field has the value w.
LEMMA FieldWritten ==
    ASSUME IInv, NEW D \in SUBSET Request, NEW x \in Item, NEW w \in Request \cup {torn},
           \A r \in D : todo[r] # <<>> /\ Head(todo[r]) = x,
           \/ w \in D
           \/ w = torn /\ \E q, r \in D : q # r,
           table' = [table EXCEPT ![x.p][x.f] = w],
           todo' = [r \in Request |-> IF r \in D THEN Tail(todo[r]) ELSE todo[r]],
           UNCHANGED <<req, task, history>>
    PROVE  IInv'
  <1> USE DEF IInv
  <1>1. ASSUME NEW r \in D
        PROVE  /\ x \in Range(todo[r]) /\ todo'[r] \in Seq(Item) /\ task[r] = "write"
               /\ \A y \in Range(todo'[r]) : y \in Range(todo[r])
               /\ \A y \in Range(todo[r]) : y = x \/ y \in Range(todo'[r])
    <2>1. todo[r] \in Seq(Item) /\ todo'[r] = Tail(todo[r])
      BY DEF Types
    <2> QED
      BY <2>1, TailRange, SMT, SMTT(60) DEF TodoInv
  <1>2. \A r \in Request \ D : todo'[r] = todo[r]
    OBVIOUS
  <1>3. todo' \in [Request -> Seq(Item)]
    BY <1>1, <1>2, SMT, SMTT(60) DEF Types
  <1>4. \A r : Position(r)' = Position(r)
    BY SMT, SMTT(60) DEF Position
  <1>5. /\ table' \in [Parameter -> [Field -> Request \cup {file, torn}]]
        /\ \A p \in Parameter, f \in Field :
             table'[p][f] = IF [p |-> p, f |-> f] = x THEN w ELSE table[p][f]
    <2>1. x = [p |-> x.p, f |-> x.f] /\ x.f \in Field
      BY SMT, SMTT(60) DEF Item
    <2>2. CASE x.p \in Parameter
      <3>1. PICK row \in [Field -> Request \cup {file, torn}] : row = table[x.p]
        BY <2>2 DEF Types
      <3>2. PICK new \in [Field -> Request \cup {file, torn}] : new = [row EXCEPT ![x.f] = w]
        BY <3>1, SMT, SMTT(60)
      <3>3. table' = [table EXCEPT ![x.p] = new]
        BY <3>1, <3>2, SMT, SMTT(60)
      <3>4. table' \in [Parameter -> [Field -> Request \cup {file, torn}]]
        BY <3>2, <3>3, Zenon DEF Types
      <3>5. ASSUME NEW p \in Parameter, NEW f \in Field
            PROVE  table'[p][f] = IF p = x.p /\ f = x.f THEN w ELSE table[p][f]
        BY <2>1, <2>2, <3>1, <3>2, <3>3, SMT, SMTT(60) DEF Types
      <3>6. ASSUME NEW p \in Parameter, NEW f \in Field
            PROVE  table'[p][f] = IF [p |-> p, f |-> f] = x THEN w ELSE table[p][f]
        <4>1. CASE p = x.p /\ f = x.f
          <5>1. [p |-> p, f |-> f] = x
            BY <2>1, <4>1, SMT, SMTT(60)
          <5> QED
            BY <3>5, <4>1, <5>1, SMT, SMTT(60)
        <4>2. CASE ~(p = x.p /\ f = x.f)
          <5>1. [p |-> p, f |-> f] # x
            BY <4>2
          <5> QED
            BY <3>5, <4>2, <5>1, SMT, SMTT(60)
        <4> QED
          BY <4>1, <4>2, SMT, SMTT(60)
      <3> QED
        BY <3>4, <3>6, SMT, SMTT(60)
    <2>3. CASE x.p \notin Parameter
      <3>1. table' = table
        BY <2>3 DEF Types
      <3>2. \A p \in Parameter, f \in Field : [p |-> p, f |-> f] # x
        BY <2>3, SMT, SMTT(60)
      <3> QED
        BY <3>1, <3>2, Zenon DEF Types
    <2> QED
      BY <2>2, <2>3, SMT, SMTT(60)
  <1>6. Types'
    BY <1>3, <1>5, SMT, SMTT(60) DEF Types
  <1>7. TaskInv'
    BY <1>4 DEF TaskInv
  <1>8. TodoInv'
    BY <1>1, <1>2, Zenon DEF TodoInv
  <1>9. ASSUME NEW p \in Parameter, NEW f \in Field PROVE FieldInv(p, f, table[p][f])'
    <2>1. Writers(p)' = Writers(p)
      BY DEF Writers
    <2>2. \A q, r : Later(q, r)' <=> Later(q, r)
      BY <1>4, SMT, SMTT(60) DEF Later, Follows
    <2>3. Writers(p) \subseteq Request
      BY HasPosition, SMT, SMTT(60) DEF Writers
    <2>4. CASE [p |-> p, f |-> f] = x
      <3>1. \A r \in D : r \in Writers(p)
        <4>1. x.p = p
          BY <2>4
        <4> QED
          BY <1>1, <4>1, HasPosition, Zenon DEF Writers, TaskInv, TodoInv
      <3>2. \A q, r : r \in D => ~Later(q, r)
        BY <1>1, Zenon DEF Later
      <3>3. table'[p][f] = w
        BY <1>5, <2>4, SMT, SMTT(60)
      <3> QED
        BY <2>1, <2>2, <3>1, <3>2, <3>3, SMT, SMTT(60) DEF FieldInv
    <2>5. CASE [p |-> p, f |-> f] # x
      <3>1. \A q \in Writers(p) : Due(q, p, f)' <=> Due(q, p, f)
        BY <1>1, <1>2, <2>3, <2>5, Zenon DEF Due
      <3>2. table'[p][f] = table[p][f] /\ FieldInv(p, f, table[p][f])
        BY <1>5, <2>5, SMT, SMTT(60) DEF TableInv
      <3> QED
        BY <2>1, <2>2, <3>1, <3>2, SMT, SMTT(60) DEF FieldInv
    <2> QED
      BY <2>4, <2>5, SMT, SMTT(60)
  <1> QED
    BY <1>6, <1>7, <1>8, <1>9, SMT, SMTT(60) DEF TableInv

\* One SET writes a field, or two at once.
LEMMA WriteIInv ==
    ASSUME IInv, NEW q \in Request, NEW r \in Request, Write(r) \/ WriteBoth(q, r)
    PROVE  IInv'
  <1>1. /\ todo[r] # <<>> /\ todo[r] \in Seq(Item) /\ DOMAIN todo = Request
        /\ UNCHANGED <<req, task, history>>
    BY ZenonT(60) DEF IInv, Types, Write, WriteBoth, chain, service
  <1>2. PICK x \in Item : x = Head(todo[r])
    BY <1>1, TailRange
  <1>3. CASE Write(r)
    <2>1. PICK D \in SUBSET Request : D = {r}
      BY Zenon
    <2>2. todo' = [s \in Request |-> IF s \in D THEN Tail(todo[s]) ELSE todo[s]]
      BY <1>3, <2>1, ZenonT(60) DEF IInv, Types, Write
    <2>3. table' = [table EXCEPT ![x.p][x.f] = r]
      BY <1>2, <1>3, SMT, SMTT(60) DEF Write
    <2>4. r \in D /\ \A s \in D : todo[s] # <<>> /\ Head(todo[s]) = x
      BY <1>1, <1>2, <2>1, SMT, SMTT(60)
    <2> QED
      BY <1>1, <2>2, <2>3, <2>4, FieldWritten, Zenon
  <1>4. CASE WriteBoth(q, r)
    <2>1. PICK D \in SUBSET Request : D = {q, r}
      BY Zenon
    <2>2. todo' = [s \in Request |-> IF s \in D THEN Tail(todo[s]) ELSE todo[s]]
      BY <1>4, <2>1, Zenon DEF IInv, Types, WriteBoth
    <2>3. table' = [table EXCEPT ![x.p][x.f] = torn]
      BY <1>2, <1>4, SMT, SMTT(60) DEF WriteBoth
    <2>4. q \in D /\ r \in D /\ q # r /\ \A s \in D : todo[s] # <<>> /\ Head(todo[s]) = x
      BY <1>2, <1>4, <2>1, SMT, SMTT(60) DEF WriteBoth
    <2>5. PICK w \in Request \cup {torn} : w = torn
      OBVIOUS
    <2> QED
      BY <1>1, <2>2, <2>3, <2>4, <2>5, FieldWritten, Zenon
  <1> QED
    BY <1>3, <1>4, SMT, SMTT(60)

-----------------------------------------------------------------------------
\* Nothing has come yet, and every field has the value of the file.
LEMMA InitIInv == Init => IInv
  <1> SUFFICES ASSUME Init PROVE IInv
    OBVIOUS
  <1>1. PICK m \in Message :
          req = [r \in Request |-> [at |-> "none", local |-> FALSE, msg |-> m[r]]]
    BY Zenon DEF Init
  <1>2. req \in [Request -> [at : ReqAt, local : BOOLEAN, msg : Msg]]
    BY <1>1, SMT, SMTT(60) DEF ReqAt, Msg
  <1>3. Types
    BY <1>2 DEF Init, Types, ReqAt, Field
  <1>4. Range(history) = {} /\ \A r : Position(r) = {}
    BY DEF Init, Range, Position
  <1>5. \A r \in Request : Range(todo[r]) = {}
    BY DEF Init, Range
  <1>6. TaskInv /\ TodoInv
    BY <1>4, <1>5, SMT, SMTT(60) DEF Init, TaskInv, TodoInv
  <1>7. TableInv
    BY <1>4 DEF Init, TableInv, FieldInv, Writers
  <1> QED
    BY <1>3, <1>6, <1>7, SMT, SMTT(60) DEF IInv

\* Every step keeps the invariant.
LEMMA NextIInv == IInv /\ [Next]_vars => IInv'
  <1> SUFFICES ASSUME IInv, [Next]_vars PROVE IInv'
    OBVIOUS
  <1>1. CASE \/ StartWebsocket \/ StartQOS \/ StopWebsocket \/ StopQOS
             \/ Subscribe \/ Subscribed \/ UNCHANGED vars
    BY <1>1, OthersIInv, SMT, SMTT(60) DEF StartWebsocket, StartQOS, StopWebsocket, StopQOS, Goes,
                            Subscribe, Subscribed, vars, chain, service
  <1>2. ASSUME NEW r \in Request, Send(r) \/ RestoreLevel(r) PROVE IInv'
    BY <1>2, OthersIInv, SMT, SMTT(60) DEF Send, RestoreLevel, chain, service
  <1>3. ASSUME NEW r \in Request, Receive(r) \/ ReceiveLocal(r) \/ Progress(r) PROVE IInv'
    BY <1>2, <1>3, ChainIInv, ServiceIInv, SetIInv, WrittenIInv, WriteIInv, SMT,
       SMTT(60) DEF Progress
  <1> QED
    BY <1>1, <1>3, WriteIInv, SMT, SMTT(60) DEF Next

\* The invariant holds in every state of the agent.
THEOREM Inductive == Spec => []IInv
  BY InitIInv, NextIInv, PTL DEF Spec

\* set of the mock TR-181 handler is all or nothing for any number of SETs at once:
\* when none is at work, every field is what the last accepted SET of it wrote, or
\* comes from those that overlapped.
THEOREM SetsAreWhole == Spec => []SetIsWhole
  <1>1. ASSUME IInv PROVE SetIsWhole
    <2> SUFFICES ASSUME \A r \in Request : task[r] # "write",
                        NEW p \in Parameter, NEW f \in Field
                 PROVE  \/ LastWriters(p) = {} /\ table[p][f] = file
                        \/ table[p][f] \in LastWriters(p)
                        \/ table[p][f] = torn /\ \E q, r \in LastWriters(p) : q # r
      BY DEF SetIsWhole
    <2>1. Writers(p) \subseteq Request
      BY <1>1, HasPosition, SMT, SMTT(60) DEF IInv, Writers
    <2>2. \A q \in Writers(p) : ~Due(q, p, f)
      <3>1. \A q \in Request : todo[q] = <<>>
        BY <1>1 DEF IInv, TodoInv
      <3> QED
        BY <2>1, <3>1, SMT, SMTT(60) DEF Due, Range
    <2>3. \A q, r \in Writers(p) : Later(q, r) <=> Follows(q, r)
      BY <2>1 DEF Later
    <2>4. LastWriters(p) = {r \in Writers(p) : ~\E q \in Writers(p) : Follows(q, r)}
      BY DEF LastWriters, Writers
    <2>5. FieldInv(p, f, table[p][f])
      BY <1>1 DEF IInv, TableInv
    <2> QED
      BY <2>2, <2>3, <2>4, <2>5, SMT, SMTT(60) DEF FieldInv
  <1> QED
    BY <1>1, Inductive, PTL
=============================================================================
