--------------------------- MODULE HandshakeProofs ---------------------------
(***************************************************************************)
(* How a connection comes about: the handshake, for every set of           *)
(* subprotocols, of headers of the caller and of foreign requests and      *)
(* answers, and the endpoint to dial, for every set of callers, records    *)
(* and tokens and for every length of time.                                *)
(*                                                                         *)
(* EndsAgree and AcceptedIsUnderstood: the strengthening says that the     *)
(* request and the answer are what the two ends make of their options, and *)
(* do not change once they are sent; that an open end works with what it   *)
(* read out of them.  What is left is a matter of the operators: that an   *)
(* end reads what the other wrote.                                         *)
(*                                                                         *)
(* ReturnedWasValid: a call that finds the stored endpoint valid says      *)
(* nothing of a token.  The strengthening adds where the stored endpoint   *)
(* comes from, and that no call began later than now.                      *)
(***************************************************************************)
EXTENDS Handshake, Instructions, FiniteSetTheorems, SequenceTheorems,
        WellFoundedInduction, TLAPS

\* A set of natural numbers has a least element.
LEMMA Smallest ==
    ASSUME NEW S \in SUBSET Nat, S # {}
    PROVE  \E n \in S : \A k \in S : n <= k
  <1>1. \A a, b \in Nat : <<a, b>> \in OpToRel(<, Nat) <=> a < b
    <2> SUFFICES ASSUME NEW a \in Nat, NEW b \in Nat
                 PROVE  <<a, b>> \in OpToRel(<, Nat) <=> a < b
      BY Zenon
    <2>1. <<a, b>> \in Nat \X Nat /\ <<a, b>>[1] = a /\ <<a, b>>[2] = b
      OBVIOUS
    <2> QED
      BY <2>1, Zenon DEF OpToRel
  <1>2. PICK n \in S : \A k \in S : ~(<<k, n>> \in OpToRel(<, Nat))
    BY NatLessThanWellFounded, WFMin, Zenon
  <1>3. \A k \in S : ~(k < n)
    BY <1>1, <1>2, Zenon
  <1> QED
    BY <1>3

\* What SelectInSeq takes as the first.
LEMMA MinIsMember ==
    ASSUME NEW S \in SUBSET Nat, S # {}
    PROVE  Min(S) \in S
  BY Smallest, Zenon DEF Min

\* headerTokens of one line with one token.
LEMMA FlattenOne ==
    ASSUME NEW x
    PROVE  FlattenSeq(<<x>>) = x
  <1> DEFINE D(h) == [i \in 1..Len(<<x>>) |->
                        IF i = 1 THEN <<x>>[i] ELSE h[i - 1] \o <<x>>[i]]
             flat == CHOOSE h : h = D(h)
  <1>1. FlattenSeq(<<x>>) = flat[1]
    BY DEF FlattenSeq
  <1>2. [i \in {1} |-> x] = D([i \in {1} |-> x])
    OBVIOUS
  <1>3. flat = D(flat)
    BY <1>2
  <1> QED
    BY <1>1, <1>3

\* And the same of no line.
LEMMA FlattenNone == FlattenSeq(<<>>) = <<>>
  BY DEF FlattenSeq

\* websocketExtensions of a header that is not there.
LEMMA NoExtension == WebsocketExtensions(<<>>) = <<>>
  <1>1. HeaderTokens(<<>>) = <<>>
    BY FlattenNone DEF HeaderTokens
  <1>2. [i \in DOMAIN <<>> |-> IF <<>>[i] = <<>> THEN <<>> ELSE << <<>>[i] >>] = <<>>
    OBVIOUS
  <1> QED
    BY <1>1, <1>2, FlattenNone DEF WebsocketExtensions

\* websocketExtensions of one extension.
LEMMA OneExtension ==
    ASSUME NEW x, x # <<>>
    PROVE  WebsocketExtensions(<<<<x>>>>) = <<x>>
  <1> DEFINE tokens == HeaderTokens(<<<<x>>>>)
  <1>1. tokens = <<x>>
    BY FlattenOne DEF HeaderTokens
  <1>2. [i \in DOMAIN tokens |-> IF tokens[i] = <<>> THEN <<>> ELSE <<tokens[i]>>] = <<<<x>>>>
    BY <1>1
  <1> QED
    BY <1>2, FlattenOne DEF WebsocketExtensions

\* The concatenations of String.
LEMMA Joined ==
    ASSUME NEW a, NEW b, NEW c
    PROVE  /\ <<a>> \o <<>> = <<a>>
           /\ <<a>> \o <<b>> = <<a, b>>
           /\ <<a, b>> \o <<>> = <<a, b>>
           /\ <<a, b>> \o <<c>> = <<a, b, c>>
  <1> DEFINE S == {a, b, c}
  <1>0. /\ <<>> \in Seq(S) /\ <<a>> \in Seq(S) /\ <<b>> \in Seq(S) /\ <<c>> \in Seq(S)
        /\ <<a, b>> \in Seq(S) /\ <<a, b, c>> \in Seq(S)
    OBVIOUS
  <1>1. <<a>> \o <<>> = <<a>> /\ <<a, b>> \o <<>> = <<a, b>>
    <2> HIDE DEF S
    <2> QED BY <1>0, ConcatEmptySeq
  <1>2. <<a>> \o <<b>> = <<a, b>>
    <2> DEFINE v == <<a>> \o <<b>>
    <2>1. v \in Seq(S) /\ Len(v) = 2 /\ v[1] = a /\ v[2] = b
      BY <1>0, ConcatProperties
    <2>2. Len(<<a, b>>) = 2 /\ <<a, b>>[1] = a /\ <<a, b>>[2] = b
      OBVIOUS
    <2>3. \A i \in 1..2 : v[i] = <<a, b>>[i]
      BY <2>1, <2>2
    <2> HIDE DEF v, S
    <2>4. v = <<a, b>>
      BY <1>0, <2>1, <2>2, <2>3, SeqEqual
    <2> QED
      BY <2>4 DEF v
  <1>3. <<a, b>> \o <<c>> = <<a, b, c>>
    <2> DEFINE v == <<a, b>> \o <<c>>
    <2>1. v \in Seq(S) /\ Len(v) = 3 /\ v[1] = a /\ v[2] = b /\ v[3] = c
      BY <1>0, ConcatProperties
    <2>2. Len(<<a, b, c>>) = 3 /\ <<a, b, c>>[1] = a /\ <<a, b, c>>[2] = b
          /\ <<a, b, c>>[3] = c
      OBVIOUS
    <2>3. \A i \in 1..3 : v[i] = <<a, b, c>>[i]
      BY <2>1, <2>2
    <2> HIDE DEF v, S
    <2>4. v = <<a, b, c>>
      BY <1>0, <2>1, <2>2, <2>3, SeqEqual, SMT, SMTT(60)
    <2> QED
      BY <2>4 DEF v
  <1> QED
    BY <1>1, <1>2, <1>3

Options == [on : BOOLEAN, client : BOOLEAN, server : BOOLEAN]

\* What String writes, websocketExtensions and the parameters read back.
LEMMA OptsStringSays ==
    ASSUME NEW copts \in Options
    PROVE  /\ OptsString(copts) # <<>> /\ OptsString(copts)[1] = Deflate
           /\ ClientNo \in Params(OptsString(copts)) <=> copts.client
           /\ ServerNo \in Params(OptsString(copts)) <=> copts.server
           /\ Params(OptsString(copts)) \subseteq {ClientNo, ServerNo}
           /\ WebsocketExtensions(<<<<OptsString(copts)>>>>) = <<OptsString(copts)>>
  <1> DEFINE s == OptsString(copts)
  <1>1. /\ s # <<>> /\ s[1] = Deflate
        /\ ClientNo \in Params(s) <=> copts.client
        /\ ServerNo \in Params(s) <=> copts.server
        /\ Params(s) \subseteq {ClientNo, ServerNo}
    <2>1. CASE copts.client /\ copts.server
      <3>1. s = <<Deflate, ClientNo, ServerNo>>
        BY <2>1, Joined, Zenon DEF OptsString
      <3>2. Params(s) = {ClientNo, ServerNo}
        BY <3>1 DEF Params, ToSet
      <3> QED
        BY <2>1, <3>1, <3>2
    <2>2. CASE copts.client /\ ~copts.server
      <3>1. s = <<Deflate, ClientNo>>
        BY <2>2, Joined, Zenon DEF OptsString
      <3>2. Params(s) = {ClientNo}
        BY <3>1 DEF Params, ToSet
      <3> QED
        BY <2>2, <3>1, <3>2 DEF ClientNo, ServerNo
    <2>3. CASE ~copts.client /\ copts.server
      <3>1. s = <<Deflate, ServerNo>>
        BY <2>3, Joined, Zenon DEF OptsString
      <3>2. Params(s) = {ServerNo}
        BY <3>1 DEF Params, ToSet
      <3> QED
        BY <2>3, <3>1, <3>2 DEF ClientNo, ServerNo
    <2>4. CASE ~copts.client /\ ~copts.server
      <3>1. s = <<Deflate>>
        BY <2>4 DEF OptsString
      <3>2. Params(s) = {}
        BY <3>1 DEF Params, ToSet
      <3> QED
        BY <2>4, <3>1, <3>2
    <2> QED
      BY <2>1, <2>2, <2>3, <2>4, SMT, SMTT(60) DEF Options
  <1>2. WebsocketExtensions(<<<<s>>>>) = <<s>>
    BY <1>1, OneExtension
  <1> QED
    BY <1>1, <1>2

\* WithParams on the options of a mode.
LEMMA WithParamsOfMode ==
    ASSUME NEW mode, NEW ext
    PROVE  /\ WithParams(Opts(mode), ext) \in Options
           /\ WithParams(Opts(mode), ext).on
           /\ WithParams(Opts(mode), ext).client
                <=> mode = "noTakeover" \/ ClientNo \in Params(ext)
           /\ WithParams(Opts(mode), ext).server
                <=> mode = "noTakeover" \/ ServerNo \in Params(ext)
  BY Zenon DEF WithParams, Opts, Options

\* selectDeflate on any offers, on none and on the one of this client.
LEMMA SelectDeflateGives ==
    ASSUME NEW exts, NEW mode
    PROVE  /\ SelectDeflate(exts, mode) \in Options
           /\ SelectDeflate(exts, mode).on \/ SelectDeflate(exts, mode) = None
           /\ exts = <<>> => SelectDeflate(exts, mode) = None
  <1>1. SelectDeflate(exts, mode) \in Options
    BY WithParamsOfMode DEF SelectDeflate, None, Options
  <1>2. SelectDeflate(exts, mode).on \/ SelectDeflate(exts, mode) = None
    BY WithParamsOfMode DEF SelectDeflate
  <1>3. exts = <<>> => SelectDeflate(exts, mode) = None
    BY DEF SelectDeflate, SelectInSeq
  <1> QED
    BY <1>1, <1>2, <1>3

\* Of one offer, as this client makes it.
LEMMA OwnOffer ==
    ASSUME NEW x, NEW mode
    PROVE  \/ SelectDeflate(<<x>>, mode) = None
           \/ SelectDeflate(<<x>>, mode) = WithParams(Opts(mode), x)
  <1> DEFINE I == {i \in 1..Len(<<x>>) : <<x>>[i][1] = Deflate /\ AcceptDeflate(<<x>>[i])}
             k == IF I # {} THEN Min(I) ELSE 0
  <1>1. SelectDeflate(<<x>>, mode) = IF mode = "disabled" \/ k = 0 THEN None
                                     ELSE WithParams(Opts(mode), <<x>>[k])
    BY DEF SelectDeflate, SelectInSeq
  <1>2. k = 0 \/ k = 1
    <2>1. I \in SUBSET Nat /\ I \subseteq {1}
      OBVIOUS
    <2> HIDE DEF I
    <2> QED
      BY <2>1, MinIsMember, Zenon
  <1> HIDE DEF k
  <1>3. <<x>>[1] = x
    OBVIOUS
  <1> QED
    BY <1>1, <1>2, <1>3

\* selectSubprotocol gives nothing, or what the client offered.
LEMMA OfferedProtocol ==
    ASSUME NEW r, NEW subprotocols, subprotocols \in Seq(ToSet(subprotocols)),
           HeaderTokens(r.protocols) \in Seq(ToSet(HeaderTokens(r.protocols)))
    PROVE  \/ SelectSubprotocol(r, subprotocols) = NoToken
           \/ SelectSubprotocol(r, subprotocols) \in ToSet(HeaderTokens(r.protocols))
  <1> DEFINE cps == HeaderTokens(r.protocols)
             J(sp) == {j \in 1..Len(cps) : EqualFold(sp, cps[j])}
             match(sp) == IF J(sp) # {} THEN Min(J(sp)) ELSE 0
             I == {i \in 1..Len(subprotocols) : match(subprotocols[i]) # 0}
             k == IF I # {} THEN Min(I) ELSE 0
  <1>1. SelectSubprotocol(r, subprotocols) =
          IF k = 0 THEN NoToken ELSE cps[match(subprotocols[k])]
    BY DEF SelectSubprotocol, SelectInSeq
  <1>2. ASSUME k # 0 PROVE match(subprotocols[k]) # 0
    <2>1. I # {} /\ k = Min(I)
      BY <1>2, Zenon
    <2>2. I \in SUBSET Nat
      OBVIOUS
    <2>3. k \in I
      BY <2>1, <2>2, MinIsMember, Zenon
    <2> QED
      BY <2>3, Zenon
  <1>3. ASSUME NEW sp, match(sp) # 0 PROVE cps[match(sp)] \in ToSet(cps)
    <2>1. J(sp) # {} /\ match(sp) = Min(J(sp))
      BY <1>3
    <2>2. J(sp) \in SUBSET Nat
      OBVIOUS
    <2>3. match(sp) \in J(sp)
      BY <2>1, <2>2, MinIsMember, Zenon
    <2>4. match(sp) \in DOMAIN cps
      BY <2>3
    <2> QED
      BY <2>4, Zenon DEF ToSet
  <1> QED
    BY <1>1, <1>2, <1>3, Zenon

-----------------------------------------------------------------------------
\* What the variables hold; the subprotocol may be anything another server names.
TypeOK ==
    /\ DOMAIN client = {"pc", "mode", "protocols", "user", "scheme", "copts", "protocol"}
    /\ client.mode \in Mode /\ client.protocols \in ClientProtocols
    /\ DOMAIN server = {"pc", "mode", "protocols", "skipVerify", "copts", "protocol"}
    /\ server.mode \in Mode /\ server.protocols \in ServerProtocols

\* What verifyServerResponse asks of the answer.
Verified ==
    /\ resp.status = 101 /\ resp.upgrade /\ resp.accept
    /\ VerifySubprotocol(client.protocols, resp)
    /\ VerifyServerExtensions(client.mode # "disabled", resp)

\* The request and the answer are those of the two ends as they are now: neither
\* changes once it is sent.
Exchanged ==
    /\ client.pc = "start" => req = <<>>
    /\ server.pc = "start" => resp = <<>>
    /\ client.pc \in {"waiting", "open", "refused"} => req = Request
    /\ client.pc \in {"open", "refused"} => server.pc # "start"
    /\ server.pc = "open" =>
         /\ client.pc # "start"
         /\ server.copts = SelectDeflate(WebsocketExtensions(req.exts), server.mode)
         /\ server.protocol = SelectSubprotocol(req, server.protocols)
         /\ resp = [status |-> 101, upgrade |-> TRUE, accept |-> TRUE,
                    protocol |-> server.protocol,
                    exts |-> IF server.copts.on THEN <<<<OptsString(server.copts)>>>>
                             ELSE <<>>]
    /\ client.pc = "open" =>
         Verified /\ client.copts = ClientOpts(resp) /\ client.protocol = resp.protocol
    /\ client.pc = "refused" => ~Verified

IInv == TypeOK /\ Exchanged

\* Nothing is sent at first.
LEMMA InitIInv == Init => IInv
  BY DEF Init, IInv, TypeOK, Exchanged, None, Options, Mode

\* The options that verifyServerExtensions returns.
LEMMA ClientOptsType == ClientOpts(resp) \in Options
  BY WithParamsOfMode DEF ClientOpts, None, Options

\* Every step of the two ends keeps the invariant.
LEMMA NextIInv == IInv /\ [Next]_vars => IInv'
  <1> SUFFICES ASSUME IInv, [Next]_vars PROVE IInv'
    OBVIOUS
  <1> USE DEF IInv
  <1>1. CASE Dial
    <2>1. TypeOK'
      BY <1>1, Zenon DEF Dial, TypeOK, HTTPScheme
    <2>2. Exchanged'
      BY <1>1, Zenon DEF Dial, TypeOK, Exchanged, Request
    <2> QED BY <2>1, <2>2
  <1>2. CASE DialForeign
    <2>1. TypeOK'
      BY <1>2 DEF DialForeign, TypeOK
    <2>2. Exchanged'
      BY <1>2, SMT, SMTT(60) DEF DialForeign, TypeOK, Exchanged
    <2> QED BY <2>1, <2>2
  <1>3. CASE Redirect
    <2>1. TypeOK'
      BY <1>3 DEF Redirect, TypeOK, HTTPScheme
    <2>2. Exchanged'
      BY <1>3 DEF Redirect, TypeOK, Exchanged, Request
    <2> QED BY <2>1, <2>2
  <1>4. CASE Accept
    <2> DEFINE protocol == SelectSubprotocol(req, server.protocols)
               copts == SelectDeflate(WebsocketExtensions(req.exts), server.mode)
    <2>0. copts \in Options
      BY SelectDeflateGives, SMT, SMTT(60)
    <2>1. CASE server' = [server EXCEPT !.pc = "open", !.copts = copts,
                                        !.protocol = protocol]
      <3>1. resp' = [status |-> 101, upgrade |-> TRUE, accept |-> TRUE,
                     protocol |-> protocol,
                     exts |-> IF copts.on THEN <<<<OptsString(copts)>>>> ELSE <<>>]
        BY <1>4, <2>1, Zenon DEF Accept, TypeOK
      <3> HIDE DEF protocol, copts
      <3>2. TypeOK'
        BY <1>4, <2>0, <2>1, SMT, SMTT(60) DEF Accept, TypeOK
      <3>3. server'.copts = copts /\ server'.protocol = protocol /\ server'.mode = server.mode
            /\ server'.protocols = server.protocols /\ server'.pc = "open"
        BY <2>1 DEF TypeOK
      <3>4. UNCHANGED <<client, req>> /\ client.pc \notin {"start", "badURL", "open", "refused"}
        BY <1>4, SMT, SMTT(60) DEF Accept, Exchanged
      <3>5. Exchanged'
        BY <3>1, <3>3, <3>4, SMT, SMTT(60) DEF Exchanged, Request, protocol, copts
      <3> QED BY <3>2, <3>5
    <2>2. CASE server' = [server EXCEPT !.pc = "refused"]
               \/ server' = [server EXCEPT !.pc = "hijackFailed"]
      <3>1. TypeOK'
        BY <1>4, <2>2 DEF Accept, TypeOK
      <3>2. server'.pc \notin {"start", "open"}
        BY <2>2, SMT, SMTT(60) DEF TypeOK
      <3>3. UNCHANGED <<client, req>> /\ client.pc \notin {"start", "badURL", "open", "refused"}
        BY <1>4 DEF Accept, Exchanged
      <3>4. Exchanged'
        BY <3>2, <3>3, SMT, SMTT(60) DEF Exchanged, Request
      <3> QED BY <3>1, <3>4
    <2> QED
      BY <1>4, <2>1, <2>2, SMT, SMTT(60) DEF Accept
  <1>5. CASE AcceptForeign
    <2>1. TypeOK'
      BY <1>5 DEF AcceptForeign, TypeOK
    <2>2. Exchanged'
      BY <1>5 DEF AcceptForeign, TypeOK, Exchanged, Request
    <2> QED BY <2>1, <2>2
  <1>6. CASE VerifyServerResponse
    <2>0. UNCHANGED <<server, req, resp>> /\ server.pc # "start" /\ req = Request
          /\ client.pc = "waiting"
      BY <1>6 DEF VerifyServerResponse, Exchanged
    <2>1. CASE Verified
      <3>1. client' = [client EXCEPT !.pc = "open", !.copts = ClientOpts(resp),
                                     !.protocol = resp.protocol]
        BY <1>6, <2>1 DEF VerifyServerResponse, Verified
      <3>2. TypeOK'
        BY <2>0, <3>1, ClientOptsType, SMT, SMTT(60) DEF TypeOK
      <3>3. /\ client'.pc = "open" /\ client'.copts = ClientOpts(resp)
            /\ client'.protocol = resp.protocol /\ client'.mode = client.mode
            /\ client'.protocols = client.protocols /\ client'.user = client.user
        BY <3>1, SMT, SMTT(60) DEF TypeOK
      <3>4. ClientOpts(resp)' = ClientOpts(resp) /\ Verified' /\ Request' = Request
        BY <2>0, <2>1, <3>3, SMT, SMTT(60) DEF ClientOpts, Verified, Request
      <3>5. Exchanged'
        BY <2>0, <3>3, <3>4, SMT, SMTT(60) DEF Exchanged
      <3> QED BY <3>2, <3>5
    <2>2. CASE ~Verified
      <3>1. client' = [client EXCEPT !.pc = "refused"]
        BY <1>6, <2>2 DEF VerifyServerResponse, Verified
      <3>2. TypeOK'
        BY <2>0, <3>1 DEF TypeOK
      <3>3. /\ client'.pc = "refused" /\ client'.mode = client.mode
            /\ client'.protocols = client.protocols /\ client'.user = client.user
        BY <3>1, SMT, SMTT(60) DEF TypeOK
      <3>4. ~Verified' /\ Request' = Request
        BY <2>0, <2>2, <3>3, SMT, SMTT(60) DEF Verified, Request
      <3>5. Exchanged'
        BY <2>0, <3>3, <3>4, SMT, SMTT(60) DEF Exchanged
      <3> QED BY <3>2, <3>5
    <2> QED BY <2>1, <2>2
  <1>7. CASE TimesOut
    <2>1. TypeOK'
      BY <1>7 DEF TimesOut, TypeOK
    <2>2. Exchanged'
      BY <1>7, SMT, SMTT(60) DEF TimesOut, TypeOK, Exchanged
    <2> QED BY <2>1, <2>2
  <1>8. CASE UNCHANGED vars
    <2>1. TypeOK'
      BY <1>8, SMT, SMTT(60) DEF vars, TypeOK
    <2>2. Exchanged'
      BY <1>8 DEF vars, Exchanged, Request, Verified, ClientOpts
    <2> QED BY <2>1, <2>2
  <1> QED
    BY <1>1, <1>2, <1>3, <1>4, <1>5, <1>6, <1>7, <1>8, SMT, SMTT(60) DEF Next

\* What this server announces is what it works with.
LEMMA ServerAnnounces ==
    ASSUME IInv, server.pc = "open"
    PROVE  /\ server.copts \in Options
           /\ server.copts.on \/ server.copts = None
           /\ WebsocketExtensions(resp.exts) =
                IF server.copts.on THEN <<OptsString(server.copts)>> ELSE <<>>
           /\ server.copts = Announced
  <1>1. server.copts \in Options /\ (server.copts.on \/ server.copts = None)
    BY SelectDeflateGives, SMT, SMTT(60) DEF IInv, Exchanged
  <1>2. resp.exts = IF server.copts.on THEN <<<<OptsString(server.copts)>>>> ELSE <<>>
    BY DEF IInv, Exchanged
  <1>3. WebsocketExtensions(resp.exts) =
          IF server.copts.on THEN <<OptsString(server.copts)>> ELSE <<>>
    BY <1>1, <1>2, NoExtension, OptsStringSays, SMT, SMTT(60)
  <1>4. CASE server.copts.on
    <2> DEFINE x == OptsString(server.copts)
    <2>1. WebsocketExtensions(resp.exts) = <<x>>
      BY <1>3, <1>4
    <2>2. <<x>> # <<>> /\ <<x>>[1] = x
      OBVIOUS
    <2>3. /\ ClientNo \in Params(x) <=> server.copts.client
          /\ ServerNo \in Params(x) <=> server.copts.server
      BY <1>1, OptsStringSays, Zenon
    <2> HIDE DEF x
    <2>4. Announced = [on |-> TRUE, client |-> ClientNo \in Params(x),
                       server |-> ServerNo \in Params(x)]
      BY <2>1, <2>2 DEF Announced
    <2>5. Announced \in Options /\ Announced.on = server.copts.on
          /\ Announced.client = server.copts.client
          /\ Announced.server = server.copts.server
      BY <1>1, <1>4, <2>3, <2>4, SMT, SMTT(60) DEF Options
    <2>6. server.copts = Announced
      BY <1>1, <2>5, SMT, SMTT(60) DEF Options
    <2> QED
      BY <1>1, <1>3, <2>6
  <1>5. CASE ~server.copts.on
    BY <1>1, <1>3, <1>5, SMT, SMTT(60) DEF Announced
  <1> QED
    BY <1>1, <1>3, <1>4, <1>5, SMT, SMTT(60)

\* The client works with what was announced, and with what it asked for.
LEMMA ClientFollows ==
    ASSUME IInv, client.pc = "open"
    PROVE  /\ client.copts \in Options
           /\ client.copts = None <=> WebsocketExtensions(resp.exts) = <<>>
           /\ client.copts.on = Announced.on
           /\ client.copts.on => client.mode # "disabled"
           /\ client.copts.on =>
                /\ client.copts.client <=> client.mode = "noTakeover" \/ Announced.client
                /\ client.copts.server <=> client.mode = "noTakeover" \/ Announced.server
  <1> DEFINE exts == WebsocketExtensions(resp.exts)
  <1>1. client.copts = IF exts = <<>> THEN None ELSE WithParams(Opts(client.mode), exts[1])
    BY DEF IInv, Exchanged, ClientOpts
  <1>2. exts = <<>> \/ client.mode # "disabled"
    BY DEF IInv, Exchanged, Verified, VerifyServerExtensions
  <1>3. Announced = IF exts = <<>> THEN None
                    ELSE [on |-> TRUE, client |-> ClientNo \in Params(exts[1]),
                          server |-> ServerNo \in Params(exts[1])]
    BY DEF Announced
  <1> HIDE DEF exts
  <1>4. CASE exts = <<>>
    BY <1>1, <1>3, <1>4, SMT, SMTT(60) DEF None, Options, exts
  <1>5. CASE exts # <<>>
    <2>1. /\ client.copts \in Options /\ client.copts.on
          /\ client.copts.client
               <=> client.mode = "noTakeover" \/ ClientNo \in Params(exts[1])
          /\ client.copts.server
               <=> client.mode = "noTakeover" \/ ServerNo \in Params(exts[1])
      BY <1>1, <1>5, WithParamsOfMode, SMT, SMTT(60)
    <2>2. client.copts # None
      BY <2>1 DEF None
    <2>3. /\ Announced.on = TRUE
          /\ Announced.client = (ClientNo \in Params(exts[1]))
          /\ Announced.server = (ServerNo \in Params(exts[1]))
      BY <1>3, <1>5
    <2> QED
      BY <1>2, <1>5, <2>1, <2>2, <2>3, Zenon DEF exts, Options
  <1> QED
    BY <1>4, <1>5, SMT, SMTT(60)

\* A server that talks to this client has heard what the client asked for.
LEMMA ServerHears ==
    ASSUME IInv, server.pc = "open", client.pc \in {"open", "refused"},
           client.mode # "disabled", server.copts.on
    PROVE  client.mode = "noTakeover" => server.copts.client /\ server.copts.server
  <1> DEFINE x == OptsString(Opts(client.mode))
  <1>1. Opts(client.mode) \in Options
    BY DEF Opts, Options
  <1>2. req.exts = <<<<x>>>>
    BY DEF IInv, Exchanged, Request
  <1>3. WebsocketExtensions(req.exts) = <<x>>
    BY <1>1, <1>2, OptsStringSays, SMT, SMTT(60)
  <1>4. server.copts = SelectDeflate(<<x>>, server.mode)
    BY <1>3 DEF IInv, Exchanged
  <1>5. server.copts = WithParams(Opts(server.mode), x)
    <2> HIDE DEF x
    <2> QED
      BY <1>4, OwnOffer, SMT, SMTT(60) DEF None
  <1>6. client.mode = "noTakeover" => ClientNo \in Params(x) /\ ServerNo \in Params(x)
    BY <1>1, OptsStringSays, Zenon DEF Opts
  <1> HIDE DEF x
  <1> QED
    BY <1>5, <1>6, WithParamsOfMode, SMT, SMTT(60)

\* The invariant says that the ends agree.
LEMMA IInvEndsAgree == IInv => EndsAgree
  <1> SUFFICES ASSUME IInv PROVE EndsAgree
    OBVIOUS
  <1>1. server.pc = "open" => server.copts = Announced
    BY ServerAnnounces
  <1>2. ASSUME client.pc = "open"
        PROVE  /\ client.copts.on = Announced.on
               /\ Announced.client => client.copts.client
               /\ Announced.server => client.copts.server
    <2>1. CASE client.copts.on
      BY <1>2, <2>1, ClientFollows, Zenon
    <2>2. CASE ~client.copts.on
      <3>1. WebsocketExtensions(resp.exts) = <<>>
        BY <1>2, <2>2, ClientFollows, WithParamsOfMode, SMT, SMTT(60) DEF IInv,
           Exchanged, ClientOpts
      <3>2. Announced = None
        BY <3>1 DEF Announced
      <3> QED
        BY <1>2, <3>2, ClientFollows, ZenonT(60) DEF None
    <2> QED
      BY <2>1, <2>2
  <1>3. ASSUME client.pc = "open", server.pc = "open"
        PROVE  client.copts = server.copts /\ client.protocol = server.protocol
    <2>1. client.protocol = server.protocol
      BY <1>3 DEF IInv, Exchanged
    <2>2. CASE server.copts.on
      <3>1. Announced.on /\ server.copts \in Options /\ Announced = server.copts
        BY <1>3, <2>2, ServerAnnounces, SMT, SMTT(60)
      <3>2. client.copts.on /\ client.copts \in Options /\ client.mode # "disabled"
        BY <1>3, <3>1, ClientFollows, Zenon
      <3>3. client.mode = "noTakeover" => server.copts.client /\ server.copts.server
        BY <1>3, <2>2, <3>2, ServerHears, SMT, SMTT(60)
      <3>4. /\ client.copts.client <=> server.copts.client
            /\ client.copts.server <=> server.copts.server
        BY <1>3, <3>1, <3>2, <3>3, ClientFollows, SMT, SMTT(60)
      <3>5. client.copts = server.copts
        BY <2>2, <3>1, <3>2, <3>4, SMT, SMTT(60) DEF Options
      <3> QED
        BY <2>1, <3>5
    <2>3. CASE ~server.copts.on
      BY <1>3, <2>1, <2>3, ServerAnnounces, ClientFollows, SMT, SMTT(60)
    <2> QED
      BY <2>2, <2>3, SMT, SMTT(60)
  <1> QED
    BY <1>1, <1>2, <1>3, SMT, SMTT(60) DEF EndsAgree

\* And that the client understands what the server accepts.
LEMMA IInvUnderstood == IInv => AcceptedIsUnderstood
  <1> SUFFICES ASSUME IInv, server.pc = "open", client.pc = "refused",
                      client.user.protocols = <<>> \/ client.protocols # <<>>,
                      client.user.exts = <<>> \/ client.mode # "disabled"
               PROVE  Verified
    BY DEF AcceptedIsUnderstood, IInv, Exchanged
  <1>1. resp.status = 101 /\ resp.upgrade /\ resp.accept
        /\ resp.protocol = SelectSubprotocol(req, server.protocols) /\ req = Request
    BY DEF IInv, Exchanged
  <1>2. VerifySubprotocol(client.protocols, resp)
    <2> DEFINE cps == HeaderTokens(req.protocols)
    <2>1. cps = client.protocols
      <3>1. CASE client.protocols # <<>>
        <4>1. req.protocols = <<client.protocols>>
          BY <1>1, <3>1, SMT, SMTT(60) DEF Request
        <4> QED
          BY <4>1, FlattenOne, SMT, SMTT(60) DEF HeaderTokens
      <3>2. CASE client.protocols = <<>>
        <4>1. req.protocols = <<>>
          BY <1>1, <3>2, SMT, SMTT(60) DEF Request
        <4> QED
          BY <3>2, <4>1, FlattenNone, SMT, SMTT(60) DEF HeaderTokens
      <3> QED
        BY <3>1, <3>2
    <2>2. cps \in Seq(ToSet(cps)) /\ server.protocols \in Seq(ToSet(server.protocols))
      BY <2>1, ProtocolsAreLists, SMT, SMTT(60) DEF IInv, TypeOK
    <2>3. resp.protocol = NoToken \/ resp.protocol \in ToSet(client.protocols)
      BY <1>1, <2>1, <2>2, OfferedProtocol, SMT, SMTT(60)
    <2> QED
      BY <2>3 DEF VerifySubprotocol, EqualFold
  <1>3. VerifyServerExtensions(client.mode # "disabled", resp)
    <2> DEFINE x == OptsString(server.copts)
    <2>1. CASE ~server.copts.on
      BY <2>1, ServerAnnounces, SMT, SMTT(60) DEF VerifyServerExtensions
    <2>2. CASE server.copts.on
      <3>1. client.mode # "disabled"
        <4> SUFFICES ASSUME client.mode = "disabled" PROVE FALSE
          OBVIOUS
        <4>1. req.exts = <<>>
          BY <1>1 DEF Request
        <4>2. WebsocketExtensions(req.exts) = <<>>
          BY <4>1, NoExtension, SMT, SMTT(60)
        <4>3. server.copts = None
          BY <4>2, SelectDeflateGives, SMT, SMTT(60) DEF IInv, Exchanged
        <4> QED
          BY <2>2, <4>3, SMT, SMTT(60) DEF None
      <3>2. WebsocketExtensions(resp.exts) = <<x>>
        BY <2>2, ServerAnnounces
      <3>3. x[1] = Deflate /\ Params(x) \subseteq {ClientNo, ServerNo}
        BY ServerAnnounces, OptsStringSays, Zenon
      <3> HIDE DEF x
      <3>4. Len(<<x>>) = 1 /\ <<x>>[1] = x
        OBVIOUS
      <3> QED
        BY <3>1, <3>2, <3>3, <3>4, SMT, SMTT(60) DEF VerifyServerExtensions
    <2> QED
      BY <2>1, <2>2, SMT, SMTT(60)
  <1> QED
    BY <1>1, <1>2, <1>3, SMT, SMTT(60) DEF Verified

\* Both ends of a connection work with the same subprotocol and with the same compression
\* in each direction, whatever the options of the two and whatever other implementations
\* ask or answer (dial.go:271, accept.go:255, compress.go:56).
THEOREM EndsAlwaysAgree == Spec => []EndsAgree
  BY InitIInv, NextIInv, IInvEndsAgree, PTL DEF Spec

\* This client never refuses what this server accepted of it, unless the caller of Dial
\* set the headers by hand (dial.go:256-303).
THEOREM AcceptedIsAlwaysUnderstood == Spec => []AcceptedIsUnderstood
  BY InitIInv, NextIInv, IInvUnderstood, PTL DEF Spec

-----------------------------------------------------------------------------
(* The endpoint to dial.                                                   *)

\* What the variables hold.
Text == DOMAIN Signed \cup {Reassemble(lines) : lines \in Record} \cup {<<>>}
URL == {Signed[text].endpoint : text \in DOMAIN Signed} \cup {backUpURL, none}

TxtTypes ==
    /\ now \in Nat
    /\ record \in Record
    /\ validUntil \in Nat
    /\ endpoint \in URL
    /\ call \in [Fetcher -> [at : {"idle", "lock", "lookup", "validate", "done"},
                            since : Nat, text : Text, url : URL]]

\* An endpoint that counts as valid is the one of a verified token.
StoredIsSigned ==
    validUntil # 0 =>
      \E text \in DOMAIN Signed :
        Signed[text].endpoint = endpoint /\ Signed[text].exp = validUntil

BegunBefore == \A f \in Fetcher : call[f].since <= now

TxtInv == TxtTypes /\ StoredIsSigned /\ BegunBefore /\ ReturnedWasValid

-----------------------------------------------------------------------------
\* What Give leaves: the caller is done with the URL, the others are where they were.
LEMMA GiveEffect ==
    ASSUME TxtTypes, NEW f \in Fetcher, NEW url \in URL, Give(f, url)
    PROVE  /\ call' \in [Fetcher -> [at : {"idle", "lock", "lookup", "validate", "done"},
                                    since : Nat, text : Text, url : URL]]
           /\ call'[f].url = url
           /\ call'[f].at = "done"
           /\ \A d \in Fetcher : call'[d].since = call[d].since
           /\ \A d \in Fetcher \ {f} : call'[d] = call[d]
  BY ZenonT(60) DEF TxtTypes, Give, Text

\* The first lookup has not been made: nothing is stored, nothing returned.
LEMMA TxtInitInv == TxtInit => TxtInv
  <1> SUFFICES ASSUME TxtInit PROVE TxtInv
    OBVIOUS
  <1>1. TxtTypes
    BY DEF TxtInit, TxtTypes, Idle, Text, URL
  <1>2. StoredIsSigned /\ BegunBefore /\ ReturnedWasValid
    BY DEF TxtInit, StoredIsSigned, BegunBefore, ReturnedWasValid, Idle
  <1> QED
    BY <1>1, <1>2 DEF TxtInv

\* Every step of the clock, the zone and the calls keeps the strengthened invariant.
LEMMA TxtNextInv == TxtInv /\ [TxtNext]_txtVars => TxtInv'
  <1> SUFFICES ASSUME TxtInv, [TxtNext]_txtVars PROVE TxtInv'
    OBVIOUS
  <1> USE TimeIsNatural, ExpirationIsNatural
  <1>1. CASE Tick
    <2>1. TxtTypes' /\ StoredIsSigned' /\ BegunBefore'
      BY <1>1 DEF TxtInv, Tick, ins, TxtTypes, StoredIsSigned, BegunBefore
    <2>2. ReturnedWasValid'
      BY <1>1, SMT, SMTT(60) DEF TxtInv, Tick, ReturnedWasValid
    <2> QED
      BY <2>1, <2>2, SMT, SMTT(60) DEF TxtInv
  <1>2. CASE Publish
    <2>1. TxtTypes' /\ StoredIsSigned' /\ BegunBefore'
      BY <1>2 DEF TxtInv, Publish, ins, TxtTypes, StoredIsSigned, BegunBefore
    <2>2. ReturnedWasValid'
      BY <1>2 DEF TxtInv, Publish, ReturnedWasValid
    <2> QED
      BY <2>1, <2>2 DEF TxtInv
  <1>3. ASSUME NEW f \in Fetcher, Call(f) PROVE TxtInv'
    <2>1. TxtTypes'
      BY <1>3, Zenon DEF TxtInv, Call, Idle, ins, TxtTypes, Text, URL
    <2>2. StoredIsSigned' /\ BegunBefore'
      BY <1>3 DEF TxtInv, Call, Idle, ins, TxtTypes, StoredIsSigned, BegunBefore
    <2>3. ReturnedWasValid'
      BY <1>3 DEF TxtInv, Call, Idle, TxtTypes, ReturnedWasValid
    <2> QED
      BY <2>1, <2>2, <2>3, SMT, SMTT(60) DEF TxtInv
  <1>4. ASSUME NEW f \in Fetcher, Endpoint(f) PROVE TxtInv'
    <2>1. CASE now < validUntil /\ Give(f, endpoint)
      <3>1. /\ TxtTypes' /\ StoredIsSigned' /\ BegunBefore'
        BY <1>4, <2>1, GiveEffect, SMT, SMTT(60) DEF TxtInv, Endpoint, ins, TxtTypes,
           StoredIsSigned, BegunBefore
      <3>2. PICK text \in DOMAIN Signed :
              Signed[text].endpoint = endpoint /\ Signed[text].exp = validUntil
        BY <2>1 DEF TxtInv, TxtTypes, StoredIsSigned
      <3>3. call[f].since < Signed[text].exp
        BY <2>1, <3>2, SMT, SMTT(60) DEF TxtInv, TxtTypes, BegunBefore
      <3>4. ReturnedWasValid'
        BY <2>1, <3>2, <3>3, GiveEffect, SMT, SMTT(60) DEF TxtInv, TxtTypes, ReturnedWasValid
      <3> QED
        BY <3>1, <3>4, SMT, SMTT(60) DEF TxtInv
    <2>2. CASE m' = f /\ call' = [call EXCEPT ![f].at = "lookup"]
      <3>1. TxtTypes'
        BY <1>4, <2>2, SMT, SMTT(60) DEF TxtInv, Endpoint, ins, TxtTypes
      <3>2. StoredIsSigned' /\ BegunBefore'
        BY <1>4, <2>2 DEF TxtInv, Endpoint, ins, TxtTypes, StoredIsSigned, BegunBefore
      <3>3. ReturnedWasValid'
        BY <2>2, SMT, SMTT(60) DEF TxtInv, TxtTypes, ReturnedWasValid
      <3> QED
        BY <3>1, <3>2, <3>3 DEF TxtInv
    <2> QED
      BY <1>4, <2>1, <2>2, SMT, SMTT(60) DEF Endpoint
  <1>5. ASSUME NEW f \in Fetcher, Lookup(f) PROVE TxtInv'
    <2>1. Reassemble(record) \in Text
      BY DEF TxtInv, TxtTypes, Text
    <2>2. TxtTypes'
      BY <1>5, <2>1, Zenon DEF TxtInv, Lookup, ins, TxtTypes
    <2>3. StoredIsSigned' /\ BegunBefore'
      BY <1>5 DEF TxtInv, Lookup, ins, TxtTypes, StoredIsSigned, BegunBefore
    <2>4. ReturnedWasValid'
      BY <1>5 DEF TxtInv, Lookup, TxtTypes, ReturnedWasValid
    <2> QED
      BY <2>2, <2>3, <2>4 DEF TxtInv
  <1>6. ASSUME NEW f \in Fetcher, LookupFails(f) PROVE TxtInv'
    <2>1. backUpURL \in URL
      BY SMT, SMTT(60) DEF URL
    <2>2. TxtTypes' /\ StoredIsSigned' /\ BegunBefore'
      BY <1>6, <2>1, GiveEffect, SMT, SMTT(60)
         DEF TxtInv, LookupFails, ins, TxtTypes, StoredIsSigned, BegunBefore
    <2>3. ReturnedWasValid'
      BY <1>6, <2>1, GiveEffect, SMT, SMTT(60) DEF TxtInv, LookupFails, ReturnedWasValid
    <2> QED
      BY <2>2, <2>3, SMT, SMTT(60) DEF TxtInv
  <1>7. ASSUME NEW f \in Fetcher, Validate(f) PROVE TxtInv'
    <2> DEFINE text == call[f].text
    <2>1. CASE /\ Verifies(text)
               /\ validUntil' = Signed[text].exp
               /\ endpoint' = Signed[text].endpoint
               /\ Give(f, endpoint')
      <3>1. text \in DOMAIN Signed /\ endpoint' \in URL
        BY <2>1, SMT, SMTT(60) DEF Verifies, URL
      <3>2. TxtTypes' /\ StoredIsSigned' /\ BegunBefore'
        BY <1>7, <2>1, <3>1, GiveEffect, SMT, SMTT(60)
           DEF TxtInv, Validate, TxtTypes, StoredIsSigned, BegunBefore
      <3>3. Signed[text].exp = 0 \/ call[f].since < Signed[text].exp
        BY <2>1, <3>1, SMT, SMTT(60) DEF TxtInv, TxtTypes, BegunBefore, Verifies
      <3>4. ReturnedWasValid'
        BY <2>1, <3>1, <3>3, GiveEffect, SMT, SMTT(60) DEF TxtInv, ReturnedWasValid
      <3> QED
        BY <3>2, <3>4 DEF TxtInv
    <2>2. CASE Give(f, backUpURL) /\ UNCHANGED ins
      <3>1. backUpURL \in URL
        BY DEF URL
      <3>2. TxtTypes' /\ StoredIsSigned' /\ BegunBefore'
        BY <1>7, <2>2, <3>1, GiveEffect, SMT, SMTT(60)
           DEF TxtInv, Validate, ins, TxtTypes, StoredIsSigned, BegunBefore
      <3>3. ReturnedWasValid'
        BY <2>2, <3>1, GiveEffect, SMT, SMTT(60) DEF TxtInv, ReturnedWasValid
      <3> QED
        BY <3>2, <3>3 DEF TxtInv
    <2> QED
      BY <1>7, <2>1, <2>2, SMT, SMTT(60) DEF Validate
  <1>8. CASE UNCHANGED txtVars
    BY <1>8, SMT, SMTT(60) DEF TxtInv, txtVars, TxtTypes, StoredIsSigned, BegunBefore,
       ReturnedWasValid
  <1> QED
    BY <1>1, <1>2, <1>3, <1>4, <1>5, <1>6, <1>7, <1>8, SMT, SMTT(60) DEF TxtNext

\* Endpoint never returns an endpoint without a verified token that was valid when the
\* call began, for any number of callers and any zone.
THEOREM EndpointWasValid == TxtSpec => []ReturnedWasValid
  <1>1. TxtInv => ReturnedWasValid
    BY DEF TxtInv
  <1> QED
    BY TxtInitInv, TxtNextInv, <1>1, PTL DEF TxtSpec

-----------------------------------------------------------------------------
(* reassemble.  What FlattenSeq gives is defined by recursion, so that the *)
(* facts about it are shown by induction: a set of counterexamples would   *)
(* have a least element.                                                   *)

\* Two consecutive pieces of a text make one.
LEMMA TwoPieces ==
    ASSUME NEW S, NEW t \in Seq(S), NEW a \in 0..Len(t), NEW b \in 0..Len(t), a <= b
    PROVE  SubSeq(t, 1, b) = SubSeq(t, 1, a) \o SubSeq(t, a + 1, b)
  <1>1. Len(t) \in Nat
    OBVIOUS
  <1>2. SubSeq(t, 1, a) \in Seq(S) /\ Len(SubSeq(t, 1, a)) = a
    BY <1>1
  <1>3. SubSeq(t, a + 1, b) \in Seq(S) /\ Len(SubSeq(t, a + 1, b)) = b - a
    BY <1>1
  <1>4. SubSeq(t, 1, b) \in Seq(S) /\ Len(SubSeq(t, 1, b)) = b
    BY <1>1
  <1> DEFINE u == SubSeq(t, 1, a) \o SubSeq(t, a + 1, b)
  <1>5. u \in Seq(S) /\ Len(u) = b
    BY <1>1, <1>2, <1>3, SMT, SMTT(60)
  <1>6. \A i \in 1..b : SubSeq(t, 1, b)[i] = u[i]
    BY <1>1, <1>2, <1>3, <1>4, SMT, SMTT(60)
  <1> QED
    BY <1>4, <1>5, <1>6, SeqEqual, SMT, SMTT(60)

\* A piece of nothing, of one chunk, and of all.
LEMMA Pieces ==
    ASSUME NEW S, NEW t \in Seq(S)
    PROVE  /\ SubSeq(t, 1, 0) = <<>>
           /\ \A k \in 1..Len(t) : SubSeq(t, k, k) = <<t[k]>>
           /\ SubSeq(t, 1, Len(t)) = t
  <1>1. SubSeq(t, 1, 0) = <<>>
    OBVIOUS
  <1>2. \A k \in 1..Len(t) : SubSeq(t, k, k) = <<t[k]>>
    <2> SUFFICES ASSUME NEW k \in 1..Len(t) PROVE SubSeq(t, k, k) = <<t[k]>>
      OBVIOUS
    <2>1. SubSeq(t, k, k) \in Seq(S) /\ Len(SubSeq(t, k, k)) = 1
      OBVIOUS
    <2>2. SubSeq(t, k, k)[1] = t[k]
      OBVIOUS
    <2>3. <<t[k]>> \in Seq(S) /\ Len(<<t[k]>>) = 1 /\ <<t[k]>>[1] = t[k]
      OBVIOUS
    <2>4. \A i \in 1..1 : i = 1
      OBVIOUS
    <2> QED
      BY ONLY <2>1, <2>2, <2>3, <2>4, SeqEqual, Zenon
  <1>3. SubSeq(t, 1, Len(t)) = t
    OBVIOUS
  <1> QED
    BY <1>1, <1>2, <1>3, SMT, SMTT(60)

\* The equations of flatten have one solution.
LEMMA FlattenUnique ==
    ASSUME NEW s, NEW r \in Nat, NEW f, NEW g,
           \A i \in 1..r : f[i] = IF i = 1 THEN s[i] ELSE f[i - 1] \o s[i],
           \A i \in 1..r : g[i] = IF i = 1 THEN s[i] ELSE g[i - 1] \o s[i]
    PROVE  \A i \in 1..r : f[i] = g[i]
  <1> DEFINE Bad == {i \in 1..r : f[i] # g[i]}
  <1> SUFFICES ASSUME Bad # {} PROVE FALSE
    OBVIOUS
  <1>1. PICK n \in Bad : \A k \in Bad : n <= k
    <2>1. Bad \in SUBSET Nat
      OBVIOUS
    <2> QED
      BY <2>1, Smallest, Zenon
  <1>2. n \in 1..r /\ f[n] # g[n] /\ n # 1
    BY <1>1, SMT, SMTT(60)
  <1>3. n - 1 \in 1..r /\ n - 1 \notin Bad
    BY <1>1, <1>2
  <1> QED
    BY <1>2, <1>3, SMT, SMTT(60)

\* Putting consecutive pieces of a text together gives the text up to the end of the
\* last piece; e[i] is where piece i ends.
LEMMA FlattenPieces ==
    ASSUME NEW S, NEW t, t \in Seq(S), NEW r \in Nat \ {0}, NEW e,
           e \in [0..r -> 0..Len(t)], NEW s, Len(s) = r, e[0] = 0,
           \A i \in 1..r : e[i - 1] <= e[i] /\ s[i] = SubSeq(t, e[i - 1] + 1, e[i])
    PROVE  FlattenSeq(s) = SubSeq(t, 1, e[r])
  <1> DEFINE D(h) == [i \in 1..Len(s) |-> IF i = 1 THEN s[i] ELSE h[i - 1] \o s[i]]
             g == [i \in 1..r |-> SubSeq(t, 1, e[i])]
             flat == CHOOSE h : h = D(h)
  <1>1. FlattenSeq(s) = flat[r]
    BY DEF FlattenSeq
  <1>2. ASSUME NEW i \in 1..r, i # 1
        PROVE  g[i] = g[i - 1] \o s[i]
    <2>1. i \in 0..r /\ i - 1 \in 0..r /\ i - 1 \in 1..r
      BY <1>2
    <2>2. e[i - 1] \in 0..Len(t) /\ e[i] \in 0..Len(t)
      BY <2>1, Zenon
    <2>3. e[i - 1] <= e[i] /\ s[i] = SubSeq(t, e[i - 1] + 1, e[i])
      BY <1>2, Zenon
    <2>4. SubSeq(t, 1, e[i]) = SubSeq(t, 1, e[i - 1]) \o SubSeq(t, e[i - 1] + 1, e[i])
      <3> DEFINE a == e[i - 1]
                 b == e[i]
      <3>1. a \in 0..Len(t) /\ b \in 0..Len(t) /\ a <= b
        BY <2>2, <2>3, SMT, SMTT(60)
      <3> HIDE DEF a, b
      <3>2. SubSeq(t, 1, b) = SubSeq(t, 1, a) \o SubSeq(t, a + 1, b)
        BY <3>1, TwoPieces, Zenon
      <3> QED
        BY <3>2, Zenon DEF a, b
    <2>5. g[i] = SubSeq(t, 1, e[i]) /\ g[i - 1] = SubSeq(t, 1, e[i - 1])
      BY <2>1, Zenon
    <2> QED
      BY <2>3, <2>4, <2>5, Zenon
  <1>3. ASSUME NEW i \in 1..r, i = 1
        PROVE  g[i] = s[i]
    <2>1. i - 1 = 0 /\ e[i - 1] + 1 = 1
      BY <1>3
    <2>2. s[i] = SubSeq(t, e[i - 1] + 1, e[i])
      BY <1>3, Zenon
    <2> QED
      BY <1>3, <2>1, <2>2, Zenon
  <1>4. \A i \in 1..r : g[i] = IF i = 1 THEN s[i] ELSE g[i - 1] \o s[i]
    BY <1>2, <1>3, Zenon
  <1>5. g = D(g)
    BY <1>4, Zenon
  <1>6. flat = D(flat)
    BY <1>5, Zenon
  <1>7. \A i \in 1..r : flat[i] = IF i = 1 THEN s[i] ELSE flat[i - 1] \o s[i]
    BY <1>6, Zenon
  <1>8. flat[r] = g[r]
    <2> HIDE DEF flat, g
    <2>1. \A i \in 1..r : flat[i] = g[i]
      BY ONLY r \in Nat, <1>4, <1>7, FlattenUnique, SMT, SMTT(60)
    <2>2. r \in 1..r
      OBVIOUS
    <2> QED
      BY <2>1, <2>2, Zenon
  <1>9. r \in 1..r
    OBVIOUS
  <1> QED
    BY <1>1, <1>8, <1>9, Zenon DEF g

\* The indices of two lines are written differently.
LEMMA IndexStrings ==
    ASSUME NEW i \in Nat, NEW j \in Nat, IndexString(i) = IndexString(j)
    PROVE  i = j
  BY DEF IndexString

\* A record has as many keys as it has indices, or more.
LEMMA KeysCount ==
    ASSUME NEW lines \in Record, NEW n \in Nat,
           \A i \in 0..(n - 1) : IndexString(i) \in Keys(lines)
    PROVE  Cardinality(Keys(lines)) \in Nat /\ n <= Cardinality(Keys(lines))
  <1> DEFINE K == {IndexString(i) : i \in 0..(n - 1)}
             f == [i \in 0..(n - 1) |-> IndexString(i)]
             L == {lines[i].key : i \in WellFormed(lines)}
  <1>1. IsFiniteSet(Keys(lines))
    <2>1. IsFiniteSet(1..Len(lines)) /\ WellFormed(lines) \subseteq 1..Len(lines)
      BY RecordsAreSequences, FS_Interval, SMT, SMTT(60) DEF WellFormed
    <2>2. IsFiniteSet(WellFormed(lines))
      BY <2>1, FS_Subset, SMT, SMTT(60)
    <2>3. IsFiniteSet(L)
      <3> DEFINE k == [i \in WellFormed(lines) |-> lines[i].key]
      <3>1. k \in Surjection(WellFormed(lines), L)
        BY DEF Surjection
      <3> QED
        BY <2>2, <3>1, FS_Surjection, SMT, SMTT(60)
    <2>4. IsFiniteSet({IndexString(0)} \cup L)
      BY <2>3, FS_Singleton, FS_Union, Zenon
    <2> QED
      BY <2>4 DEF Keys
  <1>2. f \in Bijection(0..(n - 1), K)
    BY IndexStrings DEF Bijection, Injection, Surjection, IsInjective
  <1>3. IsFiniteSet(0..(n - 1)) /\ Cardinality(0..(n - 1)) = n
    BY FS_Interval, SMT, SMTT(60)
  <1>4. Cardinality(K) = n
    BY <1>2, <1>3, FS_Bijection, SMT, SMTT(60) DEF ExistsBijection
  <1>5. K \subseteq Keys(lines)
    OBVIOUS
  <1> QED
    BY <1>1, <1>4, <1>5, FS_Subset, FS_CardinalityType, SMT, SMTT(60)

\* The loop ends at the first index that is missing.
LEMMA RoundsUpToTheGap ==
    ASSUME NEW lines \in Record, NEW n \in Nat,
           \A i \in 0..(n - 1) : IndexString(i) \in Keys(lines),
           IndexString(n) \notin Keys(lines)
    PROVE  Rounds(lines) = n
  <1> DEFINE C == Cardinality(Keys(lines))
             P(r) == /\ \A i \in 0..(r - 1) : IndexString(i) \in Keys(lines)
                     /\ r = C \/ IndexString(r) \notin Keys(lines)
  <1>1. C \in Nat /\ n <= C
    BY KeysCount
  <1>2. n \in 0..C /\ P(n)
    BY <1>1
  <1>3. ASSUME NEW r \in 0..C, P(r) PROVE r = n
    <2>1. ~(r > n)
      BY <1>1, <1>3, SMT, SMTT(60)
    <2>2. ~(r < n)
      BY <1>1, <1>3, SMT, SMTT(60)
    <2> QED
      BY <2>1, <2>2, <1>1, SMT, SMTT(60)
  <1> QED
    BY <1>2, <1>3, SMT, SMTT(60) DEF Rounds

\* What stands in parts under a key: nothing, or the chunk of a line with that key.
LEMMA PartOfKey ==
    ASSUME NEW lines \in Record, NEW key, key # Malformed
    PROVE  \/ Part(lines, key) = <<>> /\ \A j \in DOMAIN lines : lines[j].key # key
           \/ \E j \in DOMAIN lines : lines[j].key = key /\ Part(lines, key) = <<lines[j].chunk>>
  <1> DEFINE with == {i \in WellFormed(lines) : lines[i].key = key}
             back == {k \in Nat : \E i \in with : k = Len(lines) - i}
  <1>1. DOMAIN lines = 1..Len(lines) /\ Len(lines) \in Nat
    BY RecordsAreSequences, SMT, SMTT(60)
  <1>2. CASE with = {}
    BY <1>2, SMT, SMTT(60) DEF Part, WellFormed
  <1>3. CASE with # {}
    <2>0. with \subseteq 1..Len(lines)
      BY <1>1 DEF WellFormed
    <2>1. back \in SUBSET Nat /\ back # {}
      <3>1. PICK i \in with : TRUE
        BY <1>3, SMT, SMTT(60)
      <3>2. Len(lines) - i \in Nat
        BY <1>1, <2>0, SMT, SMTT(60)
      <3>3. Len(lines) - i \in back
        BY <3>2
      <3> QED
        BY <3>3
    <2>2. PICK b \in back : \A k \in back : b <= k
      BY <2>1, Smallest, Zenon
    <2>3. \E i \in with : \A j \in with : j <= i
      BY <1>1, <2>2 DEF WellFormed
    <2>4. PICK i \in with : Part(lines, key) = <<lines[i].chunk>>
      BY <1>3, <2>3, Zenon DEF Part
    <2> QED
      BY <2>4 DEF WellFormed
  <1> QED
    BY <1>2, <1>3, SMT, SMTT(60)

\* reassemble gives the text back, whatever the record and the text.
LEMMA ReassembleText ==
    ASSUME NEW lines \in Record, NEW text \in DOMAIN Signed, Encodes(lines, text)
    PROVE  Reassemble(lines) = text
  <1> DEFINE S == ToSet(text)
             n == Len(text)
  <1>1. text \in Seq(S) /\ n \in Nat /\ DOMAIN text = 1..n
    BY TextsAreSequences, SMT, SMTT(60)
  <1>2. PICK base \in {0, 1} :
          /\ \A i \in DOMAIN text :
               \E j \in DOMAIN lines : lines[j].key = IndexString(i - 1 + base)
          /\ \A j \in DOMAIN lines, i \in 0..(n + 1) :
               lines[j].key = IndexString(i) =>
                 i + 1 - base \in DOMAIN text /\ lines[j].chunk = text[i + 1 - base]
    BY DEF Encodes
  <1>3. \A i \in Nat : IndexString(i) # Malformed
    BY DEF IndexString, Malformed
  <1> DEFINE r == IF n = 0 THEN 1 ELSE n + base
             e == [i \in 0..r |-> IF i = 0 \/ n = 0 THEN 0 ELSE i - base]
             s == [i \in 1..r |-> Part(lines, IndexString(i - 1))]
  <1>4. r \in Nat \ {0} /\ e \in [0..r -> 0..n] /\ e[0] = 0 /\ e[r] = n
    BY <1>1, <1>2, SMT, SMTT(60)
  <1>5. \A i \in 0..(r - 1) : IndexString(i) \in Keys(lines)
    <2> SUFFICES ASSUME NEW i \in 0..(r - 1) PROVE IndexString(i) \in Keys(lines)
      OBVIOUS
    <2>1. CASE i = 0
      BY <2>1, SMT, SMTT(60) DEF Keys
    <2>2. CASE i # 0
      <3>1. i + 1 - base \in DOMAIN text /\ (i + 1 - base) - 1 + base = i /\ i \in Nat
        BY <1>1, <1>2, <2>2, SMT, SMTT(60)
      <3>2. PICK j \in DOMAIN lines : lines[j].key = IndexString(i)
        BY <1>2, <3>1, SMT, SMTT(60)
      <3> QED
        BY <1>3, <3>1, <3>2, SMT, SMTT(60) DEF Keys, WellFormed
    <2> QED
      BY <2>1, <2>2, SMT, SMTT(60)
  <1>6. IndexString(r) \notin Keys(lines)
    <2>1. r # 0 /\ r \in 0..(n + 1) /\ r + 1 - base \notin DOMAIN text
      BY <1>1, <1>2, SMT, SMTT(60)
    <2>2. IndexString(r) # IndexString(0)
      BY <2>1, <1>4, IndexStrings, SMT, SMTT(60)
    <2>3. \A j \in DOMAIN lines : lines[j].key # IndexString(r)
      BY <1>2, <2>1, SMT, SMTT(60)
    <2> QED
      BY <2>2, <2>3, SMT, SMTT(60) DEF Keys, WellFormed
  <1>7. Rounds(lines) = r
    BY <1>4, <1>5, <1>6, RoundsUpToTheGap, SMT, SMTT(60)
  <1>8. ASSUME NEW i \in 1..r
        PROVE  e[i - 1] <= e[i] /\ s[i] = SubSeq(text, e[i - 1] + 1, e[i])
    <2> DEFINE key == IndexString(i - 1)
    <2>1. i - 1 \in Nat /\ i - 1 \in 0..(n + 1)
      BY <1>1, <1>2, <1>8, SMT, SMTT(60)
    <2>2. CASE n = 0 \/ (i = 1 /\ base = 1)
      <3>1. i + -base \notin DOMAIN text /\ e[i - 1] = 0 /\ e[i] = 0
        BY <1>1, <1>2, <1>8, <2>2, SMT, SMTT(60)
      <3>2. \A j \in DOMAIN lines : lines[j].key # key
        BY <1>1, <1>2, <2>1, <2>2, SMT, SMTT(60)
      <3>3. s[i] = <<>>
        BY <1>3, <2>1, <3>2, PartOfKey, <1>8, SMT, SMTT(60)
      <3>4. SubSeq(text, e[i - 1] + 1, e[i]) = <<>>
        BY <1>1, <3>1, Pieces, SMT, SMTT(60)
      <3>5. e[i - 1] <= e[i]
        BY <1>2, <3>1, SMT, SMTT(60)
      <3> QED
        BY <3>3, <3>4, <3>5, Zenon
    <2>3. CASE n # 0 /\ ~(i = 1 /\ base = 1)
      <3>1. i - base \in 1..n /\ e[i - 1] = i - base - 1 /\ e[i] = i - base
        BY <1>1, <1>2, <1>8, <2>3, SMT, SMTT(60)
      <3>2. \E j \in DOMAIN lines : lines[j].key = key
        <4>1. (i - base) - 1 + base = i - 1
          BY <1>2, SMT, SMTT(60)
        <4>2. i - base \in DOMAIN text
          BY <1>1, <3>1, SMT, SMTT(60)
        <4> QED
          BY <1>2, <4>1, <4>2, SMT, SMTT(60)
      <3>3. PICK j \in DOMAIN lines : lines[j].key = key /\ s[i] = <<lines[j].chunk>>
        BY <1>3, <2>1, <3>2, PartOfKey, <1>8, SMT, SMTT(60)
      <3>4. s[i] = <<text[i - base]>>
        BY <1>2, <2>1, <3>3, SMT, SMTT(60)
      <3>5. SubSeq(text, e[i - 1] + 1, e[i]) = <<text[i - base]>>
        <4>1. e[i - 1] + 1 = i - base
          BY <1>2, <3>1, SMT, SMTT(60)
        <4>2. SubSeq(text, i - base, i - base) = <<text[i - base]>>
          BY <1>1, <3>1, Pieces, Zenon
        <4> QED
          BY <3>1, <4>1, <4>2, SMT, SMTT(60)
      <3>6. e[i - 1] <= e[i]
        BY <1>2, <3>1, SMT, SMTT(60)
      <3> QED
        BY <3>4, <3>5, <3>6, Zenon
    <2> QED
      BY <2>2, <2>3, ZenonT(60)
  <1>9. Len(s) = r
    <2> HIDE DEF r
    <2> QED
      BY <1>4
  <1>10. FlattenSeq(s) = SubSeq(text, 1, e[r])
    <2> HIDE DEF r, e, s, S
    <2>1. \A i \in 1..r : e[i - 1] <= e[i] /\ s[i] = SubSeq(text, e[i - 1] + 1, e[i])
      BY <1>8
    <2> QED
      BY ONLY <1>1, <1>4, <1>9, <2>1, FlattenPieces, ZenonT(60)
  <1>11. SubSeq(text, 1, e[r]) = text
    BY <1>1, <1>4, Pieces
  <1> QED
    BY <1>7, <1>10, <1>11, Zenon DEF Reassemble

\* The token comes out of the record as it was put in, for every text, with any number of
\* chunks, and every order of the lines (token.go:199-213).
THEOREM RecordGivesTheText == TxtSpec => []ReassemblesTheText
  <1>1. TxtInit => record \in Record
    BY DEF TxtInit
  <1>2. record \in Record /\ [TxtNext]_txtVars => (record \in Record)'
    BY Zenon DEF TxtNext, txtVars, Tick, Publish, Call, Endpoint, Lookup, LookupFails, Validate
  <1>3. record \in Record => ReassemblesTheText
    BY ReassembleText DEF ReassemblesTheText
  <1> QED
    BY <1>1, <1>2, <1>3, PTL DEF TxtSpec
=============================================================================
