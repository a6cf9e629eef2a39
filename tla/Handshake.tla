------------------------------ MODULE Handshake ------------------------------
(***************************************************************************)
(* The opening handshake of a websocket connection                         *)
(* (internal/nhooyr.io/websocket: dial.go, accept.go, compress.go): the    *)
(* client's request, the server's answer, the client's verdict, and the    *)
(* subprotocol and permessage-deflate options each end then works with.    *)
(* Either end may be another implementation (external).                    *)
(*                                                                         *)
(* A header is a sequence of lines, a line the sequence of the tokens      *)
(* between its commas.  An extension is the sequence of its name and its   *)
(* parameters.  Keys and accept values are good or not.                    *)
(***************************************************************************)
EXTENDS Naturals, Sequences, SequencesExt

CONSTANTS
    ClientProtocols,   \* lists of subprotocols a client may be given
    ServerProtocols,   \* the same for a server
    UserHeaders,       \* headers the caller of Dial adds
    ForeignRequest,    \* requests of other clients
    ForeignResponse    \* answers of other servers

ASSUME ProtocolsAreLists ==
    \A list \in ClientProtocols \cup ServerProtocols : list \in Seq(ToSet(list))

(* A token is its name and how it is spelled; "" is the empty one. *)
NoToken == [name |-> "", upper |-> FALSE]
EqualFold(a, b) == a.name = b.name

Deflate == "permessage-deflate"
ClientNo == "client_no_context_takeover"
ServerNo == "server_no_context_takeover"

Mode == {"disabled", "takeover", "noTakeover"}

(* compressionOptions; none when there is no compression. *)
None == [on |-> FALSE, client |-> FALSE, server |-> FALSE]

\* CompressionMode.opts.
Opts(mode) == [on |-> TRUE, client |-> mode = "noTakeover", server |-> mode = "noTakeover"]

\* Mutant of OptsString: the server's direction is forgotten.
OptsStringOneWay(copts) ==
    <<Deflate>> \o (IF copts.client THEN <<ClientNo>> ELSE <<>>)

\* compressionOptions.String.
OptsString(copts) ==
    <<Deflate>> \o (IF copts.client THEN <<ClientNo>> ELSE <<>>)
                \o (IF copts.server THEN <<ServerNo>> ELSE <<>>)

Params(ext) == ToSet(Tail(ext))

\* What the parameters of an extension add to the options.
WithParams(copts, ext) ==
    [copts EXCEPT !.client = @ \/ ClientNo \in Params(ext),
                  !.server = @ \/ ServerNo \in Params(ext)]

\* headerTokens.
HeaderTokens(lines) == FlattenSeq(lines)

\* websocketExtensions: empty tokens are skipped.
WebsocketExtensions(lines) ==
    LET tokens == HeaderTokens(lines)
    IN FlattenSeq([i \in DOMAIN tokens |->
                     IF tokens[i] = <<>> THEN <<>> ELSE <<tokens[i]>>])

VARIABLES
    client,   \* where the client is, its options, the URL's scheme, and what
              \* it works with once it is open
    server,   \* the same for the server
    req,      \* the request, <<>> before it is sent
    resp      \* the answer, <<>> before it is sent

vars == <<client, server, req, resp>>

Init ==
    /\ client \in [pc : {"start"}, mode : Mode, protocols : ClientProtocols,
                   user : UserHeaders, scheme : {"ws", "wss", "http", "https", "ftp"},
                   copts : {None}, protocol : {NoToken}]
    /\ server \in [pc : {"start"}, mode : Mode, protocols : ServerProtocols,
                   skipVerify : BOOLEAN, copts : {None}, protocol : {NoToken}]
    /\ req = <<>>
    /\ resp = <<>>

-----------------------------------------------------------------------------
(* The client's request.                                                   *)

\* The scheme of handshakeRequest and of the redirects that CheckRedirect lets
\* pass.
HTTPScheme(scheme) ==
    CASE scheme = "ws" -> "http" [] scheme = "wss" -> "https" [] OTHER -> scheme

\* The headers of handshakeRequest: the caller's, then its own over them.
Request ==
    [http11 |-> TRUE, connection |-> TRUE, upgrade |-> TRUE, method |-> "GET",
     version |-> 13, keys |-> <<"good">>, origin |-> client.user.origin,
     protocols |-> IF client.protocols # <<>> THEN <<client.protocols>>
                   ELSE client.user.protocols,
     exts |-> IF client.mode # "disabled" THEN <<<<OptsString(Opts(client.mode))>>>>
              ELSE client.user.exts]

\* dial and handshakeRequest.
Dial ==
    /\ client.pc = "start"
    /\ IF HTTPScheme(client.scheme) \in {"http", "https"}
       THEN /\ client' = [client EXCEPT !.pc = "waiting",
                                        !.scheme = HTTPScheme(client.scheme)]
            /\ req' = Request
       ELSE /\ client' = [client EXCEPT !.pc = "badURL"]
            /\ UNCHANGED req
    /\ UNCHANGED <<server, resp>>

\* Another client.
DialForeign ==
    /\ client.pc = "start"
    /\ client' = [client EXCEPT !.pc = "foreign"]
    /\ req' \in ForeignRequest
    /\ UNCHANGED <<server, resp>>

\* A server answers with a redirect; http.Client follows it if it knows the
\* scheme once CheckRedirect has seen it.
Redirect ==
    /\ client.pc = "waiting" /\ server.pc = "start"
    /\ \E scheme \in {"ws", "wss", "ftp"} :
         LET s == HTTPScheme(scheme)
         IN client' = [client EXCEPT !.scheme = s,
                         !.pc = IF s \in {"http", "https"} THEN @ ELSE "badURL"]
    /\ UNCHANGED <<server, req, resp>>

-----------------------------------------------------------------------------
(* The server's answer.                                                    *)

\* verifyClientRequest: the first check that fails gives the status, 0 if none.
VerifyClientRequest(r) ==
    CASE ~r.http11 \/ ~r.connection \/ ~r.upgrade -> 426
      [] r.http11 /\ r.connection /\ r.upgrade /\ r.method # "GET" -> 405
      [] OTHER -> IF r.version # 13 \/ r.keys # <<"good">> THEN 400 ELSE 0

\* authenticateOrigin: no origin, the request's own host or an authorized one.
AuthenticateOrigin(r) == r.origin \in {"", "host", "pattern"}

\* Mutant of SelectSubprotocol: the server's first choice, offered or not.
SelectSubprotocolUnasked(r, subprotocols) ==
    IF subprotocols = <<>> THEN NoToken ELSE subprotocols[1]

\* selectSubprotocol: the server's order, the client's spelling.
SelectSubprotocol(r, subprotocols) ==
    LET cps == HeaderTokens(r.protocols)
        match(sp) == SelectInSeq(cps, LAMBDA cp : EqualFold(sp, cp))
        i == SelectInSeq(subprotocols, LAMBDA sp : match(sp) # 0)
    IN IF i = 0 THEN NoToken ELSE cps[match(subprotocols[i])]

\* acceptDeflate: an offer with another parameter is passed over.
AcceptDeflate(ext) ==
    Params(ext) \subseteq {ClientNo, ServerNo, "client_max_window_bits",
                           "client_max_window_bits=10", "server_max_window_bits=15"}

\* selectDeflate: the first offer that will do.
SelectDeflate(exts, mode) ==
    LET i == SelectInSeq(exts, LAMBDA ext : ext[1] = Deflate /\ AcceptDeflate(ext))
    IN IF mode = "disabled" \/ i = 0 THEN None ELSE WithParams(Opts(mode), exts[i])

Refusal(status) ==
    [status |-> status, upgrade |-> FALSE, accept |-> FALSE, protocol |-> NoToken,
     exts |-> <<>>]

\* accept: refuse, or answer 101 and take the connection over, which may fail
\* when the answer is on its way.
Accept ==
    /\ req # <<>> /\ server.pc = "start"
    /\ client.pc \notin {"start", "badURL"}
    /\ LET code == VerifyClientRequest(req)
           protocol == SelectSubprotocol(req, server.protocols)
           copts == SelectDeflate(WebsocketExtensions(req.exts), server.mode)
       IN IF code # 0 \/ (~server.skipVerify /\ ~AuthenticateOrigin(req))
          THEN /\ resp' = Refusal(IF code # 0 THEN code ELSE 403)
               /\ server' = [server EXCEPT !.pc = "refused"]
          ELSE \/ /\ resp' = Refusal(501)  \* no http.Hijacker
                  /\ server' = [server EXCEPT !.pc = "refused"]
               \/ /\ resp' = [status |-> 101, upgrade |-> TRUE, accept |-> TRUE,
                              protocol |-> protocol,
                              exts |-> IF copts.on THEN <<<<OptsString(copts)>>>>
                                       ELSE <<>>]
                  /\ server' \in {[server EXCEPT !.pc = "open", !.copts = copts,
                                                 !.protocol = protocol],
                                  [server EXCEPT !.pc = "hijackFailed"]}
    /\ UNCHANGED <<client, req>>

\* Another server.
AcceptForeign ==
    /\ client.pc = "waiting" /\ server.pc = "start"
    /\ server' = [server EXCEPT !.pc = "foreign"]
    /\ resp' \in ForeignResponse
    /\ UNCHANGED <<client, req>>

-----------------------------------------------------------------------------
(* The client's verdict.                                                   *)

\* verifySubprotocol.
VerifySubprotocol(subprotos, r) ==
    r.protocol = NoToken \/ \E sp \in ToSet(subprotos) : EqualFold(sp, r.protocol)

\* verifyServerExtensions: nothing, or the one extension that was asked for with
\* parameters the client knows.
VerifyServerExtensions(asked, r) ==
    LET exts == WebsocketExtensions(r.exts)
    IN exts = <<>>
       \/ /\ Len(exts) = 1 /\ exts[1][1] = Deflate /\ asked
          /\ Params(exts[1]) \subseteq
               {ClientNo, ServerNo, "server_max_window_bits=10",
                "server_max_window_bits=15"}

\* The options verifyServerExtensions returns.
ClientOpts(r) ==
    LET exts == WebsocketExtensions(r.exts)
    IN IF exts = <<>> THEN None ELSE WithParams(Opts(client.mode), exts[1])

\* verifyServerResponse, and newConn.
VerifyServerResponse ==
    /\ client.pc = "waiting" /\ resp # <<>>
    /\ client' =
         IF /\ resp.status = 101 /\ resp.upgrade /\ resp.accept
            /\ VerifySubprotocol(client.protocols, resp)
            /\ VerifyServerExtensions(client.mode # "disabled", resp)
         THEN [client EXCEPT !.pc = "open", !.copts = ClientOpts(resp),
                             !.protocol = resp.protocol]
         ELSE [client EXCEPT !.pc = "refused"]
    /\ UNCHANGED <<server, req, resp>>

\* The context of Dial or the HTTP client's timeout ends the wait.
TimesOut ==
    /\ client.pc = "waiting"
    /\ client' = [client EXCEPT !.pc = "timedOut"]
    /\ UNCHANGED <<server, req, resp>>

Next ==
    \/ Dial \/ DialForeign \/ Redirect
    \/ Accept \/ AcceptForeign
    \/ VerifyServerResponse \/ TimesOut

Spec == Init /\ [][Next]_vars

-----------------------------------------------------------------------------
(* Properties.                                                             *)

(* The compression an answer announces, read by itself (RFC 7692, 7.1). *)
Announced ==
    LET exts == WebsocketExtensions(resp.exts)
    IN IF exts = <<>> THEN None
       ELSE [on |-> TRUE, client |-> ClientNo \in Params(exts[1]),
             server |-> ServerNo \in Params(exts[1])]

\* The two ends of a connection work with the same subprotocol and the same
\* compression in each direction, which is what msgWriter and msgReader rely on
\* to keep their windows in step; an end that faces another implementation works
\* with what the answer announced, the client without takeover if it asked so.
EndsAgree ==
    /\ client.pc = "open" /\ server.pc = "open" =>
         client.copts = server.copts /\ client.protocol = server.protocol
    /\ server.pc = "open" => server.copts = Announced
    /\ client.pc = "open" =>
         /\ client.copts.on = Announced.on
         /\ Announced.client => client.copts.client
         /\ Announced.server => client.copts.server

\* A server never accepts what the client that asked then refuses: the connection
\* would stay half open.  Headers the caller of Dial adds may bring that about.
AcceptedIsUnderstood ==
    server.pc = "open" /\ client.pc = "refused" =>
        \/ client.user.protocols # <<>> /\ client.protocols = <<>>
        \/ client.user.exts # <<>> /\ client.mode = "disabled"
=============================================================================
