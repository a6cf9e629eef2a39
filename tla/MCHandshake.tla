----------------------------- MODULE MCHandshake -----------------------------
EXTENDS Handshake

chat == [name |-> "chat", upper |-> FALSE]
Chat == [name |-> "chat", upper |-> TRUE]
wrp == [name |-> "wrp", upper |-> FALSE]

MCClientProtocols == {<<>>, <<Chat>>, <<wrp, chat>>}
MCServerProtocols == {<<>>, <<chat, wrp>>}

MCUserHeaders ==
    {[origin |-> o, protocols |-> p, exts |-> e] :
       o \in {"", "pattern", "other"}, p \in {<<>>, <<<<chat>>>>},
       e \in {<<>>, <<<<<<Deflate>>>>>>}}

Plain ==
    [http11 |-> TRUE, connection |-> TRUE, upgrade |-> TRUE, method |-> "GET",
     version |-> 13, keys |-> <<"good">>, origin |-> "", protocols |-> <<>>,
     exts |-> <<>>]

\* Requests with one thing wrong each, and offers of compression of all kinds.
MCForeignRequest ==
    {[Plain EXCEPT !.http11 = FALSE], [Plain EXCEPT !.connection = FALSE],
     [Plain EXCEPT !.upgrade = FALSE], [Plain EXCEPT !.method = "POST"],
     [Plain EXCEPT !.version = 8], [Plain EXCEPT !.keys = <<>>],
     [Plain EXCEPT !.keys = <<"good", "good">>], [Plain EXCEPT !.keys = <<"bad">>],
     [Plain EXCEPT !.origin = "host"], [Plain EXCEPT !.origin = "other"],
     [Plain EXCEPT !.protocols = <<<<Chat>>, <<wrp, NoToken>>>>]}
    \cup
    {[Plain EXCEPT !.exts = e] : e \in
       {<<<<<<Deflate, ServerNo>>>>>>, <<<<<<Deflate, ClientNo>>, <<>>>>>>,
        <<<<<<Deflate, "server_max_window_bits=10">>, <<Deflate, ServerNo>>>>>>,
        <<<<<<"x-webkit-deflate-frame">>>>, <<<<Deflate, "client_max_window_bits">>>>>>}}

Good ==
    [status |-> 101, upgrade |-> TRUE, accept |-> TRUE, protocol |-> NoToken,
     exts |-> <<>>]

MCForeignResponse ==
    {[Good EXCEPT !.status = 200], [Good EXCEPT !.upgrade = FALSE],
     [Good EXCEPT !.accept = FALSE]}
    \cup
    {[Good EXCEPT !.protocol = p, !.exts = e] : p \in {NoToken, chat, wrp}, e \in
       {<<>>, <<<<<<Deflate>>>>>>, <<<<<<Deflate, ClientNo>>>>>>,
        <<<<<<Deflate, ServerNo, "server_max_window_bits=10">>>>>>,
        <<<<<<Deflate, "client_max_window_bits=10">>>>>>,
        <<<<<<Deflate>>, <<Deflate>>>>>>, <<<<<<"x-webkit-deflate-frame">>>>>>}}
=============================================================================
