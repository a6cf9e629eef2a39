------------------------------- MODULE MCAgent -------------------------------
(***************************************************************************)
(* Two requests, of which the second may come from the device: every kind  *)
(* of message beside a SET, and two changes of the log level; three        *)
(* parameters, one read-only and one write-only.                           *)
(***************************************************************************)
EXTENDS Agent, TLC

CONSTANTS r1, r2

a == <<"D", ".", "a">>
b == <<"D", ".", "b">>
c == <<"D", ".", "c">>

MCParameter == {a, b, c}
MCaccess == a :> {"r", "w"} @@ b :> {"w"} @@ c :> {"r"}

\* A message with its partners and its data, that requires an answer.
with(data) == data @@ [transaction |-> TRUE, partners |-> {"comcast"}]

first ==
    {with([kind |-> "absent"]), with([kind |-> "garbled"]), with([kind |-> "unsupported"]),
     with([kind |-> "absent", transaction |-> FALSE]),
     with([kind |-> "get", names |-> <<<<"D", ".">>>>]),
     with([kind |-> "get", names |-> <<a, b>>]),
     with([kind |-> "set", names |-> <<a, b>>]),
     with([kind |-> "set", names |-> <<b, c>>]),
     with([kind |-> "set", names |-> <<a>>, partners |-> {}]),
     with([kind |-> "set", names |-> <<a>>, partners |-> {"other"}, transaction |-> FALSE]),
     with([kind |-> "crud", code |-> 400]),
     with([kind |-> "loglevel", level |-> "unknown"])}

MCMessage ==
    {(r1 :> m) @@ (r2 :> with([kind |-> "set", names |-> <<b>>])) : m \in first}
    \cup {[r \in {r1, r2} |-> with([kind |-> "loglevel", level |-> "debug"])]}
=============================================================================
