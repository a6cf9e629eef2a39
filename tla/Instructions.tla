----------------------------- MODULE Instructions -----------------------------
(***************************************************************************)
(* Where to connect: internal/jwtxt and fetchURL of cmd/xmidt-agent.  The  *)
(* endpoint comes from a signed token in a DNS TXT record, is kept until   *)
(* the token expires, and has a configured URL as its fallback.            *)
(*                                                                         *)
(* A token is what its text says: the text is a sequence of chunks, and    *)
(* Signed gives the endpoint and the expiration (0: none) of each text     *)
(* that bears the signature of a configured key.  A line of the record is  *)
(* "key:chunk", or malformed (it does not split in two at the colon).  A   *)
(* key is the sequence of its parts: for the decimal form of an index, the *)
(* digits before the last one as a number, and the last one.               *)
(***************************************************************************)
EXTENDS Integers, FiniteSets, SequencesExt

CONSTANTS
    Fetcher,     \* callers of Endpoint
    Signed,      \* [text -> [endpoint, exp]]: the tokens the keys verify
    Record,      \* what the zone may publish: sequences of lines
    backUpURL,   \* the fallback of fetchURL, or none
    none,        \* no caller, no URL
    MaxTime      \* bound of the clock

ASSUME TimeIsNatural == MaxTime \in Nat
ASSUME ExpirationIsNatural == \A text \in DOMAIN Signed : Signed[text].exp \in Nat
ASSUME TextsAreSequences == \A text \in DOMAIN Signed : text \in Seq(ToSet(text))
ASSUME RecordsAreSequences == \A lines \in Record : lines \in Seq(ToSet(lines))

VARIABLES
    now,         \* the clock; 0 is Go's zero time
    record,      \* the lines that the zone publishes
    m,           \* the holder of the mutex
    validUntil,
    endpoint,
    call         \* each call: where it is, the time it began, the text it has read,
                 \* the URL it returned

txtVars == <<now, record, m, validUntil, endpoint, call>>
ins == <<validUntil, endpoint>>

-----------------------------------------------------------------------------
(* reassemble.                                                             *)

Malformed == <<>>

\* fmt.Sprintf("%0.2d", i)
IndexString(i) == <<i \div 10, i % 10>>

WellFormed(lines) == {i \in DOMAIN lines : lines[i].key # Malformed}

Keys(lines) == {IndexString(0)} \cup {lines[i].key : i \in WellFormed(lines)}

\* parts: of two lines with a key the later one counts, and 00 may be missing.
Part(lines, key) ==
    LET with == {i \in WellFormed(lines) : lines[i].key = key}
    IN IF with = {} THEN <<>>
       ELSE <<lines[CHOOSE i \in with : \A j \in with : j <= i].chunk>>

\* The loop: as many rounds as there are keys, up to the first that is missing.
Rounds(lines) ==
    CHOOSE n \in 0..Cardinality(Keys(lines)) :
      /\ \A i \in 0..(n - 1) : IndexString(i) \in Keys(lines)
      /\ n = Cardinality(Keys(lines)) \/ IndexString(n) \notin Keys(lines)

\* Mutant: one round too few.
ReassembleShort(lines) ==
    FlattenSeq([i \in 1..(Rounds(lines) - 1) |-> Part(lines, IndexString(i - 1))])

Reassemble(lines) ==
    FlattenSeq([i \in 1..Rounds(lines) |-> Part(lines, IndexString(i - 1))])

\* The format that token.go:199 describes: each chunk of a text on a line under its
\* index, from 0 or from 1, in any order and among lines of other forms; no line has the
\* index of another chunk, up to the one that follows the last.
Encodes(lines, text) ==
    \E base \in {0, 1} :
      /\ \A i \in DOMAIN text :
           \E j \in DOMAIN lines : lines[j].key = IndexString(i - 1 + base)
      /\ \A j \in DOMAIN lines, i \in 0..(Len(text) + 1) :
           lines[j].key = IndexString(i) =>
             i + 1 - base \in DOMAIN text /\ lines[j].chunk = text[i + 1 - base]

-----------------------------------------------------------------------------
Idle == [at |-> "idle", since |-> 0, text |-> <<>>, url |-> none]

TxtInit ==
    /\ now = 1
    /\ record \in Record
    /\ m = none
    /\ validUntil = 0
    /\ endpoint = none
    /\ call = [f \in Fetcher |-> Idle]

Tick ==
    /\ now < MaxTime
    /\ now' = now + 1
    /\ UNCHANGED <<record, m, ins, call>>

\* The operator of the zone publishes another record.
Publish ==
    /\ record' \in Record \ {record}
    /\ UNCHANGED <<now, m, ins, call>>

Call(f) ==
    /\ call[f].at \in {"idle", "done"}
    /\ call' = [call EXCEPT ![f] = [Idle EXCEPT !.at = "lock", !.since = now]]
    /\ UNCHANGED <<now, record, m, ins>>

\* fetchURL, what it makes of the endpoint and of an error; the mutex is released.
Give(f, url) ==
    /\ call' = [call EXCEPT ![f].at = "done", ![f].url = url, ![f].text = <<>>]
    /\ m' = none

\* Mutant: valid until the second of the expiration, and in it.
EndpointStale(f) ==
    /\ call[f].at = "lock"
    /\ m = none
    /\ \/ /\ now <= validUntil
          /\ Give(f, endpoint)
       \/ /\ now > validUntil
          /\ m' = f
          /\ call' = [call EXCEPT ![f].at = "lookup"]
    /\ UNCHANGED <<now, record, ins>>

\* Endpoint: under the lock, the endpoint in store while it is valid.
Endpoint(f) ==
    /\ call[f].at = "lock"
    /\ m = none
    /\ \/ /\ now < validUntil
          /\ Give(f, endpoint)
       \/ /\ now >= validUntil
          /\ m' = f
          /\ call' = [call EXCEPT ![f].at = "lookup"]
    /\ UNCHANGED <<now, record, ins>>

\* fetch: LookupTXT, with its lines put together.
Lookup(f) ==
    /\ call[f].at = "lookup"
    /\ call' = [call EXCEPT ![f].at = "validate", ![f].text = Reassemble(record)]
    /\ UNCHANGED <<now, record, m, ins>>

\* The lookup fails or runs into the timeout: what is in store stays.
LookupFails(f) ==
    /\ call[f].at = "lookup"
    /\ Give(f, backUpURL)
    /\ UNCHANGED <<now, record, ins>>

\* A token that the keys verify and that has not expired.
Verifies(text) ==
    /\ text \in DOMAIN Signed
    /\ Signed[text].exp = 0 \/ now < Signed[text].exp

\* validate: all or nothing of the token is stored.
Validate(f) ==
    /\ call[f].at = "validate"
    /\ \/ /\ Verifies(call[f].text)
          /\ validUntil' = Signed[call[f].text].exp
          /\ endpoint' = Signed[call[f].text].endpoint
          /\ Give(f, endpoint')
       \/ /\ ~Verifies(call[f].text)
          /\ Give(f, backUpURL)
          /\ UNCHANGED ins
    /\ UNCHANGED <<now, record>>

TxtNext ==
    \/ Tick \/ Publish
    \/ \E f \in Fetcher :
         Call(f) \/ Endpoint(f) \/ Lookup(f) \/ LookupFails(f) \/ Validate(f)

TxtSpec == TxtInit /\ [][TxtNext]_txtVars

-----------------------------------------------------------------------------
(* Properties.                                                             *)

\* An URL that a call returned, other than the fallback, is the endpoint of a token that
\* the keys verify and that was still valid when the call began, whoever stored it
\* (token.go:139) and however long the call then waited for the lock and the lookup.
ReturnedWasValid ==
    \A f \in Fetcher :
      (call[f].at = "done" /\ call[f].url # backUpURL) =>
        \E text \in DOMAIN Signed :
          /\ Signed[text].endpoint = call[f].url
          /\ Signed[text].exp = 0 \/ call[f].since < Signed[text].exp

\* The record gives the text that was split into it, from index 0 or 1, in any order of
\* the lines and with other lines among them (token.go:199-213).
ReassemblesTheText ==
    \A text \in DOMAIN Signed : Encodes(record, text) => Reassemble(record) = text
=============================================================================
