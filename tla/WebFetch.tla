------------------------------ MODULE WebFetch ------------------------------
(***************************************************************************)
(* Fetching a page: http_get of kernel/net.c and https_get with its TLS    *)
(* handshake, kernel/tls.c, as the browser and the shell call them.  The   *)
(* caller blocks; sockets are TcpClient's and names NetServices', which    *)
(* here succeed or fail.  The server sends any record at any time, also    *)
(* none.  A key stands for its private half too: a signature names its key *)
(* and what it was made over.                                              *)
(***************************************************************************)
EXTENDS Certificates

CONSTANTS
    Urls,           \* addresses a user asks for: [scheme, host]
    Targets,        \* what a Location header says, the same with "relative"
    Chains,         \* certificate chains a server may send
    Randoms, Keys,  \* server randoms and ephemeral keys
    Signers,        \* keys a server may sign with
    Clock,          \* what rtc_now may return
    HsMax,          \* HS_MAX, in messages
    FinishTries,    \* 8: records read while Finished is waited for
    MaxHops,        \* 6
    RawCap,         \* max_len + 2048, in records
    MaxIgnored      \* bound: records without data a server sends

ASSUME FetchAssumption ==
    /\ HsMax \in Nat /\ FinishTries \in Nat /\ MaxIgnored \in Nat
    /\ MaxHops \in Nat \ {0} /\ RawCap \in Nat \ {0} /\ Clock \subseteq Nat
    /\ \A u \in Urls \union Targets : u.host \in Seq(Labels)
    /\ \A c \in Chains : /\ Len(c) \in Nat
                         /\ \A i \in 1 .. Len(c) : IsCertificate(c[i])

VARIABLES
    stage,          \* where the call is, "idle" when there is none
    url, hops,      \* cur; redir
    sock, raw,      \* whether the call holds a socket and the raw buffer
    body, outcome,  \* whether the caller holds a body; what was returned
    hello, chain, ske,  \* server_random; certs; the ServerKeyExchange
    heard,          \* messages of the flight, records while finishing
    total, ignored, \* records of the response; counter for the bound
    serverEnc,      \* server_enc
    now, verdict,   \* rtc_now; what cert_verify_chain said
    finished        \* history: Finished was verified

page == <<url, hops, body, outcome>>
hs   == <<hello, chain, ske, heard, serverEnc, now, verdict, finished>>
recv == <<raw, total, ignored>>
fetchVars == <<stage, page, sock, recv, hs>>

NoSke == [pub |-> 0, sig |-> <<>>]
NewHandshake == /\ hello' = 0 /\ chain' = <<>> /\ ske' = NoSke /\ heard' = 0
         /\ serverEnc' = FALSE /\ now' = 0 /\ verdict' = "none" /\ finished' = FALSE

FetchInit ==
    /\ stage = "idle" /\ url \in Urls /\ hops = 0
    /\ sock = FALSE /\ raw = FALSE /\ body = FALSE /\ outcome = "none"
    /\ hello = 0 /\ chain = <<>> /\ ske = NoSke /\ heard = 0
    /\ total = 0 /\ ignored = 0 /\ serverEnc = FALSE
    /\ now = 0 /\ verdict = "none" /\ finished = FALSE

\* The call is over; whatever it held is given back by the step that returns.
Return(code) == /\ stage' = "idle" /\ outcome' = code
                /\ sock' = FALSE /\ raw' = FALSE /\ total' = 0 /\ ignored' = 0
                /\ NewHandshake /\ UNCHANGED <<url, hops, body>>

ToStage(next) == stage' = next

-----------------------------------------------------------------------------
(* the connection *)

\* The caller gives the last body back before it asks for another.
Fetch(u) ==
    /\ stage = "idle"
    /\ ToStage("name") /\ url' = u /\ hops' = 0 /\ body' = FALSE /\ outcome' = "none"
    /\ UNCHANGED <<sock, recv, hs>>

Lookup == /\ stage = "name"
          /\ \/ Return("failed")
             \/ url.host # <<>> /\ ToStage("connect") /\ UNCHANGED <<page, sock, recv, hs>>

OpenSocket ==
    /\ stage = "connect"
    /\ \/ Return("failed")
       \/ /\ sock' = TRUE
          /\ ToStage(IF url.scheme = "https" THEN "hello" ELSE "get")
          /\ UNCHANGED <<page, recv, hs>>

-----------------------------------------------------------------------------
(* tls_handshake *)

SendHello == /\ stage = "hello"
             /\ \/ Return("tls")
                \/ ToStage("flight") /\ UNCHANGED <<page, sock, recv, hs>>

\* Messages of the server's flight, in any order and any number; the last of
\* each kind counts.
ServerHello == \E r \in Randoms : hello' = r /\ UNCHANGED <<chain, ske>>
Certificate == \E c \in Chains : chain' = c /\ UNCHANGED <<hello, ske>>
ServerKeyExchange ==
    /\ \E k \in Keys, sig \in Signers \X Randoms \X Keys : ske' = [pub |-> k, sig |-> sig]
    /\ UNCHANGED <<hello, chain>>
OtherMessage == UNCHANGED <<hello, chain, ske>>

FlightMessage ==
    /\ stage = "flight" /\ heard < HsMax
    /\ ServerHello \/ Certificate \/ ServerKeyExchange \/ OtherMessage
    /\ heard' = heard + 1
    /\ UNCHANGED <<stage, page, sock, recv, serverEnc, now, verdict, finished>>

HelloDone ==
    /\ stage = "flight" /\ heard < HsMax
    /\ IF hello # 0 /\ ske # NoSke
         THEN ToStage("auth") /\ UNCHANGED <<page, sock, recv, hs>>
         ELSE Return("tls")

\* An alert, the end, a time-out, a message that does not parse or fit.
FlightFails == stage = "flight" /\ Return("tls")

\* Mutant of SkeSigned: the client's view of the exchange is left out.
SkeSignedByLeaf == ske.sig[1] = chain[1].key
SkeSigned == ske.sig = <<chain[1].key, hello, ske.pub>>

\* The chain is verified, then the signature over the key of the exchange.
VerifyChain ==
    /\ stage = "auth" /\ verdict = "none"
    /\ \E t \in Clock :
         IF Verify(chain, url.host, t) = "ok"
         THEN /\ now' = t /\ verdict' = "ok"
              /\ UNCHANGED <<stage, page, sock, recv, hello, chain, ske, heard,
                             serverEnc, finished>>
         ELSE /\ now' = t /\ verdict' = Verify(chain, url.host, t) /\ ToStage("refuse")
              /\ UNCHANGED <<page, sock, recv, hello, chain, ske, heard, serverEnc,
                             finished>>

Refuse == stage = "refuse" /\ Return("cert")

VerifySke ==
    /\ stage = "auth" /\ verdict = "ok"
    /\ IF SkeSigned
         THEN ToStage("keys") /\ UNCHANGED <<page, sock, recv, hs>>
         ELSE Return("cert")

\* ClientKeyExchange, ChangeCipherSpec and Finished.
SendKeys ==
    /\ stage = "keys"
    /\ \/ Return("tls")
       \/ /\ ToStage("finish") /\ heard' = 0
          /\ UNCHANGED <<page, sock, recv, hello, chain, ske, serverEnc, now,
                         verdict, finished>>

FinishRecord == stage = "finish" /\ heard < FinishTries

ServerCcs ==
    /\ FinishRecord
    /\ serverEnc' = TRUE /\ heard' = heard + 1
    /\ UNCHANGED <<stage, page, sock, recv, hello, chain, ske, now, verdict, finished>>

\* A handshake message that came in the clear is passed over, application data
\* always.
PassedOver ==
    /\ FinishRecord
    /\ heard' = heard + 1
    /\ UNCHANGED <<stage, page, sock, recv, hello, chain, ske, serverEnc, now,
                   verdict, finished>>

Finishes == serverEnc

ServerFinished ==
    /\ FinishRecord /\ Finishes
    /\ ToStage("get") /\ finished' = TRUE /\ heard' = 0
    /\ UNCHANGED <<page, sock, recv, hello, chain, ske, serverEnc, now, verdict>>

\* A wrong Finished, a bad tag, an alert, the end, or too many records.
FinishFails == stage = "finish" /\ Return("tls")

-----------------------------------------------------------------------------
(* request and response *)

\* http_get looks at nothing tcp_send returns.
SendGet ==
    /\ stage = "get"
    /\ \/ url.scheme = "https" /\ Return("tls")
       \/ ToStage("buffer") /\ UNCHANGED <<page, sock, recv, hs>>

AllocRaw ==
    /\ stage = "buffer"
    /\ \/ Return("failed")
       \/ /\ raw' = TRUE /\ ToStage("read")
          /\ UNCHANGED <<page, sock, total, ignored, hs>>

ReadSome ==
    /\ stage = "read" /\ total < RawCap
    /\ total' = total + 1
    /\ UNCHANGED <<stage, page, sock, raw, ignored, hs>>

\* https_get only: a session ticket, or a record without data.
ReadIgnored ==
    /\ stage = "read" /\ url.scheme = "https" /\ ignored < MaxIgnored
    /\ ignored' = ignored + 1
    /\ UNCHANGED <<stage, page, sock, raw, total, hs>>

ReadEnd ==
    /\ stage = "read"
    /\ IF total = 0
         THEN Return("failed")
         ELSE /\ ToStage("parse") /\ sock' = FALSE
              /\ UNCHANGED <<page, recv, hs>>

\* Mutant of NextHop: a redirect is not counted.
NextHopUncounted == hops
NextHop == hops + 1

\* Mutant of RawAfterHop: the response with the redirect is not freed.
RawAfterHopKept == raw
RawAfterHop == FALSE

\* Where a redirect leads: from http to http only, from https to anything.  On
\* the way from https to http the count starts again, in http_get.
Follow(u) ==
    IF NextHop = MaxHops
    THEN Return("failed")
    ELSE /\ ToStage("name") /\ url' = u
         /\ hops' = IF u.scheme = url.scheme THEN NextHop ELSE 0
         /\ raw' = RawAfterHop /\ total' = 0 /\ ignored' = 0
         /\ NewHandshake /\ UNCHANGED <<sock, body, outcome>>

Redirect(t) ==
    /\ stage = "parse"
    /\ \/ url.scheme = "http" /\ t.scheme = "http" /\ Follow(t)
       \/ url.scheme = "http" /\ t.scheme # "http" /\ Return("url")
       \/ url.scheme = "https" /\ t.scheme = "relative" /\ Follow(url)
       \/ url.scheme = "https" /\ t.scheme # "relative" /\ Follow(t)

\* The body is copied into a buffer of its own.
HandOver ==
    /\ stage = "parse"
    /\ \/ Return("failed")
       \/ /\ stage' = "idle" /\ outcome' = "page" /\ body' = TRUE
          /\ raw' = FALSE /\ total' = 0 /\ ignored' = 0
          /\ NewHandshake /\ UNCHANGED <<url, hops, sock>>

\* The browser frees the body with the page, wget when it has stored it.
FreeBody == /\ stage = "idle" /\ body
           /\ body' = FALSE
           /\ UNCHANGED <<stage, url, hops, sock, recv, outcome, hs>>

\* What a server may or may not send.
Records == FlightMessage \/ ServerCcs \/ PassedOver \/ ReadSome \/ ReadIgnored

CallerSteps ==
    \/ Lookup \/ OpenSocket \/ SendHello \/ HelloDone \/ FlightFails \/ VerifyChain
    \/ Refuse \/ VerifySke \/ SendKeys \/ ServerFinished \/ FinishFails \/ SendGet
    \/ AllocRaw \/ ReadEnd \/ (\E t \in Targets : Redirect(t)) \/ HandOver

FetchNext == (\E u \in Urls : Fetch(u)) \/ Records \/ CallerSteps \/ FreeBody

FetchSpec == FetchInit /\ [][FetchNext]_fetchVars

-----------------------------------------------------------------------------
(* Properties *)

Asked == stage \in {"buffer", "read", "parse"} /\ url.scheme = "https"

\* A request leaves over https only to a server whose certificate chain is valid
\* for the host asked for, whose certificate's key signed the key the traffic
\* is protected with, for this connection, and which has shown that it has
\* that key -- whatever it sends, how often and in which order.
AuthenticServer ==
    Asked => /\ PathValid(chain, url.host, now)
             /\ ske.sig = <<chain[1].key, hello, ske.pub>>
             /\ finished /\ serverEnc

\* The walk up the chain accepts exactly the valid chains.
VerdictRight ==
    verdict # "none" => (verdict = "ok" <=> PathValid(chain, url.host, now))

\* A call that returned holds neither socket nor buffer, and the caller has a
\* body only if it was told there is a page; between redirects there is none of
\* them either.
FetchLeavesNothing ==
    /\ stage \in {"idle", "name", "connect"} => ~sock /\ ~raw
    /\ body => stage = "idle" /\ outcome = "page"

\* A connection that opens was answered by whom it names, and a certificate is
\* believed exactly when the rules say so.
NamedServer == AuthenticServer /\ VerdictRight

\* A fetch ends with what it promised: a page of the server it names or an
\* error, and no socket or buffer left behind on any of its exits.
FetchRight == NamedServer /\ FetchLeavesNothing

\* Every call returns, however often it is sent on, if the server does not send
\* records that bring nothing for ever (MaxIgnored).
FetchEnds == stage # "idle" ~> stage = "idle"
=============================================================================
