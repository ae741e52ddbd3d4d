---------------------------- MODULE Certificates ----------------------------
(***************************************************************************)
(* What a certificate chain is accepted for: kernel/certverify.c over the  *)
(* fields kernel/x509.c takes out of each certificate.  A certificate is a *)
(* record                                                                  *)
(*   [parses, subject, issuer, key, signedBy, notBefore, notAfter, ca,     *)
(*    pathLen, usage, eku, names, cn];                                     *)
(* parses is what x509_parse returns, FALSE also for an unknown critical   *)
(* extension; usage and eku are absent ("none"), "good" (keyCertSign,      *)
(* serverAuth) or "other"; pathLen is empty or holds the constraint, as the *)
(* signed number its four bytes make; a name is the sequence of its labels. *)
(***************************************************************************)
EXTENDS Integers, Sequences

CONSTANTS
    CertRoots,      \* the embedded root store: a set of certificates
    Labels,         \* what a name is made of
    MaxChain        \* MAX_CHAIN

\* What x509_parse fills in.
IsCertificate(c) ==
    /\ c.parses \in BOOLEAN /\ c.ca \in BOOLEAN
    /\ c.notBefore \in Nat /\ c.notAfter \in Nat /\ c.pathLen \in SUBSET Int
    /\ c.usage \in {"none", "good", "other"} /\ c.eku \in {"none", "good", "other"}
    /\ c.names \in SUBSET Seq(Labels) /\ c.cn \in Seq(Labels)

ASSUME CertAssumption == /\ MaxChain \in Nat \ {0}
                         /\ \A r \in CertRoots : IsCertificate(r)

\* A wildcard stands for exactly one label, the leftmost.
DnsMatch(pattern, host) ==
    IF Len(pattern) > 1 /\ pattern[1] = "*"
    THEN Len(host) > 1 /\ Tail(host) = Tail(pattern)
    ELSE pattern = host

\* The common name counts only where the subject has no alternative names.
HostnameOk(leaf, host) ==
    IF leaf.names # {}
    THEN \E n \in leaf.names : DnsMatch(n, host)
    ELSE leaf.cn # <<>> /\ DnsMatch(leaf.cn, host)

\* Times are positive; 0 is a clock that does not know or a date left out.
NotYet(c, now)  == now # 0 /\ c.notBefore # 0 /\ now < c.notBefore
Expired(c, now) == now # 0 /\ c.notAfter # 0 /\ now > c.notAfter

VerifySig(child, issuer) == child.signedBy = issuer.key

\* Mutant of CanSign: any certificate may issue others.
CanSignAnyone(issuer) == TRUE
CanSign(issuer) == issuer.ca /\ issuer.usage # "other" /\ issuer.eku # "other"

VerifyByRoot(child, now) ==
    \E r \in CertRoots :
      /\ r.parses /\ r.ca
      /\ ~NotYet(r, now) /\ ~Expired(r, now)
      /\ child.issuer = r.subject /\ VerifySig(child, r)

\* Below an issuer of certificate i + 1 (the leaf is the first) there are i - 1
\* further authorities.
PathTooLong(issuer, i) == \E limit \in issuer.pathLen : i - 1 > limit

\* What the walk finds at certificate i: an end, or an issuer to go "up" to.
Found(chain, i, now) ==
    IF VerifyByRoot(chain[i], now) THEN "ok"
    ELSE IF i = Len(chain) THEN "untrusted"
    ELSE LET issuer == chain[i + 1]
         IN  IF chain[i].issuer # issuer.subject THEN "chain"
             ELSE IF ~CanSign(issuer) THEN "notca"
             ELSE IF PathTooLong(issuer, i) THEN "pathlen"
             ELSE IF ~VerifySig(chain[i], issuer) THEN "badsig"
             ELSE "up"

\* Where a loop from the leaf upwards stops.
First(stops) == CHOOSE i \in stops : \A j \in stops : i <= j

\* The walk from the leaf upwards.
Walk(chain, now) ==
    LET ends == {i \in 1 .. Len(chain) : Found(chain, i, now) # "up"}
    IN  Found(chain, First(ends), now)

\* The certificates that are not valid now.
Untimely(chain, now) ==
    {i \in 1 .. Len(chain) : NotYet(chain[i], now) \/ Expired(chain[i], now)}

\* verify_impl.
Verify(chain, host, now) ==
    LET untimely == Untimely(chain, now) IN
    IF Len(chain) = 0 THEN "parse"
    ELSE IF Len(chain) > MaxChain THEN "toomany"
    ELSE IF \E i \in 1 .. Len(chain) : ~chain[i].parses THEN "parse"
    ELSE IF chain[1].eku = "other" THEN "purpose"
    ELSE IF host # <<>> /\ ~HostnameOk(chain[1], host) THEN "hostname"
    ELSE IF untimely # {}
    THEN IF NotYet(chain[First(untimely)], now) THEN "notyet" ELSE "expired"
    ELSE Walk(chain, now)

-----------------------------------------------------------------------------
(* The meaning, stated apart from the walk: the first n certificates are a *)
(* path from the host's certificate to one a root of the store has signed. *)

Current(c, now) == now = 0 \/ /\ c.notBefore = 0 \/ c.notBefore <= now
                              /\ c.notAfter = 0 \/ now <= c.notAfter

Covers(name, host) ==
    \/ name = host
    \/ /\ Len(name) = Len(host) /\ Len(name) >= 2 /\ name[1] = "*"
       /\ \A i \in 2 .. Len(name) : name[i] = host[i]

Authority(c, below) ==
    /\ c.ca /\ c.usage \in {"none", "good"} /\ c.eku \in {"none", "good"}
    /\ \A limit \in c.pathLen : below <= limit

PathValid(chain, host, now) ==
    /\ Len(chain) \in 1 .. MaxChain
    /\ \A i \in 1 .. Len(chain) : chain[i].parses /\ Current(chain[i], now)
    /\ chain[1].eku \in {"none", "good"}
    /\ \E name \in IF chain[1].names = {} THEN {chain[1].cn} ELSE chain[1].names :
         name # <<>> /\ Covers(name, host)
    /\ \E n \in 1 .. Len(chain) :
         /\ \E r \in CertRoots : /\ r.parses /\ r.ca /\ Current(r, now)
                                 /\ r.subject = chain[n].issuer
                                 /\ r.key = chain[n].signedBy
         /\ \A i \in 2 .. n : /\ chain[i].subject = chain[i - 1].issuer
                              /\ chain[i].key = chain[i - 1].signedBy
                              /\ Authority(chain[i], i - 2)
=============================================================================
