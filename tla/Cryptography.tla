---------------------------- MODULE Cryptography ----------------------------
(***************************************************************************)
(* The arithmetic and the algorithms under TLS: curves and RSA (p256.c,    *)
(* p384.c, rsa.c), then hashing and sealing, then key exchange and AES     *)
(* (crypto.c).                                                             *)
(***************************************************************************)
EXTENDS Integers, Sequences, SequencesExt, Bitwise

(***************************************************************************)
(* Numbers in limbs, and the keys made of them: kernel/p256.c and          *)
(* kernel/p384.c, the same program over two sets of parameters, and        *)
(* kernel/rsa.c.  A number is the sequence of its limbs, the lowest first; *)
(* a modulus carries what Montgomery's multiplication needs of it; field   *)
(* elements in a point are multiplied by R = 2^(bits of the limbs).        *)
(***************************************************************************)
CONSTANTS
    LimbBits,           \* bits in a limb
    EcCurves,           \* the curves: [p, b, n, gx, gy, len]
    Scalars, Digests,   \* inputs: private keys and nonces, hashes
    RsaKeys,            \* [n, e, bits, d, len]: an odd modulus, the exponents, e also as bits
    MinPad,             \* the shortest run of 0xFF
    DigestInfo          \* the prefix of a hash, one limb

W == 2 ^ LimbBits
ASSUME CurvesAssumption == LimbBits \in Nat \ {0} /\ \A k \in RsaKeys : k.n % 2 = 1

VARIABLES
    deal,               \* what is done: the curve, the owner's key, the peer's key or signature
    answer              \* what came of it
curveVars == <<deal, answer>>

-----------------------------------------------------------------------------
(* Limbs *)

Limbs(x, len) == [i \in 1 .. len |-> (x \div (W ^ (i - 1))) % W]
Value(a) == LET v[i \in 0 .. Len(a)] == IF i = 0 THEN 0 ELSE (v[i - 1] * W) + a[Len(a) + 1 - i]
            IN  v[Len(a)]
BitAt(a, i) == (a[(i \div LimbBits) + 1] \div (2 ^ (i % LimbBits))) % 2

\* t + x * y, x of t's length, y a limb.
MulAdd(t, x, y) ==
    LET upto[j \in 0 .. Len(t)] ==
          IF j = 0 THEN [limbs |-> <<>>, carry |-> 0]
          ELSE LET low == upto[j - 1]
                   sum == (x[j] * y) + t[j] + low.carry
               IN  [limbs |-> Append(low.limbs, sum % W), carry |-> sum \div W]
    IN  upto[Len(t)]
Added(a, b) == MulAdd(a, b, 1)
Subtracted(a, b) ==
    LET upto[j \in 0 .. Len(a)] ==
          IF j = 0 THEN [limbs |-> <<>>, borrow |-> 0]
          ELSE LET low == upto[j - 1]
                   diff == a[j] - b[j] - low.borrow
               IN  [limbs |-> Append(low.limbs, diff % W), borrow |-> IF diff < 0 THEN 1 ELSE 0]
    IN  upto[Len(a)]
Less(a, b) == Subtracted(a, b).borrow = 1
Zero(len) == Limbs(0, len)

\* A modulus: n0 is -1 / its lowest limb, r2 is R^2.
Modulus(x, len) ==
    [v  |-> Limbs(x, len),
     n0 |-> CHOOSE k \in 0 .. W - 1 : ((x % W) * k) % W = W - 1,
     r2 |-> Limbs((((W ^ len) % x) * ((W ^ len) % x)) % x, len)]

\* Mutant of Reduced: the carry out of the highest limb is lost.
ReducedShort(top, t, m) == LET u == Subtracted(t, m.v) IN IF u.borrow = 0 THEN u.limbs ELSE t
\* A sum below twice the modulus, top being what is above its limbs.
Reduced(top, t, m) == LET u == Subtracted(t, m.v) IN IF top # 0 \/ u.borrow = 0 THEN u.limbs ELSE t

FeAdd(a, b, m) == LET s == Added(a, b) IN Reduced(s.carry, s.limbs, m)
FeSub(a, b, m) == LET s == Subtracted(a, b) IN IF s.borrow = 1 THEN Added(s.limbs, m.v).limbs ELSE s.limbs
\* One limb of b: the lowest limb of the sum is made 0 and shifted out.
ShiftedOut(r, top) == LET low == (top % W) + r.carry IN Tail(r.limbs) \o <<low % W, (top \div W) + (low \div W)>>
ZeroedLimb(s, above, m) == ShiftedOut(MulAdd(s.limbs, m.v, (s.limbs[1] * m.n0) % W), above + s.carry)
MontRow(t, a, bi, m) == ZeroedLimb(MulAdd(SubSeq(t, 1, Len(a)), a, bi), t[Len(a) + 1], m)
\* a b / R
BelowModulus(t, m) == Reduced(Last(t), Front(t), m)
MontMul(a, b, m) ==
    LET rows[i \in 0 .. Len(a)] == IF i = 0 THEN Zero(Len(a) + 1) ELSE MontRow(rows[i - 1], a, b[i], m)
    IN  BelowModulus(rows[Len(a)], m)
ToMont(a, m) == MontMul(a, m.r2, m)
FromMont(a, m) == MontMul(a, Limbs(1, Len(a)), m)
MontOne(m) == ToMont(Limbs(1, Len(m.v)), m)
Sqr(a, m) == MontMul(a, a, m)

\* Square and multiply, the highest bit first.
MontPow(a, bits, m) ==
    LET up[i \in 0 .. Len(bits)] ==
          IF i = 0 THEN MontOne(m)
          ELSE LET s == Sqr(up[i - 1], m) IN IF bits[i] = 1 THEN MontMul(s, a, m) ELSE s
    IN  up[Len(bits)]
\* The bits of the modulus less two: only its lowest limb changes.
FermatBits(m) ==
    LET e == [m.v EXCEPT ![1] = (@ - 2) % W]
        n == Len(e) * LimbBits
    IN  [i \in 1 .. n |-> BitAt(e, n - i)]
MontInv(a, m) == MontPow(a, FermatBits(m), m)

-----------------------------------------------------------------------------
(* Points (x / z^2, y / z^3); z = 0 is the point at infinity *)

\* A field: its modulus, and what is done with its elements.
Field(m) ==
    [v |-> m.v, n0 |-> m.n0, r2 |-> m.r2, mul |-> [a, b \in Seq(Int) |-> MontMul(a, b, m)],
     add |-> [a, b \in Seq(Int) |-> FeAdd(a, b, m)], sub |-> [a, b \in Seq(Int) |-> FeSub(a, b, m)]]
Curve(c) == [p |-> Field(Modulus(c.p, c.len)), n |-> Modulus(c.n, c.len), b |-> Limbs(c.b, c.len), len |-> c.len,
             g |-> [x |-> Limbs(c.gx, c.len), y |-> Limbs(c.gy, c.len)]]
Infinite(q) == q.z = Zero(Len(q.z))
ToJac(q, E) == [x |-> ToMont(q.x, E.p), y |-> ToMont(q.y, E.p), z |-> MontOne(E.p)]

JacDbl(q, E) ==
    LET Mul(a, b) == E.p.mul[a, b]
        Square(a) == E.p.mul[a, a]
        Add(a, b) == E.p.add[a, b]
        Sub(a, b) == E.p.sub[a, b]
        Twice(a) == E.p.add[a, a]
        delta == Square(q.z)
        gamma == Square(q.y)
        beta == Mul(q.x, gamma)
        t == Mul(Sub(q.x, delta), Add(q.x, delta))
        alpha == Add(Twice(t), t)
        beta4 == Twice(Twice(beta))
        x3 == Sub(Square(alpha), Twice(beta4))
        z3 == Sub(Sub(Square(Add(q.y, q.z)), gamma), delta)
        y3 == Sub(Mul(alpha, Sub(beta4, x3)), Twice(Twice(Twice(Square(gamma)))))
    IN  IF Infinite(q) THEN q ELSE [x |-> x3, y |-> y3, z |-> z3]

JacAdd(o, q, E) ==
    LET Mul(a, b) == E.p.mul[a, b]
        Square(a) == E.p.mul[a, a]
        Sub(a, b) == E.p.sub[a, b]
        Twice(a) == E.p.add[a, a]
        oz2 == Square(o.z)
        qz2 == Square(q.z)
        u1 == Mul(o.x, qz2)
        s1 == Mul(Mul(o.y, q.z), qz2)
        h == Sub(Mul(q.x, oz2), u1)
        s == Sub(Mul(Mul(q.y, o.z), oz2), s1)
        i == Square(Twice(h))
        j == Mul(h, i)
        r == Twice(s)
        v == Mul(u1, i)
        x3 == Sub(Sub(Square(r), j), Twice(v))
        y3 == Sub(Mul(r, Sub(v, x3)), Twice(Mul(s1, j)))
        z3 == Mul(Sub(Sub(Square(E.p.add[o.z, q.z]), oz2), qz2), h)
    IN  CASE Infinite(o) -> q
          [] ~Infinite(o) /\ Infinite(q) -> o
          [] ~Infinite(o) /\ ~Infinite(q) /\ h = Zero(E.len) ->
               IF s = Zero(E.len) THEN JacDbl(o, E) ELSE [o EXCEPT !.z = Zero(E.len)]
          [] OTHER -> [x |-> x3, y |-> y3, z |-> z3]

\* Double and add: the sum is made for every bit and kept for the ones.
ScalarMult(k, q, E) ==
    LET n == E.len * LimbBits
        up[i \in 0 .. n] ==
          IF i = 0 THEN [x |-> Zero(E.len), y |-> Zero(E.len), z |-> Zero(E.len)]
          ELSE LET d == JacDbl(up[i - 1], E) IN IF BitAt(k, n - i) = 1 THEN JacAdd(d, q, E) ELSE d
    IN  up[n]
AffineX(q, E) == FromMont(MontMul(q.x, Sqr(MontInv(q.z, E.p), E.p), E.p), E.p)
AffineY(q, E) ==
    LET zi == MontInv(q.z, E.p)
    IN  FromMont(MontMul(q.y, MontMul(Sqr(zi, E.p), zi, E.p), E.p), E.p)

\* y^2 = x^3 - 3x + b
OnCurve(q, E) ==
    LET x == ToMont(q.x, E.p)
        y == ToMont(q.y, E.p)
        x3 == MontMul(Sqr(x, E.p), x, E.p)
        threeX == FeAdd(FeAdd(x, x, E.p), x, E.p)
    IN  Sqr(y, E.p) = FeAdd(FeSub(x3, threeX, E.p), ToMont(E.b, E.p), E.p)
InField(q, E) == Less(q.x, E.p.v) /\ Less(q.y, E.p.v)

-----------------------------------------------------------------------------
(* What the rest of the system calls *)

\* p256_scalarmult_base
Affine(q, E) == [x |-> AffineX(q, E), y |-> AffineY(q, E)]
ScalarMultBase(k, E) == Affine(ScalarMult(k, ToJac(E.g, E), E), E)

NoKey == "bad point"
SharedX(q, E) == IF Infinite(q) THEN NoKey ELSE AffineX(q, E)
\* p256_ecdh: the x of the peer's point times the scalar.
Ecdh(k, peer, E) ==
    IF ~InField(peer, E) \/ (Value(peer.x) = 0 /\ Value(peer.y) = 0) \/ ~OnCurve(peer, E) THEN NoKey
    ELSE SharedX(ScalarMult(k, ToJac(peer, E), E), E)

\* Mutant of ModN: x stays as it is.
ModNNot(a, E) == a
\* One subtraction: what is below 2 n.
ModN(a, E) == IF Less(a, E.n.v) THEN a ELSE Subtracted(a, E.n.v).limbs
\* Mutant of EcdsaSum: the two multipliers change places.
EcdsaSumSwapped(hash, r, s, pub, E) ==
    LET w == FromMont(MontInv(ToMont(s, E.n), E.n), E.n)
        u1 == MontMul(ToMont(hash, E.n), w, E.n)
        u2 == MontMul(ToMont(r, E.n), w, E.n)
    IN  JacAdd(ScalarMult(u2, ToJac(E.g, E), E), ScalarMult(u1, ToJac(pub, E), E), E)
\* u1 G + u2 Q, u1 = hash / s, u2 = r / s
EcdsaSum(hash, r, s, pub, E) ==
    LET w == FromMont(MontInv(ToMont(s, E.n), E.n), E.n)
        u1 == MontMul(ToMont(hash, E.n), w, E.n)
        u2 == MontMul(ToMont(r, E.n), w, E.n)
    IN  JacAdd(ScalarMult(u1, ToJac(E.g, E), E), ScalarMult(u2, ToJac(pub, E), E), E)
Matches(sum, r, E) == ~Infinite(sum) /\ ModN(AffineX(sum, E), E) = r
\* p256_ecdsa_verify, p384_ecdsa_verify
EcdsaVerify(hash, r, s, pub, E) ==
    /\ Value(r) # 0 /\ Value(s) # 0 /\ Less(r, E.n.v) /\ Less(s, E.n.v)
    /\ InField(pub, E) /\ OnCurve(pub, E)
    /\ Matches(EcdsaSum(ModN(hash, E), r, s, pub, E), r, E)

\* Mutant of Doubled: the carry out of the highest limb is lost.
DoubledShort(a, m) == LET t == Added(a, a) IN IF Less(t.limbs, m.v) THEN t.limbs ELSE Subtracted(t.limbs, m.v).limbs
Doubled(a, m) == LET t == Added(a, a) IN Reduced(t.carry, t.limbs, m)
\* rsa.c: by doublings, as many as the limbs have bits, to a R.
BnToMont(a, m) ==
    LET up[i \in 0 .. Len(a) * LimbBits] ==
          IF i = 0 THEN a ELSE Doubled(up[i - 1], m)
    IN  up[Len(a) * LimbBits]
\* Newton: every step doubles the bits that are right.
ModInvWord(a, bits, steps) ==
    LET x[i \in 0 .. steps] == IF i = 0 THEN 1 ELSE LET y == x[i - 1] IN (y * ((2 - (a * y)) % (2 ^ bits))) % (2 ^ bits)
    IN  x[steps]
BnModexp(base, bits, m) ==
    LET b == BnToMont(base, m)
        up[i \in 0 .. Len(bits)] ==
          IF i = 0 THEN BnToMont(Limbs(1, Len(base)), m)
          ELSE LET s == Sqr(up[i - 1], m) IN IF bits[i] = 1 THEN MontMul(s, b, m) ELSE s
    IN  FromMont(up[Len(bits)], m)
\* The lowest limb first: 00 01 FF .. FF 00, the prefix and the hash.
Em(hash, len) == <<hash, DigestInfo, 0>> \o [i \in 1 .. len - 5 |-> W - 1] \o <<1, 0>>
\* Mutant of Padded: the hash alone is compared.
PaddedLoose(m, hash) == m[1] = hash
Padded(m, hash) == m = Em(hash, Len(m))
\* rsa_pkcs1_sha256_verify
RsaVerify(key, sig, hash) ==
    LET m == Modulus(key.n, key.len)
    IN  /\ Len(sig) = key.len /\ key.len - 5 >= MinPad
        /\ Less(sig, m.v) /\ Padded(BnModexp(sig, key.bits, m), hash)

-----------------------------------------------------------------------------
(* The same in plain arithmetic *)

PlainPow(a, e, m) ==
    LET up[i \in 0 .. e] ==
          IF i = 0 THEN 1
          ELSE LET h == up[i \div 2] IN (((h * h) % m) * (IF i % 2 = 1 THEN a ELSE 1)) % m
    IN  up[e]
InvMod(a, m) == CHOOSE i \in 0 .. m - 1 : (i * a) % m = 1
Nowhere == <<>>
PlainAdd(o, q, c) ==
    LET slope == (IF o = q THEN (3 * ((o[1] * o[1]) - 1)) * InvMod((2 * o[2]) % c.p, c.p)
                  ELSE (q[2] - o[2]) * InvMod((q[1] - o[1]) % c.p, c.p)) % c.p
        x == ((slope * slope) - o[1] - q[1]) % c.p
    IN  CASE o = Nowhere -> q
          [] q = Nowhere /\ o # Nowhere -> o
          [] o # Nowhere /\ q # Nowhere /\ o[1] = q[1] /\ (o[2] + q[2]) % c.p = 0 -> Nowhere
          [] OTHER -> <<x, ((slope * (o[1] - x)) - o[2]) % c.p>>
PlainMul(k, o, c) ==
    LET up[i \in 0 .. k] ==
          IF i = 0 THEN Nowhere
          ELSE LET h == up[i \div 2]
                   d == PlainAdd(h, h, c)
               IN  IF i % 2 = 1 THEN PlainAdd(d, o, c) ELSE d
    IN  up[k]
Base(c) == <<c.gx, c.gy>>
Point(q) == <<Value(q.x), Value(q.y)>>
\* A signature of h with the key d and the nonce k.
Signed(h, d, k, c) ==
    LET r == PlainMul(k % c.n, Base(c), c)[1] % c.n
    IN  [r |-> r, s |-> (((h + (r * d)) % c.n) * InvMod(k % c.n, c.n)) % c.n]
\* k is the nonce that (r, s) tells: k s = h + r d.
PlainVerify(h, r, s, d, c) ==
    /\ r \in 1 .. c.n - 1 /\ s \in 1 .. c.n - 1
    /\ LET k == (((h + (r * d)) % c.n) * InvMod(s, c.n)) % c.n
       IN  k # 0 /\ PlainMul(k, Base(c), c)[1] % c.n = r

-----------------------------------------------------------------------------
(* Two who agree on a key; one who signs and one who verifies, some of the *)
(* signatures spoilt on the way                                            *)

None == "none"
CurvesInit ==
    /\ answer = None
    /\ \/ \E c \in EcCurves, d \in Scalars : d % c.n # 0 /\ deal = [what |-> "key", c |-> c, d |-> d]
       \/ \E key \in RsaKeys, h \in 0 .. W - 1 : deal = [what |-> "rsa", key |-> key, h |-> h]

MakeKey ==
    /\ deal.what = "key" /\ LET E == Curve(deal.c) IN answer' = ScalarMultBase(Limbs(deal.d, E.len), E)
    /\ deal' = [deal EXCEPT !.what = "made"]
Agree(k) ==
    LET E == Curve(deal.c)
    IN  /\ deal.what = "made" /\ answer' = Ecdh(Limbs(k, E.len), answer, E)
        /\ deal' = [what |-> "agreed", c |-> deal.c, d |-> deal.d, k |-> k]
\* A peer that sends what is no point of the curve.
Refuse(k, q) ==
    LET E == Curve(deal.c)
    IN  /\ deal.what = "made" /\ answer' = Ecdh(Limbs(k, E.len), q, E)
        /\ deal' = [what |-> "odd", c |-> deal.c, q |-> q]
Verify(h, sig) ==
    LET E == Curve(deal.c)
    IN  /\ deal.what = "made"
        /\ answer' = EcdsaVerify(Limbs(h, E.len), Limbs(sig.r, E.len), Limbs(sig.s, E.len), answer, E)
        /\ deal' = [what |-> "verified", c |-> deal.c, d |-> deal.d, h |-> h, sig |-> sig]
CheckRsa(sig, h) ==
    /\ deal.what = "rsa" /\ answer' = RsaVerify(deal.key, Limbs(sig, deal.key.len), h)
    /\ deal' = [what |-> "checked", key |-> deal.key, h |-> h, sig |-> sig]

\* As signed, and spoilt; a half fits into its limbs.
Spoilt(sig, c) ==
    {t \in {sig, [sig EXCEPT !.s = (c.n - @) % c.n], [sig EXCEPT !.r = 0], [sig EXCEPT !.s = c.n],
            [sig EXCEPT !.r = @ + c.n], [sig EXCEPT !.r = (@ % (c.n - 1)) + 1], [sig EXCEPT !.s = (@ % (c.n - 1)) + 1]} :
         t.r < W ^ c.len}
CurvesNext ==
    \/ MakeKey
    \/ \E k \in Scalars : Agree(k)
    \/ deal.what = "made" /\ \E k \in {1, 2}, x \in {0, 1, deal.c.p, deal.c.p - 1}, y \in {0, 1, deal.c.p} :
            Refuse(k, [x |-> Limbs(x, deal.c.len), y |-> Limbs(y, deal.c.len)])
    \/ deal.what = "made" /\ \E h, hs \in Digests, k \in Scalars :
            k % deal.c.n # 0 /\ \E sig \in Spoilt(Signed(hs, deal.d, k, deal.c), deal.c) : Verify(h, sig)
    \/ deal.what = "rsa" /\ \E e \in {0, 1} :
            CheckRsa((PlainPow(Value(Em(deal.h, deal.key.len)), deal.key.d, deal.key.n) + e) % deal.key.n, deal.h)
CurvesSpec == CurvesInit /\ [][CurvesNext]_curveVars

-----------------------------------------------------------------------------
(* Properties *)

\* Limb arithmetic is arithmetic modulo m, for all elements of the smallest fields and for
\* RSA's moduli; both ways to multiply by R agree, and the inverse is one.
ArithmeticTrue ==
    /\ \A c \in EcCurves : \A x \in {c.p, c.n} : x < W * W =>
         LET m == Modulus(x, c.len)
             R == W ^ c.len
         IN  \A a, b \in 0 .. x - 1 :
               LET la == Limbs(a, c.len)
                   lb == Limbs(b, c.len)
               IN  /\ Value(FeAdd(la, lb, m)) = (a + b) % x /\ Value(FeSub(la, lb, m)) = (a - b) % x
                   /\ LET r == Value(MontMul(la, lb, m)) IN r < x /\ (r * R) % x = (a * b) % x
                   /\ b = 1 => BnToMont(la, m) = ToMont(la, m)
                   /\ b = 1 /\ a # 0 => (Value(MontInv(la, m)) * a) % x = (R * R) % x
    /\ \A key \in RsaKeys :
         LET m == Modulus(key.n, key.len)
         IN  \A a \in {0, 1, 2, key.n - 1, key.n \div 2} :
               Value(BnModexp(Limbs(a, key.len), key.bits, m)) = PlainPow(a, key.e, key.n)
\* As many Newton steps as the bits have binary digits are enough, and needed (32 bits: 5).
NewtonTrue ==
    \A steps \in 1 .. 3 :
      LET right(bits) == \A a \in {x \in 1 .. (2 ^ bits) - 1 : x % 2 = 1} : (a * ModInvWord(a, bits, steps)) % (2 ^ bits) = 1
      IN  right(2 ^ steps)
\* A public key is the private one's multiple of G; both ends come to the same shared key;
\* no key comes of what is not on the curve.
KeysTrue ==
    /\ deal.what = "made" => Point(answer) = PlainMul(deal.d % deal.c.n, Base(deal.c), deal.c)
    /\ deal.what = "agreed" =>
         LET q == PlainMul((deal.d * deal.k) % deal.c.n, Base(deal.c), deal.c)
         IN  answer = IF q = Nowhere THEN NoKey ELSE Limbs(q[1], deal.c.len)
    /\ deal.what = "odd" =>
         LET x == Value(deal.q.x)
             y == Value(deal.q.y)
         IN  (answer = NoKey) = ~(x < deal.c.p /\ y < deal.c.p /\ (y * y) % deal.c.p = ((((x * x) - 3) * x) + deal.c.b) % deal.c.p)
\* A signature is accepted if and only if it is one of that hash by that key.
SignaturesTrue ==
    /\ deal.what = "verified" => answer = PlainVerify(deal.h % deal.c.n, deal.sig.r, deal.sig.s, deal.d % deal.c.n, deal.c)
    /\ deal.what = "checked" => answer = (PlainPow(deal.sig, deal.key.e, deal.key.n) = Value(Em(deal.h, deal.key.len)))
CurvesRight == (deal.what = "rsa" => ArithmeticTrue /\ NewtonTrue) /\ KeysTrue /\ SignaturesTrue

-----------------------------------------------------------------------------
(***************************************************************************)
(* What kernel/crypto.c makes of its primitives: hashes of texts that come *)
(* in pieces, keyed hashes, TLS's stream of key material, and encryption   *)
(* with a tag.  The compression function is free (a hash is the sequence   *)
(* of the blocks it took), the cipher a parameter, and a byte of the       *)
(* encrypted texts is one bit.                                             *)
(***************************************************************************)
CONSTANTS
    BLOCK, LENGTH,      \* a block of SHA-256 and the length at its end: 64 and 8 bytes
    BLOCK384, LENGTH384,\* of SHA-384: 128 and 16
    DIGEST,             \* bytes of a hash: 32
    SEED_MAX,           \* sizeof fseed: 256
    Bytes, MaxText,     \* what texts consist of, and their longest
    Secrets, Seeds,     \* keys; what the key material is made from
    IV, CTR,            \* bytes of a nonce and of the counter behind it: 12 and 4
    Tail128,            \* the field's polynomial but for its highest term, x^0 first
    Cipher(_, _),       \* a block under a key
    CipherKeys, Plains, Aads    \* keys, texts to encrypt and texts only to protect

ASSUME DigestAssumption == LENGTH < BLOCK /\ LENGTH384 < BLOCK384 /\ DIGEST <= BLOCK

VARIABLES
    matter,             \* which of the four is looked at
    ctx,                \* sha256_ctx: h as the blocks so far, buf, bitlen
    message,            \* history: everything given to it
    asked, out          \* the call made, and what it returned
digestVars == <<matter, ctx, message, asked, out>>

-----------------------------------------------------------------------------
(* Hashes *)

Byte(b) == <<"byte", b>>
Zeros(n) == [i \in 1 .. n |-> Byte(0)]
\* A number in n bytes, here one number behind zeros.
Length(n, len) == Zeros(n - 1) \o <<<<"bits", 8 * len>>>>
HashBytes(blocks) == [i \in 1 .. DIGEST |-> <<"hash", blocks, i>>]

Ctx0 == [h |-> <<>>, buf |-> <<>>, len |-> 0]
\* sha256_update, one byte: a full block is taken at once.
Absorb(c, byte) ==
    LET b == Append(c.buf, byte)
    IN  IF Len(b) = BLOCK THEN [c EXCEPT !.h = Append(@, b), !.buf = <<>>] ELSE [c EXCEPT !.buf = b]
Update(c, data) == [FoldLeft(Absorb, c, data) EXCEPT !.len = c.len + Len(data)]
\* Mutant of Final: the length with the padding in it.
FinalLate(c) ==
    LET marked == Update(c, <<Byte(128)>>)
        full == Update(marked, Zeros((BLOCK - LENGTH - Len(marked.buf)) % BLOCK))
    IN  HashBytes(Append(full.h, full.buf \o Length(LENGTH, full.len)))
\* sha256_final: the mark, zeros until the length just fits, the length as it was.
Final(c) ==
    LET marked == Update(c, <<Byte(128)>>)
        room == (BLOCK - LENGTH - Len(marked.buf)) % BLOCK
        full == Update(marked, Zeros(room))
    IN  HashBytes(Append(full.h, full.buf \o Length(LENGTH, c.len)))
Sha256(data) == Final(Update(Ctx0, data))

\* Mutant of Rest384: the length is put in whether or not the mark has left it room.
Rest384Tight(rest, len) ==
    <<rest \o <<Byte(128)>> \o Zeros(BLOCK384 - LENGTH384 - 1 - Len(rest)) \o Length(LENGTH384, len)>>
\* sha384: the last one or two blocks.
Rest384(rest, len) ==
    IF Len(rest) + 1 > BLOCK384 - LENGTH384
    THEN <<rest \o <<Byte(128)>> \o Zeros(BLOCK384 - 1 - Len(rest)), Zeros(BLOCK384 - LENGTH384) \o Length(LENGTH384, len)>>
    ELSE <<rest \o <<Byte(128)>> \o Zeros(BLOCK384 - LENGTH384 - 1 - Len(rest)) \o Length(LENGTH384, len)>>
Sha384(data) ==
    LET whole == Len(data) \div BLOCK384
    IN  HashBytes([i \in 1 .. whole |-> SubSeq(data, ((i - 1) * BLOCK384) + 1, i * BLOCK384)]
                  \o Rest384(SubSeq(data, (whole * BLOCK384) + 1, Len(data)), Len(data)))

\* The key's bytes with 0x36 or 0x5c.
Masked(key, mask) == [i \in 1 .. BLOCK |-> <<mask, IF i <= Len(key) THEN key[i] ELSE Byte(0)>>]
Hmac(secret, msg) ==
    LET key == IF Len(secret) > BLOCK THEN Sha256(secret) ELSE secret
        inner == Final(Update(Update(Ctx0, Masked(key, "inner")), msg))
    IN  Final(Update(Update(Ctx0, Masked(key, "outer")), inner))

\* Mutant of PrfBlocks: the chain goes on before its first link was used.
PrfBlocksNext(secret, seed, n) ==
    LET a[i \in 0 .. n] == IF i = 0 THEN Hmac(secret, seed) ELSE Hmac(secret, a[i - 1])
    IN  FlattenSeq([i \in 1 .. n |-> Hmac(secret, a[i] \o seed)])
\* tls12_prf's loop: A(1) first, each link used with the seed and then replaced.
PrfBlocks(secret, seed, n) ==
    LET a[i \in 1 .. n + 1] == IF i = 1 THEN Hmac(secret, seed) ELSE Hmac(secret, a[i - 1])
    IN  FlattenSeq([i \in 1 .. n |-> Hmac(secret, a[i] \o seed)])
\* As many bytes as are asked for; nothing when the seed has no room.
Prf(secret, label, seed, outlen) ==
    IF Len(label) + Len(seed) > SEED_MAX THEN <<>>
    ELSE SubSeq(PrfBlocks(secret, label \o seed, (outlen + DIGEST - 1) \div DIGEST), 1, outlen)

-----------------------------------------------------------------------------
(* Encryption with a tag; a block is IV + CTR bits, bit 1 of x^0 *)

WIDE == IV + CTR
ZeroBlock == [i \in 1 .. WIDE |-> 0]
XorBits(a, b) == [i \in 1 .. Len(a) |-> (a[i] + b[i]) % 2]
ShiftUp(v) == IF v[WIDE] = 1 THEN XorBits(<<0>> \o SubSeq(v, 1, WIDE - 1), Tail128) ELSE <<0>> \o SubSeq(v, 1, WIDE - 1)
\* ghash_mul: H shifted along and added for every bit of Y.
GhashMul(Y, H) ==
    LET step[i \in 0 .. WIDE] ==
          IF i = 0 THEN [z |-> ZeroBlock, v |-> H]
          ELSE LET s == step[i - 1]
               IN  [z |-> IF Y[i] = 1 THEN XorBits(s.z, s.v) ELSE s.z, v |-> ShiftUp(s.v)]
    IN  step[WIDE].z
\* The text in blocks, the last filled with zeros.
InBlocks(t) ==
    [i \in 1 .. (Len(t) + WIDE - 1) \div WIDE |-> [j \in 1 .. WIDE |->
        LET k == ((i - 1) * WIDE) + j IN IF k <= Len(t) THEN t[k] ELSE 0]]
GhashBlocks(Y, H, t) == FoldLeft(LAMBDA y, b : GhashMul(XorBits(y, b), H), Y, InBlocks(t))

Bits(n, x) == [i \in 1 .. n |-> (x \div (2 ^ (n - i))) % 2]
\* Mutant of Incr: the carry stops at the last byte.
IncrLast(ctr) == [ctr EXCEPT ![WIDE] = (@ + 1) % 2]
\* gcm_incr: the counter alone, its last byte first.
Incr(ctr) ==
    LET n == FoldLeft(LAMBDA s, b : (2 * s) + b, 0, SubSeq(ctr, IV + 1, WIDE))
    IN  SubSeq(ctr, 1, IV) \o Bits(CTR, (n + 1) % (2 ^ CTR))
J0(iv) == iv \o Bits(CTR, 1)
\* The text under the key stream that starts behind J0.
Counted(key, iv, t) ==
    LET ctr[i \in 0 .. Len(t)] == IF i = 0 THEN J0(iv) ELSE Incr(ctr[i - 1])
        stream == [i \in 1 .. (Len(t) + WIDE - 1) \div WIDE |-> Cipher(key, ctr[i])]
    IN  [k \in 1 .. Len(t) |-> (t[k] + stream[((k - 1) \div WIDE) + 1][((k - 1) % WIDE) + 1]) % 2]
\* Mutant of Tag: what is protected but not encrypted is left out.
TagPlain(key, iv, aad, ct) ==
    LET H == Cipher(key, ZeroBlock)
        Y == GhashBlocks(ZeroBlock, H, ct)
        lens == Bits(IV, Len(aad) % (2 ^ IV)) \o Bits(CTR, Len(ct) % (2 ^ CTR))
    IN  XorBits(GhashMul(XorBits(Y, lens), H), Cipher(key, J0(iv)))
Tag(key, iv, aad, ct) ==
    LET H == Cipher(key, ZeroBlock)
        Y == GhashBlocks(GhashBlocks(ZeroBlock, H, aad), H, ct)
        lens == Bits(IV, Len(aad) % (2 ^ IV)) \o Bits(CTR, Len(ct) % (2 ^ CTR))
    IN  XorBits(GhashMul(XorBits(Y, lens), H), Cipher(key, J0(iv)))
GcmEncrypt(key, iv, aad, pt) == LET ct == Counted(key, iv, pt) IN [ct |-> ct, tag |-> Tag(key, iv, aad, ct)]
\* The text is written whether or not the tag is right.
GcmDecrypt(key, iv, aad, ct, tag) == [pt |-> Counted(key, iv, ct), ok |-> Tag(key, iv, aad, ct) = tag]

-----------------------------------------------------------------------------
NoCall == <<>>
DigestInit ==
    /\ matter \in {"hash", "hash384", "keyed", "sealed"} /\ ctx = Ctx0 /\ message = <<>> /\ out = NoCall
    /\ \/ matter \in {"hash", "hash384"} /\ asked = NoCall
       \/ matter = "keyed" /\ asked \in [secret : Secrets, label : Seeds, seed : Seeds, outlen : 0 .. (2 * DIGEST) + 1]
       \/ matter = "sealed" /\ asked \in [key : CipherKeys, iv : [1 .. IV -> {0, 1}], aad : Aads, pt : Plains]

Give(data) ==
    /\ matter \in {"hash", "hash384"} /\ out = NoCall /\ Len(message) + Len(data) <= MaxText
    /\ message' = message \o data
    /\ ctx' = IF matter = "hash" THEN Update(ctx, data) ELSE ctx
    /\ UNCHANGED <<asked, out>>
Finish ==
    /\ out = NoCall /\ matter \in {"hash", "hash384"}
    /\ out' = IF matter = "hash" THEN Final(ctx) ELSE Sha384(message)
    /\ UNCHANGED <<ctx, message, asked>>
Derive ==
    /\ matter = "keyed" /\ out = NoCall /\ out' = <<Prf(asked.secret, asked.label, asked.seed, asked.outlen)>>
    /\ UNCHANGED <<ctx, message, asked>>
Seal ==
    /\ matter = "sealed" /\ out = NoCall /\ out' = <<GcmEncrypt(asked.key, asked.iv, asked.aad, asked.pt)>>
    /\ UNCHANGED <<ctx, message, asked>>
\* One bit of what was sent arrives changed, or none.
Flipped(t, i) == IF i \in 1 .. Len(t) THEN [t EXCEPT ![i] = 1 - @] ELSE t
Unseal(inAad, inCt, inTag) ==
    /\ matter = "sealed" /\ Len(out) = 1
    /\ out' = Append(out, [hit |-> {inAad} \cap DOMAIN asked.aad # {} \/ {inCt} \cap DOMAIN out[1].ct # {} \/ inTag # 0,
                           got |-> GcmDecrypt(asked.key, asked.iv, Flipped(asked.aad, inAad), Flipped(out[1].ct, inCt),
                                              Flipped(out[1].tag, inTag))])
    /\ UNCHANGED <<ctx, message, asked>>

DigestNext ==
    /\ UNCHANGED matter
    /\ \/ \E data \in {<<>>} \union {<<b>> : b \in Bytes} \union {[i \in 1 .. n |-> b] : n \in {2, BLOCK - 1, BLOCK + 1}, b \in Bytes} :
              Give(data)
       \/ Finish \/ Derive \/ Seal
       \/ \E i \in 0 .. WIDE + 1 : Unseal(i, 0, 0) \/ Unseal(0, i, 0) \/ (i <= WIDE /\ Unseal(0, 0, i))
DigestSpec == DigestInit /\ [][DigestNext]_digestVars

-----------------------------------------------------------------------------
(* Properties *)

\* The standards' padding: the mark, the fewest zeros, the length; cut into blocks.
PaddedTo(m, block, length) ==
    LET zeros == CHOOSE k \in 0 .. block - 1 : (Len(m) + 1 + k + length) % block = 0
        t == m \o <<Byte(128)>> \o Zeros(zeros) \o Length(length, Len(m))
    IN  [i \in 1 .. Len(t) \div block |-> SubSeq(t, ((i - 1) * block) + 1, i * block)]
\* A hash does not depend on the pieces the text came in, and is the standard's.
HashesTrue ==
    out # NoCall => /\ matter = "hash" => out = HashBytes(PaddedTo(message, BLOCK, LENGTH))
                    /\ matter = "hash384" => out = HashBytes(PaddedTo(message, BLOCK384, LENGTH384))
\* RFC 2104 and RFC 5246, over the padding above.
PlainHash(m) == HashBytes(PaddedTo(m, BLOCK, LENGTH))
PlainHmac(k, m) ==
    LET key == IF Len(k) > BLOCK THEN PlainHash(k) ELSE k
        k0 == key \o Zeros(BLOCK - Len(key))
        under(mask, t) == PlainHash([i \in 1 .. BLOCK |-> <<mask, k0[i]>>] \o t)
    IN  under("outer", under("inner", m))
PrfTrue ==
    matter = "keyed" /\ out # NoCall =>
        LET s == asked.label \o asked.seed
            a1 == PlainHmac(asked.secret, s)
            a2 == PlainHmac(asked.secret, a1)
            a3 == PlainHmac(asked.secret, a2)
        IN  out[1] = IF Len(s) > SEED_MAX THEN <<>>
                     ELSE SubSeq(PlainHmac(asked.secret, a1 \o s) \o PlainHmac(asked.secret, a2 \o s)
                                 \o PlainHmac(asked.secret, a3 \o s), 1, asked.outlen)
\* What was sealed is read again; a change of one bit anywhere is noticed; no piece of
\* the key stream is used twice, not even for the tag.
SealsTrue ==
    matter = "sealed" /\ out # NoCall =>
        /\ Len(out) = 2 => /\ ~out[2].hit => out[2].got = [pt |-> asked.pt, ok |-> TRUE]
                           /\ out[2].hit => ~out[2].got.ok
        /\ LET s == XorBits(out[1].ct, asked.pt)
               nth(i) == SubSeq(s, ((i - 1) * WIDE) + 1, i * WIDE)
           IN  \A i \in 1 .. Len(s) \div WIDE :
                 nth(i) # Cipher(asked.key, J0(asked.iv)) /\ \A j \in 1 .. i - 1 : nth(i) # nth(j)
\* The field's multiplication is that of polynomials.
FieldTrue ==
    LET one == [ZeroBlock EXCEPT ![1] = 1]
        x == [ZeroBlock EXCEPT ![2] = 1]
        All == [1 .. WIDE -> {0, 1}]
    IN  \A a, b \in All :
          /\ GhashMul(a, b) = GhashMul(b, a) /\ GhashMul(a, one) = a
          /\ GhashMul(ShiftUp(a), b) = ShiftUp(GhashMul(a, b)) /\ GhashMul(a, x) = ShiftUp(a)
          /\ GhashMul(a, b) = ZeroBlock => a = ZeroBlock \/ b = ZeroBlock
DigestRight == HashesTrue /\ PrfTrue /\ SealsTrue /\ (matter = "sealed" => FieldTrue)

-----------------------------------------------------------------------------
(***************************************************************************)
(* The two primitives of kernel/crypto.c that are computed with numbers:   *)
(* AES-128's block cipher, and X25519, whose numbers are limbs of LIMB     *)
(* bits that may be out of range in between; 2^(all bits) is FOLD modulo   *)
(* p, and p itself 2^(all bits - 1) - FOLD / 2.                            *)
(***************************************************************************)
CONSTANTS
    LIMB, LIMBS, FOLD,  \* 16, 16, 38
    A24,                \* 121665: (A - 2) / 4 of the curve v^2 = u^3 + A u^2 + u
    BaseU,              \* 9, the base point
    MaskLow,            \* 8: a clamped scalar is a multiple
    Privates            \* the private keys

ASSUME CiphersAssumption == FOLD % 2 = 0 /\ LIMB > 1 /\ LIMBS > 1

VARIABLES
    exchange,           \* the two private keys, the two public ones, the two shared ones
    ladder              \* the scalar multiplication under way: rungs and rounds of the inverse left, x, the two points
cipherVars == <<exchange, ladder>>

-----------------------------------------------------------------------------
(* AES-128: a block is sixteen bytes, column by column *)

SBOX ==
    <<99, 124, 119, 123, 242, 107, 111, 197, 48, 1, 103, 43, 254, 215, 171, 118, 202, 130, 201, 125, 250, 89, 71,
      240, 173, 212, 162, 175, 156, 164, 114, 192, 183, 253, 147, 38, 54, 63, 247, 204, 52, 165, 229, 241, 113, 216,
      49, 21, 4, 199, 35, 195, 24, 150, 5, 154, 7, 18, 128, 226, 235, 39, 178, 117, 9, 131, 44, 26, 27, 110, 90, 160,
      82, 59, 214, 179, 41, 227, 47, 132, 83, 209, 0, 237, 32, 252, 177, 91, 106, 203, 190, 57, 74, 76, 88, 207, 208,
      239, 170, 251, 67, 77, 51, 133, 69, 249, 2, 127, 80, 60, 159, 168, 81, 163, 64, 143, 146, 157, 56, 245, 188,
      182, 218, 33, 16, 255, 243, 210, 205, 12, 19, 236, 95, 151, 68, 23, 196, 167, 126, 61, 100, 93, 25, 115, 96,
      129, 79, 220, 34, 42, 144, 136, 70, 238, 184, 20, 222, 94, 11, 219, 224, 50, 58, 10, 73, 6, 36, 92, 194, 211,
      172, 98, 145, 149, 228, 121, 231, 200, 55, 109, 141, 213, 78, 169, 108, 86, 244, 234, 101, 122, 174, 8, 186,
      120, 37, 46, 28, 166, 180, 198, 232, 221, 116, 31, 75, 189, 139, 138, 112, 62, 181, 102, 72, 3, 246, 14, 97,
      53, 87, 185, 134, 193, 29, 158, 225, 248, 152, 17, 105, 217, 142, 148, 155, 30, 135, 233, 206, 85, 40, 223,
      140, 161, 137, 13, 191, 230, 66, 104, 65, 153, 45, 15, 176, 84, 187, 22>>
RCON == <<1, 2, 4, 8, 16, 32, 64, 128, 27, 54>>

\* xtime: times x in GF(2^8).
Xtime(x) == ((2 * x) % 256) ^^ (27 * (x \div 128))
XorOf(bytes) == FoldLeft(LAMBDA a, b : a ^^ b, 0, bytes)
XorAll(a, b) == [i \in 1 .. Len(a) |-> a[i] ^^ b[i]]
\* Mutant of Turned: the other way.
TurnedBack(t) == <<t[4], t[1], t[2], t[3]>>
\* RotWord.
Turned(t) == <<t[2], t[3], t[4], t[1]>>
\* aes128_key_expand: four bytes at a time, the first four of every key turned and changed.
KeyExpand(key) ==
    LET more(rk, i) ==
          LET t == SubSeq(rk, Len(rk) - 3, Len(rk))
              w == Turned(t)
              u == IF i % 4 = 0
                   THEN <<SBOX[w[1] + 1] ^^ RCON[i \div 4], SBOX[w[2] + 1], SBOX[w[3] + 1], SBOX[w[4] + 1]>>
                   ELSE t
          IN  rk \o XorAll(SubSeq(rk, Len(rk) - 15, Len(rk) - 12), u)
    IN  FoldLeft(more, key, [i \in 1 .. 40 |-> i + 3])
ShiftRows(s) == <<s[1], s[6], s[11], s[16], s[5], s[10], s[15], s[4], s[9], s[14], s[3], s[8], s[13], s[2], s[7], s[12]>>
MixColumn(a) ==
    <<XorOf(<<Xtime(a[1]), Xtime(a[2]), a[2], a[3], a[4]>>), XorOf(<<a[1], Xtime(a[2]), Xtime(a[3]), a[3], a[4]>>),
      XorOf(<<a[1], a[2], Xtime(a[3]), Xtime(a[4]), a[4]>>), XorOf(<<Xtime(a[1]), a[1], a[2], a[3], Xtime(a[4])>>)>>
MixColumns(s) == FlattenSeq([c \in 1 .. 4 |-> MixColumn(SubSeq(s, (4 * c) - 3, 4 * c))])
\* aes128_encrypt_block: ten rounds, the last without the mixing.
EncryptBlock(rk, block) ==
    LET round(s, r) ==
          LET t == ShiftRows([i \in 1 .. 16 |-> SBOX[s[i] + 1]])
          IN  XorAll(IF r = 10 THEN t ELSE MixColumns(t), SubSeq(rk, (16 * r) + 1, 16 * (r + 1)))
    IN  FoldLeft(round, XorAll(block, SubSeq(rk, 1, 16)), [i \in 1 .. 10 |-> i])

-----------------------------------------------------------------------------
(* X25519 *)

BASE == 2 ^ LIMB
PRIME == (2 ^ ((LIMB * LIMBS) - 1)) - (FOLD \div 2)

\* Mutant of CarryLimb: what leaves the highest limb is lost.
CarryLimbLost(o, i) ==
    LET c == (o[i] + BASE) \div BASE
    IN  IF i < LIMBS THEN [o EXCEPT ![i] = @ - (BASE * (c - 1)), ![i + 1] = @ + c - 1]
        ELSE [o EXCEPT ![i] = @ - (BASE * (c - 1))]
\* car25519, one limb: what leaves the highest comes back at the lowest, FOLD times.
CarryLimb(o, i) ==
    LET c == (o[i] + BASE) \div BASE
    IN  IF i < LIMBS THEN [o EXCEPT ![i] = @ - (BASE * (c - 1)), ![i + 1] = @ + c - 1]
        ELSE [o EXCEPT ![i] = @ - (BASE * (c - 1)), ![1] = @ + (FOLD * (c - 1))]
Car(o) == FoldLeft(CarryLimb, o, [i \in 1 .. LIMBS |-> i])
\* sel25519
Sel(p, q, b) == IF b = 1 THEN <<q, p>> ELSE <<p, q>>
\* pack25519: the prime is taken off twice, where that is possible.
Less1(t) ==
    LET upto[i \in 1 .. LIMBS] ==
          IF i = 1 THEN <<t[1] - (BASE - (FOLD \div 2))>>
          ELSE LET m == upto[i - 1]
                   low == [m EXCEPT ![i - 1] = @ % BASE]
               IN  Append(low, t[i] - (IF i = LIMBS THEN (BASE \div 2) - 1 ELSE BASE - 1) - ((m[i - 1] \div BASE) % 2))
        m == upto[LIMBS]
    IN  IF (m[LIMBS] \div BASE) % 2 = 0 THEN m ELSE t
Pack(n) == Less1(Less1(Car(Car(Car(n)))))
\* unpack25519: the highest bit is ignored.
Unpack(n) == [n EXCEPT ![LIMBS] = @ % (BASE \div 2)]

LimbByLimb(At(_)) == FoldLeft(LAMBDA o, i : Append(o, At(i)), <<>>, [i \in 1 .. LIMBS |-> i])
GfAdd(a, b) == LimbByLimb(LAMBDA i : a[i] + b[i])
GfSub(a, b) == LimbByLimb(LAMBDA i : a[i] - b[i])
GfMul(a, b) ==
    LET at(k) == FoldLeft(LAMBDA s, i : s + (IF k - i \in 1 .. LIMBS THEN a[i] * b[k - i] ELSE 0), 0, [i \in 1 .. LIMBS |-> i])
    IN  Car(Car(LimbByLimb(LAMBDA i : at(i + 1) + (IF i < LIMBS THEN FOLD * at(i + 1 + LIMBS) ELSE 0))))
GfSqr(a) == GfMul(a, a)
\* inv25519, one round: to the power p - 2, all of whose bits are ones but two.
InvRound(c, i, k) == LET s == GfSqr(c) IN IF k \in {2, 4} THEN s ELSE GfMul(s, i)

LimbsOf(x) == [i \in 1 .. LIMBS |-> (x \div (2 ^ (LIMB * (i - 1)))) % BASE]
TOP == 2 ^ ((LIMB * LIMBS) - 2)
Clamped25519(k) == TOP + (((k % TOP) \div MaskLow) * MaskLow)
\* One bit of the scalar; a / c and b / d are the two points the ladder stands between.
Rung(s, x, bit) ==
    LET ab == Sel(s.a, s.b, bit)
        cd == Sel(s.c, s.d, bit)
        e == GfAdd(ab[1], cd[1])
        a1 == GfSub(ab[1], cd[1])
        c1 == GfAdd(ab[2], cd[2])
        b1 == GfSub(ab[2], cd[2])
        d2 == GfSqr(e)
        f == GfSqr(a1)
        a2 == GfMul(c1, a1)
        c2 == GfMul(b1, e)
        c3 == GfSub(d2, f)
        a4 == GfMul(c3, GfAdd(GfMul(c3, LimbsOf(A24)), d2))
        ab2 == Sel(GfMul(d2, f), GfSqr(GfAdd(a2, c2)), bit)
        cd2 == Sel(a4, GfMul(GfSqr(GfSub(a2, c2)), x), bit)
    IN  [a |-> ab2[1], b |-> ab2[2], c |-> cd2[1], d |-> cd2[2]]
-----------------------------------------------------------------------------
(* Two ends agree on a key: x25519 four times, one rung a step *)

NoLadder == [left |-> 0, powers |-> 0, x |-> <<>>, at |-> <<>>, inverse |-> <<>>]
CiphersInit == /\ \E a, b \in Privates : exchange = [private |-> <<a, b>>, given |-> <<>>]
               /\ ladder = NoLadder
\* Each end multiplies the base point, then what the other gave.
Round25519 == Len(exchange.given) + 1
Own == exchange.private[((Round25519 - 1) % 2) + 1]
Theirs == IF Round25519 <= 2 THEN LimbsOf(BaseU) ELSE exchange.given[5 - Round25519]

Start25519 ==
    /\ Round25519 <= 4 /\ ladder = NoLadder
    /\ LET x == Unpack(Theirs)
       IN  ladder' = [left |-> (LIMB * LIMBS) - 1, powers |-> (LIMB * LIMBS) - 2, x |-> x, inverse |-> <<>>,
                      at |-> [a |-> LimbsOf(1), b |-> x, c |-> LimbsOf(0), d |-> LimbsOf(1)]]
    /\ UNCHANGED exchange
Climb ==
    /\ ladder.left > 0
    /\ LET bit == (Clamped25519(Own) \div (2 ^ (ladder.left - 1))) % 2
       IN  ladder' = [ladder EXCEPT !.left = @ - 1, !.at = Rung(@, ladder.x, bit)]
    /\ UNCHANGED exchange
Invert ==
    /\ ladder.left = 0 /\ ladder.powers > 0
    /\ LET c == IF ladder.inverse = <<>> THEN ladder.at.c ELSE ladder.inverse
       IN  ladder' = [ladder EXCEPT !.powers = @ - 1, !.inverse = InvRound(c, ladder.at.c, ladder.powers - 1)]
    /\ UNCHANGED exchange
End25519 ==
    /\ ladder.left = 0 /\ ladder.powers = 0 /\ ladder # NoLadder
    /\ exchange' = [exchange EXCEPT !.given = Append(@, Pack(GfMul(ladder.at.a, ladder.inverse)))]
    /\ ladder' = NoLadder
CiphersNext == Start25519 \/ Climb \/ Invert \/ End25519
CiphersSpec == CiphersInit /\ [][CiphersNext]_cipherVars

-----------------------------------------------------------------------------
(* Properties *)

\* Multiplication in GF(2^8), and in polynomials of a column modulo y^4 + 1.
Times(a, b) ==
    FoldLeft(LAMBDA s, i : (IF (b \div (2 ^ (8 - i))) % 2 = 1 THEN Xtime(s) ^^ a ELSE Xtime(s)), 0, [i \in 1 .. 8 |-> i])
ColumnTimes(a, m) == [i \in 1 .. 4 |-> XorOf([j \in 1 .. 4 |-> Times(m[((i - j) % 4) + 1], a[j])])]
\* The table is the inverse in GF(2^8) followed by the affine map of FIPS-197, the rounds'
\* constants are powers of x, columns are multiplied by 3 y^3 + y^2 + y + 2, and the
\* standard's example comes out.
AesTrue ==
    /\ \A x \in 0 .. 255 :
         LET inv == IF x = 0 THEN 0 ELSE CHOOSE i \in 1 .. 255 : Times(x, i) = 1
             bit(i) == (inv \div (2 ^ (i % 8))) % 2
             row(i) == (bit(i) + bit(i + 4) + bit(i + 5) + bit(i + 6) + bit(i + 7) + ((99 \div (2 ^ i)) % 2)) % 2
         IN  SBOX[x + 1] = FoldLeft(LAMBDA s, i : s + (row(i) * (2 ^ i)), 0, <<0, 1, 2, 3, 4, 5, 6, 7>>)
    /\ RCON[1] = 1 /\ \A i \in 1 .. 9 : RCON[i + 1] = Times(RCON[i], 2)
    /\ \A i \in 1 .. 4, x \in {1, 2, 128, 255} :
         LET a == [j \in 1 .. 4 |-> IF j = i THEN x ELSE j] IN MixColumn(a) = ColumnTimes(a, <<2, 1, 1, 3>>)
    /\ ShiftRows([i \in 1 .. 16 |-> i - 1]) = [i \in 1 .. 16 |-> ((i - 1) + (4 * ((i - 1) % 4))) % 16]
    /\ EncryptBlock(KeyExpand(<<43, 126, 21, 22, 40, 174, 210, 166, 171, 247, 21, 136, 9, 207, 79, 60>>),
                    <<50, 67, 246, 168, 136, 90, 48, 141, 49, 49, 152, 162, 224, 55, 7, 52>>)
         = <<57, 37, 132, 29, 2, 220, 9, 251, 220, 17, 133, 151, 25, 106, 11, 50>>

\* The curve in plain arithmetic, <<>> the point at infinity.
CurveA == (4 * A24) + 2
PowMod(a, e) ==
    FoldLeft(LAMBDA s, i : (((s * s) % PRIME) * (IF (e \div (2 ^ (15 - i))) % 2 = 1 THEN a ELSE 1)) % PRIME, 1,
             [i \in 1 .. 15 |-> i])
BasePoint == <<BaseU, CHOOSE v \in 1 .. PRIME - 1 : (v * v) % PRIME = (((BaseU + CurveA) * BaseU * BaseU) + BaseU) % PRIME>>
AddPoints(o, q) ==
    LET over(n, d) == ((n % PRIME) * PowMod(d % PRIME, PRIME - 2)) % PRIME
        slope == IF o = q THEN over((3 * ((o[1] * o[1]) % PRIME)) + (2 * ((CurveA * o[1]) % PRIME)) + 1, 2 * o[2])
                 ELSE over(q[2] - o[2], q[1] - o[1])
        u == (((slope * slope) % PRIME) - CurveA - o[1] - q[1]) % PRIME
    IN  CASE o = <<>> -> q
          [] q = <<>> /\ o # <<>> -> o
          [] o # <<>> /\ q # <<>> /\ o[1] = q[1] /\ (o[2] + q[2]) % PRIME = 0 -> <<>>
          [] OTHER -> <<u, ((slope * ((o[1] - u) % PRIME)) - o[2]) % PRIME>>
Multiple(k, o) ==
    FoldLeft(LAMBDA s, i : LET d == AddPoints(s, s) IN IF (k \div (2 ^ (30 - i))) % 2 = 1 THEN AddPoints(d, o) ELSE d, <<>>,
             [i \in 1 .. 30 |-> i])
\* Public and shared keys are the base point's multiples, written in full and below the
\* prime; both ends come to the same one.
ExchangeTrue ==
    LET k(i) == Clamped25519(exchange.private[i])
        u(q) == LimbsOf(IF q = <<>> THEN 0 ELSE q[1])
        g == exchange.given
    IN  /\ \A i \in {1, 2} : Len(g) >= i => g[i] = u(Multiple(k(i), BasePoint))
        /\ Len(g) >= 3 => g[3] = u(Multiple(k(1), Multiple(k(2), BasePoint)))
        /\ Len(g) = 4 => g[3] = g[4]
CiphersRight == (ladder = NoLadder => ExchangeTrue) /\ (exchange.given = <<>> /\ ladder = NoLadder => AesTrue)
=============================================================================
