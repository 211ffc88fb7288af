----------------------------- MODULE Algorithms -----------------------------
(***************************************************************************)
(* Three pure functions of the program whose edges matter, and what they   *)
(* compute for every argument: the rejection sampling of                   *)
(* generateShortCode, the lifetime that cacheTTL gives a Redis entry, and  *)
(* the addresses that isPublicIP lets a destination name.                  *)
(***************************************************************************)
EXTENDS Integers, TLAPS

-----------------------------------------------------------------------------
(* generateShortCode: a random byte is drawn again from 248 on, otherwise it *)
(* chooses the character with its remainder as index.                        *)

Bytes == 0..255
Indexes == 0..61
Accepted(b) == b < 248
CharIndex(b) == b % 62

\* "Rejecting values >= 248 removes modulo bias": each of the 62 characters is
\* chosen by exactly four of the bytes, so all are equally likely.
THEOREM NoModuloBias ==
  ASSUME NEW i \in Indexes
  PROVE  {b \in Bytes : Accepted(b) /\ CharIndex(b) = i}
           = {i, i + 62, i + 124, i + 186}
<1>1. ASSUME NEW b \in Bytes, Accepted(b), CharIndex(b) = i
      PROVE  b \in {i, i + 62, i + 124, i + 186}
  <2>1. b \in 0..61 => b % 62 = b  BY SMT DEF Bytes
  <2>2. b \in 62..123 => b % 62 = b - 62  BY SMT DEF Bytes
  <2>3. b \in 124..185 => b % 62 = b - 124  BY SMT DEF Bytes
  <2>4. b \in 186..247 => b % 62 = b - 186  BY SMT DEF Bytes
  <2> QED  BY <1>1, <2>1, <2>2, <2>3, <2>4 DEF Bytes, Indexes, Accepted, CharIndex
<1>2. ASSUME NEW b \in {i, i + 62, i + 124, i + 186}
      PROVE  b \in Bytes /\ Accepted(b) /\ CharIndex(b) = i
  <2>1. i % 62 = i /\ (i + 62) % 62 = i /\ (i + 124) % 62 = i /\ (i + 186) % 62 = i
    BY SMT DEF Indexes
  <2> QED  BY <2>1 DEF Bytes, Indexes, Accepted, CharIndex
<1> QED  BY <1>1, <1>2

-----------------------------------------------------------------------------
(* cacheTTL, in units of which a second has the given number: the lifetime   *)
(* of an entry whose URL has the given time left, if it has an expires_at.     *)

cacheTTL(hasExpiry, remaining, ttl, second) ==
  IF ~ hasExpiry THEN ttl
  ELSE IF remaining <= 0 THEN second
  ELSE IF remaining < ttl THEN remaining
  ELSE ttl

\* Redis takes a lifetime of zero for no expiry at all.  cacheTTL never asks for
\* that, nor for more than the configured lifetime or, but for the grace of a
\* second, more than the URL has left.
THEOREM EveryEntryExpires ==
  ASSUME NEW hasExpiry \in BOOLEAN, NEW remaining \in Int,
         NEW second \in Nat \ {0}, NEW ttl \in Nat, ttl >= second
  PROVE  LET t == cacheTTL(hasExpiry, remaining, ttl, second) IN
         /\ t \in 1..ttl
         /\ hasExpiry => t <= remaining \/ (remaining <= 0 /\ t = second)
BY DEF cacheTTL

-----------------------------------------------------------------------------
(* isPublicIP on an IPv4 address a.b.c.d; the tests are those of package net. *)

Octets == 0..255
IsLoopback(a) == a = 127
IsPrivate(a, b) ==
  a = 10 \/ (a = 172 /\ b >= 16 /\ b <= 31) \/ (a = 192 /\ b = 168)
IsLinkLocalUnicast(a, b) == a = 169 /\ b = 254
IsLinkLocalMulticast(a, b, c) == a = 224 /\ b = 0 /\ c = 0
IsMulticast(a) == a >= 224 /\ a <= 239
IsUnspecified(a, b, c, d) == a = 0 /\ b = 0 /\ c = 0 /\ d = 0

isPublicIP(a, b, c, d) ==
  /\ ~ IsLoopback(a)
  /\ ~ IsPrivate(a, b)
  /\ ~ IsLinkLocalUnicast(a, b)
  /\ ~ IsLinkLocalMulticast(a, b, c)
  /\ ~ IsMulticast(a)
  /\ ~ IsUnspecified(a, b, c, d)
  /\ ~ (a = 255 /\ b = 255 /\ c = 255 /\ d = 255)

\* The address as the number that routers compare.
Number(a, b, c, d) == ((a * 256 + b) * 256 + c) * 256 + d

Between(n, low, high) == low <= n /\ n <= high

\* The blocks of the address space that the tests are meant to stand for:
\* 10/8, 127/8, 169.254/16, 172.16/12, 192.168/16, 224/4 and two addresses.
Reserved(n) ==
  \/ n = 0
  \/ Between(n, 167772160, 184549375)
  \/ Between(n, 2130706432, 2147483647)
  \/ Between(n, 2851995648, 2852061183)
  \/ Between(n, 2886729728, 2887778303)
  \/ Between(n, 3232235520, 3232301055)
  \/ Between(n, 3758096384, 4026531839)
  \/ n = 4294967295

\* The tests on octets refuse exactly eight blocks of addresses: none of their
\* borders is off by one, and an address outside them is accepted.
THEOREM PublicAddresses ==
  ASSUME NEW a \in Octets, NEW b \in Octets, NEW c \in Octets, NEW d \in Octets
  PROVE  isPublicIP(a, b, c, d) <=> ~ Reserved(Number(a, b, c, d))
<1> USE DEF Octets, Between
<1> DEFINE n == Number(a, b, c, d)
<1>1. n = 16777216 * a + 65536 * b + 256 * c + d /\ n \in Nat
  BY SMT DEF Number
<1> HIDE DEF n
<1>2. /\ n = 0 <=> IsUnspecified(a, b, c, d)
      /\ n = 4294967295 <=> (a = 255 /\ b = 255 /\ c = 255 /\ d = 255)
  BY <1>1, SMT DEF IsUnspecified
<1>3. /\ Between(n, 167772160, 184549375) <=> a = 10
      /\ Between(n, 2130706432, 2147483647) <=> IsLoopback(a)
      /\ Between(n, 3758096384, 4026531839) <=> IsMulticast(a)
  BY <1>1, SMT DEF IsLoopback, IsMulticast
<1>4. Between(n, 2851995648, 2852061183) <=> IsLinkLocalUnicast(a, b)
  BY <1>1, SMT DEF IsLinkLocalUnicast
<1>5. Between(n, 2886729728, 2887778303) <=> a = 172 /\ b >= 16 /\ b <= 31
  BY <1>1, SMT
<1>6. Between(n, 3232235520, 3232301055) <=> a = 192 /\ b = 168
  BY <1>1, SMT
<1>7. IsLinkLocalMulticast(a, b, c) => IsMulticast(a)
  BY SMT DEF IsLinkLocalMulticast, IsMulticast
<1>8. isPublicIP(a, b, c, d) <=> ~ Reserved(n)
  BY <1>2, <1>3, <1>4, <1>5, <1>6, <1>7, SMT DEF isPublicIP, IsPrivate, Reserved
<1> QED  BY <1>8, SMT DEF n

-----------------------------------------------------------------------------
(* validateURL, on what url.ParseRequestURI and net.ParseIP make of a value:  *)
(* whether it parses, its scheme, whether it names a host and credentials,    *)
(* whether the host name is one of localhost, and the octets of an IPv4       *)
(* literal.  The second, identical test of the address is unreachable.        *)

Address == [a : Octets, b : Octets, c : Octets, d : Octets]
ParsedURL ==
  [parses : BOOLEAN, scheme : {"http", "https", "other"}, host : BOOLEAN,
   credentials : BOOLEAN, local : BOOLEAN, literal : BOOLEAN, ip : Address]

validateURL(u) ==
  /\ u.parses
  /\ u.scheme \in {"http", "https"}
  /\ u.host
  /\ ~ u.credentials
  /\ ~ u.local
  /\ u.literal => isPublicIP(u.ip.a, u.ip.b, u.ip.c, u.ip.d)

\* An accepted destination whose host is an IPv4 literal lies outside every
\* reserved block; a host name is not resolved and may stand for any address.
THEOREM AcceptedDestinations ==
  ASSUME NEW u \in ParsedURL, validateURL(u), u.literal
  PROVE  ~ Reserved(Number(u.ip.a, u.ip.b, u.ip.c, u.ip.d))
<1>1. u.ip.a \in Octets /\ u.ip.b \in Octets /\ u.ip.c \in Octets /\ u.ip.d \in Octets
  BY DEF ParsedURL, Address
<1>2. isPublicIP(u.ip.a, u.ip.b, u.ip.c, u.ip.d)
  BY DEF validateURL
<1> QED  BY <1>1, <1>2, PublicAddresses
=============================================================================
