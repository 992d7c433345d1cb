---------------------------- MODULE CmsSigning ----------------------------
(***************************************************************************)
(* The attached signature of crates/einvoice-signing (lib.rs, ber.rs,      *)
(* pfx.rs): which identities it takes, the BER of the CMS message and the  *)
(* armor around it.  An octet is Octet(n) where its value n matters (tags,  *)
(* lengths, serial numbers), and any other pair where the encoder only     *)
(* copies it, so that one token of content, certificate, signature or      *)
(* object identifier is one octet.                                         *)
(***************************************************************************)
EXTENDS Naturals, SequencesExt

Octet(n) == <<"octet", n>>

-----------------------------------------------------------------------------
(* ber.rs *)

\* The octets of a length, most significant first, without leading zeros.
BigEndian[n \in Nat] ==
  IF n = 0 THEN <<>> ELSE Append(BigEndian[n \div 256], Octet(n % 256))

\* Mutant of WriteLength: 128 still takes the short form.
WriteLengthLate(length) ==
  IF length <= 128 THEN <<Octet(length)>>
  ELSE <<Octet(128 + Len(BigEndian[length]))>> \o BigEndian[length]

\* write_length: the short form below 128, else the number of octets first.
WriteLength(length) ==
  IF length < 128 THEN <<Octet(length)>>
  ELSE <<Octet(128 + Len(BigEndian[length]))>> \o BigEndian[length]

Tlv(tag, body) == <<Octet(tag)>> \o WriteLength(Len(body)) \o body

OctetString(octets)   == Tlv(\h04, octets)
Sequence(elements)    == Tlv(\h30, FlattenSeq(elements))
SetOf(elements)       == Tlv(\h31, FlattenSeq(elements))

\* open_indefinite and close_indefinite.
Indefinite(tag, elements) ==
  <<Octet(tag), Octet(\h80)>> \o FlattenSeq(elements) \o <<Octet(0), Octet(0)>>

\* positive_integer: leading zeros go, and a zero octet keeps it positive.
PositiveInteger(octets) ==
  LET nonzero == {i \in DOMAIN octets : octets[i] # Octet(0)}
      first   == IF nonzero = {} THEN Len(octets)
                 ELSE CHOOSE i \in nonzero : \A j \in nonzero : i <= j
      body    == IF octets = <<>> THEN <<Octet(0)>> ELSE SubSeq(octets, first, Len(octets))
  IN  Tlv(\h02, IF body[1][2] >= 128 THEN <<Octet(0)>> \o body ELSE body)

IntegerOne == <<Octet(\h02), Octet(1), Octet(1)>>

ObjectIdentifier(name) == <<Octet(\h06), Octet(1), <<"oid", name>>>>

AlgorithmIdentifier(name) ==
  Sequence(<<ObjectIdentifier(name), <<Octet(\h05), Octet(0)>>>>)

\* encode_turnkey_signed_data of [content, certificate, issuer, serial,
\* algorithm, signature].
EncodeTurnkeySignedData(parts) ==
  LET digest == AlgorithmIdentifier("sha256")
      signer == Sequence(<<
        IntegerOne,
        Sequence(<<parts.issuer, PositiveInteger(parts.serial)>>),
        digest,
        AlgorithmIdentifier(parts.algorithm),
        OctetString(parts.signature)>>)
      content == Indefinite(\h30, <<
        ObjectIdentifier("data"), Indefinite(\ha0, <<OctetString(parts.content)>>)>>)
      signedData == Indefinite(\h30, <<
        IntegerOne, SetOf(<<digest>>), content,
        Indefinite(\ha0, <<parts.certificate>>), SetOf(<<signer>>)>>)
  IN  Indefinite(\h30, <<ObjectIdentifier("signedData"), Indefinite(\ha0, <<signedData>>)>>)

-----------------------------------------------------------------------------
(* to_turnkey_armored.  A character of Base64 is its place in a group of   *)
(* four, the first one with the octets that the group encodes; a line feed *)
(* has place 4.                                                            *)

LineFeed == <<4, <<>>>>

\* The octets of a group: three, or what is left of them.
Group(octets, g) ==
  SubSeq(octets, 3 * g - 2, IF 3 * g < Len(octets) THEN 3 * g ELSE Len(octets))

Base64(octets) ==
  [i \in 1 .. 4 * ((Len(octets) + 2) \div 3) |->
     <<(i - 1) % 4, IF i % 4 = 1 THEN Group(octets, (i + 3) \div 4) ELSE <<>>>>]

\* Base64 in lines of 64, each ended by a line feed.
FullLines(encoded) ==
  [i \in 1 .. Len(encoded) + Len(encoded) \div 64 |->
     IF i % 65 = 0 THEN LineFeed ELSE encoded[i - i \div 65]]

ToTurnkeyArmored(octets) ==
  LET encoded == Base64(octets)
  IN  IF Len(encoded) % 64 = 0 THEN FullLines(encoded)
      ELSE Append(FullLines(encoded), LineFeed)

-----------------------------------------------------------------------------
(* pfx.rs.  What OpenSSL finds in a PFX: [opens, key, certificate].  The   *)
(* key, if there is one, is [kind, public, size]; the certificate, if      *)
(* there is one, is [public, der, issuer, serial].                         *)

SignatureAlgorithms == [RSA |-> "sha256WithRSAEncryption", EC |-> "ecdsa-with-SHA256"]

\* Mutant of PfxFromDer: the key is not compared with the certificate.
PfxFromDerUnmatched(pfx) ==
  IF ~ pfx.opens THEN "OpenSsl"
  ELSE IF "key" \notin DOMAIN pfx THEN "MissingPrivateKey"
  ELSE IF "certificate" \notin DOMAIN pfx THEN "MissingCertificate"
  ELSE IF pfx.key.kind \notin DOMAIN SignatureAlgorithms THEN "UnsupportedPrivateKey"
  ELSE "Ok"

\* PfxSigner::from_der.
PfxFromDer(pfx) ==
  IF ~ pfx.opens THEN "OpenSsl"
  ELSE IF "key" \notin DOMAIN pfx THEN "MissingPrivateKey"
  ELSE IF "certificate" \notin DOMAIN pfx THEN "MissingCertificate"
  ELSE IF pfx.certificate.public # pfx.key.public THEN "MismatchedKeyPair"
  ELSE IF pfx.key.kind \notin DOMAIN SignatureAlgorithms THEN "UnsupportedPrivateKey"
  ELSE "Ok"

\* sign_attached.  A signature is octets that verify under the public half
\* of the key that made them; every octet names it.
SignAttached(pfx, content) ==
  EncodeTurnkeySignedData(
    [content     |-> content,
     certificate |-> pfx.certificate.der,
     issuer      |-> pfx.certificate.issuer,
     serial      |-> pfx.certificate.serial,
     algorithm   |-> SignatureAlgorithms[pfx.key.kind],
     signature   |-> [i \in 1 .. pfx.key.size |-> <<"key", pfx.key.public>>]])
=============================================================================
