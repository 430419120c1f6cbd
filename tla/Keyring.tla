------------------------------- MODULE Keyring --------------------------------
(***************************************************************************)
(* The keyring that signatures of packages are checked with                *)
(* (pyrpm/openpgp.py): readPGPKeys() of a repository (repodb.py) parses a   *)
(* file of keys packet by packet, merges what it finds into the keyring,    *)
(* and verifyDigest() looks for the key that made a signature.             *)
(*                                                                         *)
(* A packet is [kind, type, data, time]: its class, for a signature the    *)
(* type and the time it was made, and its contents, which also say what a  *)
(* key packet is.  A file is the sequence of the messages in it, each with *)
(* the defects of its armor and its packets.  None stands for Python's.    *)
(***************************************************************************)
EXTENDS Integers, Sequences, SequencesExt

CONSTANTS
    File,      \* the files that the configuration may name
    Usual,     \* those that are read after another one
    MaxReads,  \* bound: how many files are read
    KeyID,     \* of the contents of a key packet
    Alg,       \* its algorithm
    Broken,    \* contents of key packets that the algorithm does not take
    Small,     \* those of RSA keys that are too small for SHA256
    Signature  \* the signatures of packages

None == "None"
NoId == 0
Fatal == {"header type", "header", "end of headers", "tail", "base64", "checksum"}
Revocation == "key_revocation"
ValueError == -2

VARIABLES
    reads,    \* how many files were read
    file,     \* the one being read
    input,    \* the packets that were not taken yet
    place,    \* where in a key _PublicKey.__init__() is
    key,      \* the key being parsed
    uid,      \* the user id or subkey that signatures belong to
    keys,     \* the keys of this file
    ring,     \* PGPKeyRing.keys
    byKeyId,  \* PGPKeyRing.by_key_id
    accepted  \* the files whose keys are in the ring

keyringVars == <<reads, file, input, place, key, uid, keys, ring, byKeyId, accepted>>

EmptyKey == [id |-> None, revocation |-> -1, direct |-> {}, haveUid |-> FALSE,
             uids |-> <<>>, subkeys |-> <<>>]

NewKeyRing == ring = <<>> /\ byKeyId = <<>>

Init ==
    /\ reads = 0 /\ file = <<>> /\ input = <<>>
    /\ place = "idle" /\ key = EmptyKey /\ uid = None /\ keys = <<>>
    /\ NewKeyRing
    /\ accepted = {}

-----------------------------------------------------------------------------
(* Messages.                                                               *)

\* The first of the messages in a file; text around it does not matter.
IsolateASCIIArmor(f) == Head(f)

DecodeArmor(m) == m.defects \intersect Fatal = {}

\* A packet whose frame or contents are invalid, or of an unknown version.
PacketError(p) == p.kind = "invalid"

ParsePGPMessage(m) == SelectSeq(m.packets, LAMBDA p : p.kind \notin {"marker", "trust"})

ReadPGPKeys(f) ==
    /\ place = "idle" /\ reads < MaxReads
    /\ reads = 0 \/ f \in Usual
    /\ reads' = reads + 1
    /\ LET m == IsolateASCIIArmor(f)
           good == DecodeArmor(m) /\ \A i \in DOMAIN m.packets : ~PacketError(m.packets[i])
       IN  IF good
           THEN file' = f /\ input' = ParsePGPMessage(m) /\ place' = "start"
           ELSE UNCHANGED <<file, input, place>>
    /\ UNCHANGED <<key, uid, keys, ring, byKeyId, accepted>>

-----------------------------------------------------------------------------
(* _PublicKey.__init__(), a packet at a time                               *)

IsSig(types) == input # <<>> /\ Head(input).kind = "sig" /\ Head(input).type \in types
IsKind(kinds) == input # <<>> /\ Head(input).kind \in kinds

\* f with S added to what it has for d.
AddTo(f, d, S) ==
    [x \in DOMAIN f \union {d} |->
        (IF x \in DOMAIN f THEN f[x] ELSE {}) \union (IF x = d THEN S ELSE {})]

Taken ==
    /\ input' = Tail(input)
    /\ UNCHANGED <<reads, file, keys, ring, byKeyId, accepted>>

PrimaryKey ==
    /\ place = "start" /\ IsKind({"key"})
    /\ key' = [EmptyKey EXCEPT !.id = Head(input).data]
    /\ place' = "key"
    /\ UNCHANGED uid /\ Taken

PrimaryRevocation ==
    /\ place = "key" /\ IsSig({Revocation})
    /\ key' = [key EXCEPT !.revocation = Head(input).time]
    /\ place' = "direct"
    /\ UNCHANGED uid /\ Taken

DirectSig ==
    /\ place \in {"key", "direct"} /\ IsSig({"direct"})
    /\ key' = [key EXCEPT !.direct = @ \union {Head(input).data}]
    /\ place' = "direct"
    /\ UNCHANGED uid /\ Taken

\* The signatures of a user id that is there twice are put together.
UserID ==
    /\ place \in {"key", "direct", "uid"} /\ IsKind({"uid", "attr"})
    /\ uid' = Head(input).data
    /\ key' = [key EXCEPT !.haveUid = @ \/ Head(input).kind = "uid",
                          !.uids = AddTo(@, Head(input).data, {})]
    /\ place' = "uid"
    /\ Taken

UserIDSig ==
    /\ place = "uid" /\ IsKind({"sig"})
    /\ key' = [key EXCEPT !.uids = AddTo(@, uid, {Head(input).data})]
    /\ UNCHANGED <<place, uid>> /\ Taken

Subkey ==
    /\ place \in {"uid", "subkey"} /\ key.haveUid /\ IsKind({"subkey"})
    /\ uid' = Head(input).data
    /\ key' = [key EXCEPT !.subkeys = AddTo(@, Head(input).data, {})]
    /\ place' = "subkey"
    /\ Taken

SubkeySig ==
    /\ place = "subkey" /\ IsSig({"cert_generic", "subkey", "subkey_revocation"})
    /\ key' = IF IsSig({"cert_generic"}) THEN key
              ELSE [key EXCEPT !.subkeys = AddTo(@, uid, {Head(input).data})]
    /\ UNCHANGED <<place, uid>> /\ Taken

\* parsePGPKeys() gives a key the packets before the next primary key.
KeyParsed ==
    /\ place \in {"uid", "subkey"} /\ key.haveUid
    /\ input = <<>> \/ IsKind({"key"})
    /\ keys' = Append(keys, key)
    /\ place' = IF input = <<>> THEN "add" ELSE "start"
    /\ key' = EmptyKey /\ uid' = None
    /\ UNCHANGED <<reads, file, input, ring, byKeyId, accepted>>

Parse ==
    PrimaryKey \/ PrimaryRevocation \/ DirectSig \/ UserID \/ UserIDSig \/ Subkey \/ SubkeySig
      \/ KeyParsed

\* ValueError: nothing of the file is used.
Invalid ==
    /\ place \notin {"idle", "add"} /\ ~ENABLED Parse
    /\ place' = "idle"
    /\ file' = <<>> /\ input' = <<>> /\ key' = EmptyKey /\ uid' = None /\ keys' = <<>>
    /\ UNCHANGED <<reads, ring, byKeyId, accepted>>

-----------------------------------------------------------------------------
(* The keyring.                                                            *)

\* One revocation is enough, the earliest; -1 if there is none.
Earlier(r, s) == IF r = -1 THEN s ELSE IF s # -1 /\ r > s THEN s ELSE r

MergeSigs(f, g) ==
    [d \in DOMAIN f \union DOMAIN g |->
        (IF d \in DOMAIN f THEN f[d] ELSE {}) \union (IF d \in DOMAIN g THEN g[d] ELSE {})]

Merge(k, other) ==
    [k EXCEPT !.revocation = Earlier(@, other.revocation),
              !.direct = @ \union other.direct,
              !.uids = MergeSigs(@, other.uids),
              !.subkeys = MergeSigs(@, other.subkeys)]

\* What _PublicKeyPacket__.keyID() computes.
KeyIdOf(d) == KeyID[d]

\* The contents of the key packets of k, and those with an id.
KeyPackets(k) == {k.id} \union DOMAIN k.subkeys
KeyPacketsWithID(k, id) == {d \in KeyPackets(k) : KeyIdOf(d) = id}
KeyIDs(k) == {KeyIdOf(d) : d \in KeyPackets(k)}

Indexed(l, k) == IF k.id \in ToSet(l) THEN l ELSE Append(l, k.id)

AddKey ==
    /\ place = "add" /\ keys # <<>>
    /\ LET k == Head(keys)
           all == IF k.id \in DOMAIN ring THEN Merge(ring[k.id], k) ELSE k
       IN  /\ ring' = [u \in DOMAIN ring \union {k.id} |-> IF u = k.id THEN all ELSE ring[u]]
           /\ byKeyId' = [id \in DOMAIN byKeyId \union KeyIDs(all) |->
                 LET l == IF id \in DOMAIN byKeyId THEN byKeyId[id] ELSE <<>>
                 IN  IF id \in KeyIDs(all) THEN Indexed(l, all) ELSE l]
    /\ keys' = Tail(keys)
    /\ UNCHANGED <<reads, file, input, place, key, uid, accepted>>

FileDone ==
    /\ place = "add" /\ keys = <<>>
    /\ accepted' = accepted \union {file}
    /\ place' = "idle" /\ file' = <<>>
    /\ UNCHANGED <<reads, input, key, uid, keys, ring, byKeyId>>

Next ==
    \/ \E f \in File : ReadPGPKeys(f)
    \/ Parse
    \/ Invalid
    \/ AddKey
    \/ FileDone

Spec == Init /\ [][Next]_keyringVars

-----------------------------------------------------------------------------
(* Signatures: [ver, hashed, unhashed, alg, hash, by, prefix, value], where *)
(* by is the key packet that made it of this digest, prefix whether the two *)
(* bytes of the digest agree, and value whether its numbers can be read.    *)
(* The two areas are sequences of subpackets [type, critical, good, value]; *)
(* what made the signature vouches for the one that is hashed.  One of     *)
(* version 2 or 3 has a time and an id in it and nothing else.             *)

SubpacketTypes == {"sign_time", "key_id", "flags"}

\* A subpacket whose contents are not good is an error, one of a type that is not
\* known only if it is critical: the first one of either is raised.
AreaError(area) ==
    LET bad == SelectSeq(area, LAMBDA x : IF x.type \in SubpacketTypes THEN ~x.good ELSE x.critical)
    IN  IF bad = <<>> THEN "none"
        ELSE IF Head(bad).type \in SubpacketTypes THEN "ValueError" ELSE "NotImplementedError"

\* The last subpacket of a type counts.
ParseSubpackets(area) ==
    LET of(t) == {i \in DOMAIN area : area[i].type = t}
    IN  [t \in {u \in SubpacketTypes : of(u) # {}} |->
            area[CHOOSE i \in of(t) : \A j \in of(t) : j =< i].value]

SignatureError(s) ==
    IF AreaError(s.hashed) # "none" THEN AreaError(s.hashed)
    ELSE IF "sign_time" \notin DOMAIN ParseSubpackets(s.hashed) THEN "ValueError"
    ELSE AreaError(s.unhashed)

Family(alg) == IF alg \in {"RSA", "RSA encrypt-only", "RSA sign-only"} THEN "RSA"
               ELSE IF alg \in {"Elgamal", "Elgamal encrypt-only"} THEN "Elgamal" ELSE alg
CanSign(alg) == alg \notin {"RSA encrypt-only", "Elgamal encrypt-only"}
PubkeyClasses == {"RSA", "RSA encrypt-only", "DSA"}

\* The contents of the key packet are those of a key of its algorithm.
TakesKey(d) == Alg[d] \in PubkeyClasses /\ d \notin Broken
IsRSA(s) == Family(s.alg) = "RSA"

\* Who makes a signature with RSA pads the digest, whatever its version.  What is
\* compared here is padded for versions 2 and 3 only.
Verifies(s, d) == s.by = d /\ (IsRSA(s) => s.ver \in {2, 3})

VerifyDigestWithPacket(s, d) ==
    IF ~TakesKey(d) \/ s.alg = "unknown" \/ Family(s.alg) # Family(Alg[d]) \/ ~CanSign(Alg[d]) THEN 0
    ELSE IF ~s.prefix THEN -1
    ELSE IF s.ver \in {2, 3} /\ IsRSA(s) /\ d \in Small /\ s.hash = "SHA256" THEN 0
    ELSE IF ~s.value \/ (s.alg = "DSA" /\ s.hash # "SHA1") THEN ValueError
    ELSE IF Verifies(s, d) THEN 1 ELSE -1

Mut_RevokedBefore(s, k) == FALSE

\* Signature with a revoked key.
RevokedBefore(s, k) ==
    k.revocation # -1 /\ ParseSubpackets(s.hashed)["sign_time"] > k.revocation

\* Where one packet raises a ValueError no other one gives 1: the order does not matter.
VerifyDigestWithKey(s, k, id) ==
    LET packets == IF id = NoId THEN KeyPackets(k) ELSE KeyPacketsWithID(k, id)
        results == {VerifyDigestWithPacket(s, d) : d \in packets}
    IN  IF RevokedBefore(s, k) THEN -1
        ELSE IF ValueError \in results THEN ValueError
        ELSE IF 1 \in results THEN 1
        ELSE IF id # NoId /\ 0 \in results THEN 0 ELSE -1

\* An id that is not signed may be wrong: every key is tried after it.
VerifyDigest(s) ==
    LET hashed == ParseSubpackets(s.hashed)
        unhashed == ParseSubpackets(s.unhashed)
        signed == "key_id" \in DOMAIN hashed
        id == IF signed THEN hashed["key_id"]
              ELSE IF "key_id" \in DOMAIN unhashed THEN unhashed["key_id"] ELSE NoId
        listed == IF id \in DOMAIN byKeyId THEN byKeyId[id] ELSE <<>>
        named == {VerifyDigestWithKey(s, ring[listed[i]], id) : i \in DOMAIN listed}
        any == {VerifyDigestWithKey(s, ring[u], NoId) : u \in DOMAIN ring}
    IN  IF ValueError \in named \/ (~signed /\ ValueError \in any) THEN ValueError
        ELSE IF 1 \in named \/ (~signed /\ 1 \in any) THEN 1
        ELSE IF Len(listed) = 1 /\ 0 \notin named THEN -1 ELSE 0

\* Of the signature of a header; a ValueError of verifyDigest() is not caught.
VerifySignatureTag(s) ==
    CASE SignatureError(s) = "none" -> VerifyDigest(s)
      [] SignatureError(s) = "NotImplementedError" -> 0
      [] OTHER -> -1

-----------------------------------------------------------------------------
(* What a keyring promises.  A transferable public key is a primary key,    *)
(* at most one revocation right after it and direct signatures, user ids    *)
(* and attributes, then subkeys, each followed by its signatures.          *)

Packets(f) == ParsePGPMessage(IsolateASCIIArmor(f))

\* The packet that the signature at i is about, and the primary key of i.
Owner(ps, i) == CHOOSE j \in 1..i : ps[j].kind # "sig" /\ \A n \in j + 1..i : ps[n].kind = "sig"
PrimaryOf(ps, i) == CHOOSE j \in 1..i : ps[j].kind = "key" /\ \A n \in j + 1..i : ps[n].kind # "key"

GoodAt(ps, i) ==
    LET o == ps[Owner(ps, i)]
    IN  CASE ps[i].kind = "sig" ->
                 \/ o.kind \in {"uid", "attr"}
                 \/ o.kind = "key" /\ ps[i].type = "direct"
                 \/ o.kind = "key" /\ ps[i].type = Revocation /\ ps[i - 1].kind = "key"
                 \/ o.kind = "subkey"
                      /\ ps[i].type \in {"cert_generic", "subkey", "subkey_revocation"}
          [] ps[i].kind \in {"uid", "attr"} -> ps[Owner(ps, i - 1)].kind # "subkey"
          [] ps[i].kind = "subkey" ->
                 \E j \in PrimaryOf(ps, i)..i : ps[j].kind = "uid"
          [] ps[i].kind = "key" -> i = 1 \/ \E j \in PrimaryOf(ps, i - 1)..i : ps[j].kind = "uid"
          [] OTHER -> FALSE

WellFormed(f) ==
    LET m == IsolateASCIIArmor(f)
        ps == Packets(f)
    IN  /\ DecodeArmor(m) /\ \A i \in DOMAIN m.packets : ~PacketError(m.packets[i])
        /\ ps # <<>> /\ ps[1].kind = "key"
        /\ \A i \in DOMAIN ps : GoodAt(ps, i)
        /\ \E j \in PrimaryOf(ps, Len(ps))..Len(ps) : ps[j].kind = "uid"

\* The packets of the files that were accepted that belong to the primary key u,
\* with the packet each is about.
Belonging(u) ==
    UNION {{<<Packets(f)[i], Packets(f)[Owner(Packets(f), i)]>> :
               i \in {n \in DOMAIN Packets(f) : Packets(f)[PrimaryOf(Packets(f), n)].data = u}} :
              f \in accepted}

\* In whatever order files were read, and however often, the keyring holds
\* what the packets of the well-formed ones say: of each key every signature
\* with what it is about, and the earliest revocation.  A file with one packet
\* out of place adds nothing.  A key is found once under each of its ids.
RingComplete ==
    place = "idle" =>
        /\ \A f \in accepted : WellFormed(f)
        /\ DOMAIN ring = UNION {{Packets(f)[i].data : i \in {n \in DOMAIN Packets(f) :
                                     Packets(f)[n].kind = "key"}} : f \in accepted}
        /\ \A u \in DOMAIN ring :
               LET all == Belonging(u)
                   sigs == {y \in all : /\ y[1].kind = "sig"
                                        /\ ~(y[1].type = "cert_generic" /\ y[2].kind = "subkey")}
                   about(d, kinds) ==
                       {x[1].data : x \in {y \in sigs : y[2].data = d /\ y[2].kind \in kinds}}
                   times == {x[1].time : x \in {y \in sigs : /\ y[1].type = Revocation
                                                            /\ y[2].kind = "key"}}
                   those(kinds) == {x[1].data : x \in {y \in all : y[1].kind \in kinds}}
               IN  /\ ring[u].direct = {x[1].data : x \in {y \in sigs : /\ y[1].type = "direct"
                                                                       /\ y[2].kind = "key"}}
                   /\ IF times = {} THEN ring[u].revocation = -1
                      ELSE ring[u].revocation \in times
                             /\ \A t \in times : ring[u].revocation =< t
                   /\ ring[u].uids = [d \in those({"uid", "attr"}) |-> about(d, {"uid", "attr"})]
                   /\ ring[u].subkeys = [d \in those({"subkey"}) |-> about(d, {"subkey"})]
        /\ \A id \in DOMAIN byKeyId : IsInjective(byKeyId[id])
        /\ \A u \in DOMAIN ring : \A id \in {KeyID[d] : d \in DOMAIN KeyID} :
               (\E d \in {u} \union DOMAIN ring[u].subkeys : KeyID[d] = id)
                   <=> id \in DOMAIN byKeyId /\ u \in ToSet(byKeyId[id])

LastOf(area, t) ==
    {x.value : x \in {area[i] : i \in {n \in DOMAIN area :
        /\ area[n].type = t
        /\ \A m \in n + 1..Len(area) : area[m].type # t}}}

\* All that has to be understood is, and there is a time that is signed.
Understood(s) ==
    /\ LastOf(s.hashed, "sign_time") # {}
    /\ \A x \in ToSet(s.hashed \o s.unhashed) :
           x.good /\ (x.critical => x.type \in {"sign_time", "key_id"})

Readable(s) == s.value /\ (s.alg = "DSA" => s.hash = "SHA1")

\* The primary key of u was not revoked when s was made.
Valid(s, u) ==
    ring[u].revocation = -1 \/ \A n \in LastOf(s.hashed, "sign_time") : n =< ring[u].revocation

\* The packet d of u can be asked about s.
Has(u, d) == d \in {u} \union DOMAIN ring[u].subkeys
Checks(s, d) ==
    /\ Alg[d] \in {"RSA", "DSA"} /\ d \notin Broken
    /\ s.alg \in {"RSA sign-only", Alg[d]} /\ (s.alg = "RSA sign-only" => Alg[d] = "RSA")

\* A key of the ring that had not been revoked made s, which says nothing else.
MadeBy(s, u, d) ==
    /\ Has(u, d) /\ Valid(s, u) /\ Checks(s, d)
    /\ s.by = d /\ s.prefix
    /\ LastOf(s.hashed, "key_id") \subseteq {KeyID[d]}

TooSmall(s, d) == Alg[d] = "RSA" /\ s.ver = 3 /\ s.hash = "SHA256" /\ d \in Small

\* A signature is good exactly if a packet of a key whose primary key was not revoked
\* when it was made verifies it, under the id that the signature vouches for; that
\* subkeys are revoked is not looked at, and one of RSA has to be of version 2 or 3
\* and the key large enough.  It is bad only if the one key that has its id had the
\* means to check it, or had been revoked: an unknown algorithm and a second key leave
\* it open.  One with a subpacket that has to be understood and is not, without a time
\* that is signed, or with a value that cannot be read, is never good, whoever made it,
\* and only the last of these ends in an exception.
VerdictsSound ==
    place = "idle" =>
        \A s \in Signature :
            LET signed == LastOf(s.hashed, "key_id")
                id == signed \union (IF signed = {} THEN LastOf(s.unhashed, "key_id") ELSE {})
                owners == {u \in DOMAIN ring : \E d \in DOMAIN KeyID : Has(u, d) /\ KeyID[d] \in id}
                good == \E u \in DOMAIN ring, d \in DOMAIN KeyID :
                            /\ MadeBy(s, u, d)
                            /\ Alg[d] = "RSA" => s.ver = 3 /\ ~TooSmall(s, d)
                bad == \E u \in owners :
                           /\ owners = {u}
                           /\ ~Valid(s, u) \/ \A d \in DOMAIN KeyID :
                                  (Has(u, d) /\ KeyID[d] \in id) => Checks(s, d) /\ (s.prefix => ~TooSmall(s, d))
                verdict == VerifySignatureTag(s)
            IN  IF Understood(s) /\ Readable(s) THEN verdict = IF good THEN 1 ELSE IF bad THEN -1 ELSE 0
                ELSE verdict # 1 /\ (verdict = ValueError => ~Readable(s))

=============================================================================
