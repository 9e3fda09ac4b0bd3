----------------------------- MODULE PayloadCodec -----------------------------
(***************************************************************************)
(* The payload codecs of encryption.py and _codec.py.                      *)
(*                                                                         *)
(* A payload has an encoding, the name of its key (the encryption key it   *)
(* was sealed with, or the blob it stands for) and a content.  Encryption  *)
(* is ideal: without its key a sealed payload cannot be opened, nor taken  *)
(* for another.  Worker processes may be set up differently, with another  *)
(* codec or another key.                                                   *)
(***************************************************************************)
EXTENDS Naturals

CONSTANTS
  Key,     \* encryption keys
  None     \* no key, no content

ASSUME CodecAssumption == (Key \cup {None}) \cap Nat = {} /\ None \notin Key

\* How a process is set up: its data converter's codec, and that codec's key.
Codec == {"none", "aes", "fernet", "blob"}
Setup == [codec : Codec, key : Key \cup {None}]

Payload(Content) ==
  [enc : Codec, key : Key \cup Nat \cup {None}, content : Content \cup {None}]

\* The converter's payload, which every codec is given.
Plain(v) == [enc |-> "none", key |-> None, content |-> v]

\* EncryptionCodec and FernetEncryptionCodec seal every payload.
Seal(s, v) == [enc |-> s.codec, key |-> s.key, content |-> v]

\* What LargePayloadCodec puts in the place of a large payload.
BlobRef(id) == [enc |-> "blob", key |-> id, content |-> None]

Offloads(s, large) == s.codec = "blob" /\ large

Encoded(s, v, large, id) ==
  CASE s.codec \in {"aes", "fernet"} -> Seal(s, v)
    [] Offloads(s, large) -> BlobRef(id)
    [] OTHER -> Plain(v)

\* Bug: a codec without a key of its own takes the sealed bytes for the payload.
BugOpensAnything(s, p) == {IF s.key = p.key THEN p.content ELSE None}

\* Decryption is tried with the process's key, whatever key id the metadata names.
Open(s, p) == IF s.key = p.key THEN {p.content} ELSE {}

\* blobs: from the blobs a process can fetch to their content.
Fetch(blobs, p) == IF p.key \in DOMAIN blobs THEN {blobs[p.key]} ELSE {}

\* What a process reads from a payload; the empty set if it cannot.  A codec passes on
\* what another one encoded, and the converter knows no such encoding.
Decoded(s, blobs, p) ==
  CASE p.enc = "none" -> {p.content}
    [] p.enc = "blob" /\ s.codec = "blob" -> Fetch(blobs, p)
    [] p.enc \in {"aes", "fernet"} /\ s.codec = p.enc -> Open(s, p)
    [] OTHER -> {}
=============================================================================
