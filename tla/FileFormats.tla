----------------------------- MODULE FileFormats -----------------------------
(***************************************************************************)
(* The byte formats passman reads back: the vault file of passman-vault,   *)
(* the recovery file of passman-recovery, and the wrap blobs of            *)
(* passman-hsm with the payloads of the Android and TPM backends.          *)
(*                                                                         *)
(* A file is a sequence of cells: one cell stands for one fixed-width      *)
(* field or length prefix, and for one byte of a body.  Encryption is      *)
(* ideal: a ciphertext is its plaintext and a tag, and opens only under    *)
(* the key, nonce and associated data it was sealed with.  A document is   *)
(* written once; what the disk does to the file is an edit.                *)
(***************************************************************************)
EXTENDS Naturals, SequencesExt

CONSTANTS
    Max16,      \* the largest length a u16 prefix can hold
    Bucket,     \* the padding bucket
    FloorM, FloorT, MaxM, MaxT, MaxP,  \* limits on Argon2 parameters
    Vaults, Recoveries, Blobs,    \* the documents that are written
    MaxCell,    \* the largest value that damage leaves in a cell
    MaxEdits,
    Refused

ASSUME FormatAssumption ==
    /\ {Max16, Bucket, FloorM, FloorT, MaxM, MaxT, MaxP} \subseteq Nat \ {0}
    /\ FloorM =< MaxM /\ FloorT =< MaxT
    /\ MaxCell \in 0 .. Max16

-----------------------------------------------------------------------------
(* Writing and reading fields *)

\* push_u32_prefixed: a u32 holds every length here.
Prefixed(body) == <<Len(body)>> \o body

\* push_u16_prefixed clamps the length and writes the whole body.
Prefixed16(body) == <<IF Len(body) > Max16 THEN Max16 ELSE Len(body)>> \o body

\* check_blob_len, from_parts and the u16 conversions of the payload codecs
Fits16(body) == Len(body) =< Max16

Joined(seqs) == FlattenSeq(seqs)

\* Reader: the unread rest, the fields read, and whether a read has failed
Reader(bytes) == [rest |-> bytes, got |-> <<>>, ok |-> TRUE]

\* Reader::take, checked against what remains
Take(r, n) ==
    IF n > Len(r.rest) THEN [r EXCEPT !.ok = FALSE]
    ELSE [r EXCEPT !.got = Append(@, SubSeq(r.rest, 1, n)),
                   !.rest = SubSeq(@, n + 1, Len(@))]

\* read_u8 .. read_i64_le and take_array read a "cell", read_u32_prefixed_vec a
\* "body" and read_u16_prefixed_vec a "body16", whose cell no larger number fits.
ReadField(r, field) ==
    IF ~r.ok \/ r.rest = <<>> \/ (field = "body16" /\ Head(r.rest) > Max16)
    THEN [r EXCEPT !.ok = FALSE]
    ELSE IF field = "cell"
         THEN [r EXCEPT !.got = Append(@, Head(r.rest)), !.rest = Tail(@)]
         ELSE Take([r EXCEPT !.rest = Tail(@)], Head(r.rest))

\* One field after another
ReadAll(r, layout) ==
    LET read[i \in 0 .. Len(layout)] ==
            IF i = 0 THEN r ELSE ReadField(read[i - 1], layout[i])
    IN  read[Len(layout)]

\* A counted loop over groups of fields, each of them gathered into one value
ReadGroups(r, n, layout) ==
    LET Group(before) ==
            LET one == ReadAll([before EXCEPT !.got = <<>>], layout)
            IN  [one EXCEPT !.got = Append(before.got, @)]
        read[i \in 0 .. n] == IF i = 0 THEN [r EXCEPT !.got = <<>>] ELSE Group(read[i - 1])
    IN  read[n]

\* Mutant: whatever follows the last field is left alone.
AnyEnd(r) == r.ok

\* Reader::expect_eof
ExpectEof(r) == r.ok /\ r.rest = <<>>

Cells(n) == [i \in 1 .. n |-> "cell"]

-----------------------------------------------------------------------------
(* Argon2 parameters <<m, t, p>> and the host's memory *)

\* KdfParams::within_limits
WithinLimits(kdf) ==
    /\ kdf[1] \in 8 * kdf[3] .. MaxM /\ kdf[2] \in 1 .. MaxT /\ kdf[3] \in 1 .. MaxP

\* memory_cost_fits: 80% of what is available, in whole fifths
MemoryCostFits(m, available) == m =< (available \div 5) * 4

\* argon2id_within_memory; 0 for memory that could not be measured
Derivable(kdf, available) ==
    WithinLimits(kdf) /\ (available # 0 => MemoryCostFits(kdf[1], available))

\* meets_floor of the recovery file
MeetsFloor(kdf) == kdf[1] >= FloorM /\ kdf[2] >= FloorT /\ kdf[3] >= 1

-----------------------------------------------------------------------------
(* Ideal authenticated encryption *)

Sealing(key, nonce, ad, plain) ==
    [key |-> key, nonce |-> nonce, ad |-> ad, ct |-> Append(plain, 0)]

\* aead::decrypt: too short a ciphertext fails like a wrong one.
Opened(seals, key, nonce, ad, ct) ==
    IF [key |-> key, nonce |-> nonce, ad |-> ad, ct |-> ct] \in seals THEN Front(ct) ELSE Refused

-----------------------------------------------------------------------------
(* record.rs and the index of vault.rs: plaintexts padded to a bucket *)

Padding(n) == [i \in 1 .. (Bucket - (n % Bucket)) % Bucket |-> 0]

\* encode_padded and pad_index_plaintext: the true length, the body, zeros
Padded(body) == Prefixed(body) \o Padding(Len(body) + 1)

\* strip_index_padding
Stripped(plain) ==
    IF plain = <<>> \/ Head(plain) >= Len(plain) THEN Refused
    ELSE SubSeq(plain, 2, Head(plain) + 1)

\* EntryRecord::encode_padded of the four fields
EncodeRecord(fields) == Padded(Joined([i \in 1 .. 4 |-> Prefixed(fields[i])]))

\* EntryRecord::decode: four fields that fill exactly the true length
DecodeRecord(plain) ==
    LET region == Stripped(plain)
        r      == ReadAll(Reader(region), [i \in 1 .. 4 |-> "body"])
    IN  IF region = Refused THEN Refused ELSE IF ExpectEof(r) THEN r.got ELSE Refused

\* Mutant: a version 1 index is padded like a version 2 one.
AlwaysPadded(version, rows) == Padded(rows)

\* seal_index: version 1 has no padding.
IndexPlaintext(version, rows) == IF version = 1 THEN rows ELSE Padded(rows)

\* decrypt_index, after the decryption: the rows <<id, label>> behind a count
IndexRows(version, plain) ==
    LET body == IF version = 1 THEN plain ELSE Stripped(plain)
        r    == ReadGroups(Reader(Tail(body)), Head(body), Cells(2))
    IN  IF body = Refused \/ body = <<>> \/ ~r.ok THEN Refused ELSE r.got

-----------------------------------------------------------------------------
(* The vault file.  A vault document holds what an opened vault shows: its  *)
(* entries <<id, label, fields>>, in the order of its envelopes.            *)

MasterKey(v) == <<"master", v.kdf, v.salt>>
EntryKey(v, id) == <<"entry", v.kdf, v.salt, id>>
IndexKey(v) == <<"index", v.kdf, v.salt>>

\* probe_associated_data and entry_associated_data
ProbeAD(v) == <<v.version, v.kdfId>> \o v.kdf \o <<v.salt>>
EntryAD(v, id) == <<v.version, id>>

ProbePlaintext == <<5>>
IndexOf(entries) ==
    <<Len(entries)>> \o Joined([i \in DOMAIN entries |-> <<entries[i][1], entries[i][2]>>])

\* Vault::create, seal_index and encrypt_entry, each with a fresh nonce
ProbeSealing(v) == Sealing(MasterKey(v), 1, ProbeAD(v), ProbePlaintext)
IndexSealing(v, entries) ==
    Sealing(IndexKey(v), 2, <<v.version>>, IndexPlaintext(v.version, IndexOf(entries)))
EntrySealing(v, i, entry) ==
    Sealing(EntryKey(v, entry[1]), 2 + i, EntryAD(v, entry[1]), EncodeRecord(entry[3]))

VaultSeals(v) ==
    {ProbeSealing(v), IndexSealing(v, v.entries)}
        \cup {EntrySealing(v, i, v.entries[i]) : i \in DOMAIN v.entries}

Envelope(seal, id) == [id |-> id, nonce |-> seal.nonce, ct |-> seal.ct]

\* The Vault of a document, after add_or_update_entry of each of its entries
VaultOf(v) ==
    [version |-> v.version, kdfId |-> v.kdfId, kdf |-> v.kdf, salt |-> v.salt,
     probe |-> <<ProbeSealing(v).nonce>> \o ProbeSealing(v).ct,
     blobs |-> v.blobs, lockout |-> v.lockout, exported |-> v.exported,
     index |-> Envelope(IndexSealing(v, v.entries), 0),
     envelopes |-> [i \in DOMAIN v.entries |->
                        Envelope(EntrySealing(v, i, v.entries[i]), v.entries[i][1])]]

\* to_bytes; blobs are those of the vault key and the TOTP seed, lockout the
\* counter, the last failure and the last password change
ToBytes(v) ==
    <<v.version, v.kdfId>> \o v.kdf \o <<v.salt>> \o v.probe
    \o Prefixed16(v.blobs[1]) \o Prefixed16(v.blobs[2]) \o v.lockout
    \o (IF v.exported = <<>> THEN <<0, 0>> ELSE <<1>> \o v.exported)
    \o <<v.index.nonce>> \o Prefixed(v.index.ct) \o <<Len(v.envelopes)>>
    \o Joined([i \in DOMAIN v.envelopes |->
                  <<v.envelopes[i].id, v.envelopes[i].nonce>> \o Prefixed(v.envelopes[i].ct)])

VaultHead == Cells(9) \o <<"body16", "body16">> \o Cells(6) \o <<"body", "cell">>

\* from_bytes.  One read follows another, so a refusal of a value is refused
\* wherever the reading would have stopped.
FromBytes(file) ==
    LET head == ReadAll(Reader(file), VaultHead)
        n    == head.got[19]
        all  == ReadGroups(head, n, <<"cell", "cell", "body">>)
        g    == head.got
    IN  IF /\ head.ok /\ g[1] \in {1, 2} /\ g[2] = 0 /\ g[15] \in {0, 1}
           /\ ExpectEof(all)
        THEN [version |-> g[1], kdfId |-> g[2], kdf |-> SubSeq(g, 3, 5), salt |-> g[6],
              probe |-> SubSeq(g, 7, 9), blobs |-> SubSeq(g, 10, 11),
              lockout |-> SubSeq(g, 12, 14),
              exported |-> IF g[15] = 0 THEN <<>> ELSE <<g[16]>>,
              index |-> [id |-> 0, nonce |-> g[17], ct |-> g[18]],
              envelopes |-> [i \in 1 .. n |-> [id |-> all.got[i][1], nonce |-> all.got[i][2],
                                               ct |-> all.got[i][3]]]]
        ELSE Refused

\* verify_probe
ProbeVerified(v, seals) ==
    Opened(seals, MasterKey(v), v.probe[1], ProbeAD(v), Tail(v.probe)) = ProbePlaintext

\* Mutant: the lengths are compared and the ids are not.
SameLength(rows, envelopes) == Len(rows) = Len(envelopes)

\* check_index_envelope_sets
SameIds(rows, envelopes) ==
    /\ Len(rows) = Len(envelopes)
    /\ IsInjective([i \in DOMAIN rows |-> rows[i][1]])
    /\ IsInjective([i \in DOMAIN envelopes |-> envelopes[i].id])
    /\ {rows[i][1] : i \in DOMAIN rows} = {envelopes[i].id : i \in DOMAIN envelopes}

\* open_index
OpenIndex(v, seals) ==
    LET plain == Opened(seals, IndexKey(v), v.index.nonce, <<v.version>>, v.index.ct)
        rows  == IndexRows(v.version, plain)
    IN  IF plain = Refused \/ rows = Refused THEN Refused
        ELSE IF SameIds(rows, v.envelopes) THEN rows ELSE Refused

\* decrypt_entry of the first envelope with this id
DecryptEntry(v, seals, id) ==
    LET found == {i \in DOMAIN v.envelopes : v.envelopes[i].id = id}
        e     == v.envelopes[CHOOSE i \in found : \A j \in found : i =< j]
        plain == Opened(seals, EntryKey(v, id), e.nonce, EntryAD(v, id), e.ct)
    IN  IF found = {} THEN Refused
        ELSE IF plain = Refused THEN Refused ELSE DecodeRecord(plain)

\* App::unlock and the reads of a session: the rows, and the record of each
\* row; the header's cost is checked before the key is derived from it.
OpenVault(file, seals) ==
    LET v    == FromBytes(file)
        rows == OpenIndex(v, seals)
    IN  IF v = Refused THEN Refused
        ELSE IF ~(WithinLimits(v.kdf) /\ ProbeVerified(v, seals)) THEN Refused
        ELSE IF rows = Refused THEN Refused
        ELSE {<<rows[i][1], rows[i][2], DecryptEntry(v, seals, rows[i][1])>> :
                  i \in DOMAIN rows}

-----------------------------------------------------------------------------
(* The recovery file of a document [kdf, salt, seed, vaultKdf, entries,     *)
(* free], whose entries are an id and six fields; free is the memory that   *)
(* the exporting host measured.                                             *)

Magic == 7

\* encode_payload
EncodePayload(d) ==
    <<1, d.seed>> \o d.vaultKdf \o <<Len(d.entries)>>
    \o Joined([i \in DOMAIN d.entries |->
                  <<d.entries[i][1]>> \o Joined([f \in 1 .. 6 |-> Prefixed(d.entries[i][2][f])])])

\* decode_payload
DecodePayload(plain) ==
    LET head == ReadAll(Reader(plain), Cells(6))
        n    == head.got[6]
        all  == ReadGroups(head, n, <<"cell">> \o [f \in 1 .. 6 |-> "body"])
    IN  IF head.ok /\ head.got[1] = 1 /\ ExpectEof(all)
        THEN [seed |-> head.got[2], vaultKdf |-> SubSeq(head.got, 3, 5),
              entries |-> [i \in 1 .. n |-> <<all.got[i][1], Tail(all.got[i])>>]]
        ELSE Refused

\* The key that derive_recovery_key makes of the password, and seal's nonce
RecoverySealing(d) ==
    Sealing(<<"recovery", d.kdf, d.salt>>, 1, <<Magic>>, EncodePayload(d))

\* export_within_memory and seal
Exported(d) ==
    IF MeetsFloor(d.kdf) /\ Derivable(d.kdf, d.free)
    THEN <<Magic, 1, 0>> \o d.kdf \o <<d.salt, RecoverySealing(d).nonce>>
         \o Prefixed(RecoverySealing(d).ct)
    ELSE Refused

\* import_within_memory
Imported(file, seals, free) ==
    LET r     == ReadAll(Reader(file), Cells(8) \o <<"body">>)
        g     == r.got
        kdf   == SubSeq(g, 4, 6)
        plain == Opened(seals, <<"recovery", kdf, g[7]>>, g[8], <<Magic>>, g[9])
    IN  IF ~(ExpectEof(r) /\ g[1] = Magic /\ g[2] = 1 /\ g[3] = 0) THEN Refused
        ELSE IF ~Derivable(kdf, free) \/ g[9] = <<>> \/ plain = Refused THEN Refused
        ELSE DecodePayload(plain)

-----------------------------------------------------------------------------
(* Wrap blobs [kind, parts]: an Android payload is <<alias, iv, ciphertext>>,*)
(* a TPM payload <<uuid, public, private>>, any other the bytes themselves.  *)

\* HsmKind::to_byte and from_byte
Android == 2
Tpm == 0
KindBytes == {Tpm, 1, Android, 3, 4, 255}

\* encode_payload of the Android backend, with its u16 conversions
EncodeAndroid(parts) ==
    IF Fits16(parts[1]) /\ Fits16(parts[3])
    THEN Prefixed16(parts[1]) \o <<parts[2]>> \o Prefixed16(parts[3]) ELSE Refused

\* encode_payload of the TPM backend
EncodeTpm(parts) ==
    IF Fits16(parts[2]) /\ Fits16(parts[3])
    THEN <<0, parts[1]>> \o Prefixed16(parts[2]) \o Prefixed16(parts[3]) ELSE Refused

EncodeParts(kind, parts) ==
    CASE kind = Android -> EncodeAndroid(parts)
      [] kind = Tpm -> EncodeTpm(parts)
      [] OTHER -> parts

\* decode_payload of the Android backend, whose ciphertext holds its tag
DecodeAndroid(payload) ==
    LET r == ReadAll(Reader(payload), <<"body16", "cell", "body16">>)
    IN  IF ~ExpectEof(r) \/ r.got[3] = <<>> THEN Refused ELSE r.got

\* decode_payload of the TPM backend: no PCR policy
DecodeTpm(payload) ==
    LET r == ReadAll(Reader(payload), <<"cell", "cell", "body16", "body16">>)
    IN  IF ~ExpectEof(r) \/ r.got[1] # 0 THEN Refused ELSE Tail(r.got)

DecodeParts(kind, payload) ==
    CASE kind = Android -> DecodeAndroid(payload)
      [] kind = Tpm -> DecodeTpm(payload)
      [] OTHER -> payload

\* WrappedBlob::from_parts, which bounds the payload, and to_bytes
BlobBytes(d) ==
    LET payload == EncodeParts(d.kind, d.parts)
    IN  IF payload = Refused \/ ~Fits16(payload) THEN Refused
        ELSE <<0, d.kind>> \o Prefixed16(payload)

\* WrappedBlob::from_bytes and the decoding of its payload
BlobParts(file) ==
    LET r     == ReadAll(Reader(file), <<"cell", "cell", "body16">>)
        parts == DecodeParts(r.got[2], r.got[3])
    IN  IF ~(ExpectEof(r) /\ r.got[1] = 0 /\ r.got[2] \in KindBytes) \/ parts = Refused
        THEN Refused
        ELSE [kind |-> r.got[2], parts |-> parts]

-----------------------------------------------------------------------------
(* What is written *)

IsVault(v) ==
    /\ v.version \in {1, 2} /\ v.kdfId = 0
    /\ v.kdf \in [1 .. 3 -> Nat] /\ WithinLimits(v.kdf) /\ v.salt \in Nat
    /\ v.blobs \in [1 .. 2 -> Seq(Nat)] /\ v.lockout \in [1 .. 3 -> Nat]
    /\ v.exported \in Seq(Nat) /\ Len(v.exported) =< 1
    /\ v.entries \in Seq(Nat \X Nat \X [1 .. 4 -> Seq(Nat)])
    /\ IsInjective([i \in DOMAIN v.entries |-> v.entries[i][1]])

IsRecovery(d) ==
    /\ d.kdf \in [1 .. 3 -> Nat] /\ d.salt \in Nat /\ d.seed \in Nat
    /\ d.vaultKdf \in [1 .. 3 -> Nat] /\ d.free \in Nat
    /\ d.entries \in Seq(Nat \X [1 .. 6 -> Seq(Nat)])

IsBlob(d) ==
    \/ d \in [kind : {Android}, parts : Seq(Nat) \X Nat \X (Seq(Nat) \ {<<>>})]
    \/ d \in [kind : {Tpm}, parts : Nat \X Seq(Nat) \X Seq(Nat)]
    \/ d \in [kind : KindBytes \ {Android, Tpm}, parts : Seq(Nat)]

ASSUME DocumentAssumption ==
    /\ \A v \in Vaults : IsVault(v)
    /\ \A d \in Recoveries : IsRecovery(d)
    /\ \A d \in Blobs : IsBlob(d)
    /\ Refused \notin Seq(Nat \cup Seq(Nat)) /\ \A v \in Vaults : VaultOf(v) # Refused

-----------------------------------------------------------------------------
VARIABLES
    format,     \* "none", or the format of the document
    document,
    file,       \* the cells on disk
    edits       \* how often the disk changed them

fileVars == <<format, document, file, edits>>

FileInit == format = "none" /\ document = Refused /\ file = <<>> /\ edits = 0

Written(f, d, bytes) ==
    /\ format = "none"
    /\ format' = f /\ document' = d /\ file' = bytes
    /\ UNCHANGED edits

\* Vault::create and set_hsm_blobs refuse a blob that its prefix cannot count.
WriteVault ==
    \E d \in Vaults :
        /\ \A i \in 1 .. 2 : Fits16(d.blobs[i])
        /\ Written("vault", d, ToBytes(VaultOf(d)))

WriteRecovery ==
    \E d \in Recoveries : Exported(d) # Refused /\ Written("recovery", d, Exported(d))

WriteBlob == \E d \in Blobs : BlobBytes(d) # Refused /\ Written("blob", d, BlobBytes(d))

Damaged(bytes) ==
    /\ format # "none" /\ edits < MaxEdits
    /\ file' = bytes /\ bytes # file
    /\ edits' = edits + 1
    /\ UNCHANGED <<format, document>>

CutShort == \E n \in 0 .. Len(file) - 1 : Damaged(SubSeq(file, 1, n))

Extend == \E c \in 0 .. 1 : Damaged(Append(file, c))

ChangeCell ==
    \E i \in DOMAIN file, c \in 0 .. MaxCell :
        c \in {0, file[i] + 1, MaxCell} /\ Damaged([file EXCEPT ![i] = c])

\* Whole envelopes lost, repeated or exchanged behind a count that agrees
Rearrange ==
    LET v == FromBytes(file) IN
    /\ format = "vault" /\ v # Refused
    /\ \E n \in 0 .. Len(v.envelopes) + 1 :
       \E e \in [1 .. n -> ToSet(v.envelopes)] :
           Damaged(ToBytes([v EXCEPT !.envelopes = e]))

FileNext ==
    \/ WriteVault \/ WriteRecovery \/ WriteBlob
    \/ CutShort \/ Extend \/ ChangeCell \/ Rearrange

FileSpec == FileInit /\ [][FileNext]_fileVars

-----------------------------------------------------------------------------
Seals == IF format = "vault" THEN VaultSeals(document) ELSE {RecoverySealing(document)}

\* What is written is read back: every row and record of a vault of either
\* version, with its padding stripped, every entry of a recovery file on a
\* host with the exporter's memory, and both halves of a hardware payload.
RoundTrips ==
    edits = 0 =>
    CASE format = "vault" ->
            /\ FromBytes(file) = VaultOf(document)
            /\ OpenVault(file, Seals) = ToSet(document.entries)
      [] format = "recovery" ->
            Imported(file, Seals, document.free) =
                [seed |-> document.seed, vaultKdf |-> document.vaultKdf,
                 entries |-> document.entries]
      [] format = "blob" -> BlobParts(file) = document
      [] OTHER -> TRUE

\* A vault that opens has exactly the rows that were written, an envelope for
\* each of them and no other, and each record is the written one or refused; a
\* recovery file is accepted only as written.
\* No parser passes over a cell: what it accepts encodes to the same cells,
\* but for the timestamp of a vault that was never exported.
WholeOrRefused ==
    LET parsed == FromBytes(file)
        opened == OpenVault(file, Seals)
        Row(e) == <<e[1], e[2]>>
        Canonical == IF parsed.exported = <<>>
                     THEN Len(ToBytes(parsed)) = Len(file) ELSE ToBytes(parsed) = file
    IN  CASE format = "vault" ->
                /\ parsed # Refused => Canonical
                /\ opened # Refused =>
                    /\ {Row(e) : e \in opened} = {Row(e) : e \in ToSet(document.entries)}
                    /\ Len(parsed.envelopes) = Len(document.entries)
                    /\ {e.id : e \in ToSet(parsed.envelopes)}
                           = {e[1] : e \in ToSet(document.entries)}
                    /\ \A e \in opened : e[3] # Refused => e \in ToSet(document.entries)
          [] format = "recovery" ->
                Imported(file, Seals, 0) # Refused => file = Exported(document)
          [] format = "blob" -> BlobParts(file) # Refused => BlobBytes(BlobParts(file)) = file
          [] OTHER -> TRUE
=============================================================================
