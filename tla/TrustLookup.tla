----------------------------- MODULE TrustLookup -----------------------------
(* The sequential half of library/database.c: how a backend line becomes a    *)
(* record, how a record is parsed again, how a path is judged by its records, *)
(* and how a database is compared with the backends at startup.               *)
(*                                                                            *)
(* A text is the sequence of its words, with an empty word between two        *)
(* adjacent blanks.  A digest is its algorithm and a value; the value of the  *)
(* file's content is "content".                                               *)
EXTENDS Integers, Sequences, FiniteSets, SequencesExt

CONSTANTS
    MAX_DUPLICATES,     \* 128 in read_trust_db()
    INT64_MAX           \* the largest off_t, above the sizes in use

MAX_DELIMS == 3
Malformed == [path |-> <<>>, data |-> <<>>]

\* trust_db_record_from_line(): the last three words are the data, everything
\* before them is the path; with fewer blanks the path is the first word.
record_from_line(line) ==
    LET n == IF Len(line) > MAX_DELIMS THEN Len(line) - MAX_DELIMS ELSE 1 IN
    IF Len(line) < 2 THEN Malformed
    ELSE [path |-> SubSeq(line, 1, n), data |-> SubSeq(line, n + 1, Len(line))]

\* The line a backend writes: the path, DATA_FORMAT, end of line.
backend_line(path, src, size, digest) == path \o <<src, size, digest>>

-----------------------------------------------------------------------------
(* parse_lmdb_record(): a source, a size that fits off_t, and a digest whose  *)
(* length names its algorithm.  A word is a number or a string, of which only *)
(* the length matters.                                                        *)

Number(n) == [kind |-> "number", n |-> n]
Word(len) == [kind |-> "word", n |-> len]
NoRecord == [ok |-> FALSE]

trustdb_size_to_off_t(n) == n <= INT64_MAX

lmdb_scan_record(data) ==
    /\ Len(data) >= 3
    /\ data[1].kind = "number"
    /\ data[2].kind = "number" /\ data[2].n >= 0 /\ trustdb_size_to_off_t(data[2].n)
    /\ data[3].kind = "word" /\ data[3].n \in 1 .. 128

\* Digests are padded to no length: the first algorithm that is long enough.
file_hash_alg_fast(len) ==
    CASE len <= 32 -> "md5"
      [] len > 32 /\ len <= 40 -> "sha1"
      [] len > 40 /\ len <= 64 -> "sha256"
      [] OTHER -> "sha512"

parse_lmdb_record(data) ==
    IF ~lmdb_scan_record(data) THEN NoRecord
    ELSE [ok |-> TRUE, tsource |-> data[1].n, size |-> data[2].n,
          alg |-> file_hash_alg_fast(data[3].n)]

-----------------------------------------------------------------------------
(* read_trust_db(): the duplicates of a path are tried in LMDB's order until  *)
(* one matches, an error ends the search, or there are too many.              *)
(*   file = [size, ima: the digest in the xattr or NoDigest, readable]        *)
(*   conf = [integrity, rpm_sha256_only]                                      *)

NoDigest == [alg |-> "none", value |-> "none"]
Content(alg) == [alg |-> alg, value |-> "content"]
Weak(alg) == alg \in {"md5", "sha1"}

Trusted == [res |-> 1, error |-> FALSE]
Untrusted == [res |-> 0, error |-> FALSE]
Failed == [res |-> 0, error |-> TRUE]

DigestFloor(conf, r) ==
    conf.rpm_sha256_only /\ conf.integrity \in {"sha256", "ima"} /\ Weak(r.digest.alg)

Matches(r, file, digest) == r.size = file.size /\ r.digest = digest

RECURSIVE read_trust_db(_, _, _, _, _)

\* rs: the records from the next duplicate on; n: the reads so far; rehashed:
\* the content was hashed with the xattr's algorithm already.
read_trust_db(rs, file, conf, n, rehashed) ==
    LET r == Head(rs)
        next(h) == read_trust_db(Tail(rs), file, conf, n + 1, h)
    IN  CASE n + 1 >= MAX_DUPLICATES -> Failed
          [] OTHER ->
        CASE rs = <<>> -> Untrusted
          [] rs # <<>> /\ conf.integrity = "none" -> Trusted
          [] rs # <<>> /\ conf.integrity # "none" ->
        CASE ~r.ok -> Failed
          [] r.ok /\ DigestFloor(conf, r) -> next(rehashed)
          [] r.ok /\ ~DigestFloor(conf, r) ->
        CASE conf.integrity = "size" ->
                IF r.size = file.size THEN Trusted ELSE next(rehashed)
          [] conf.integrity = "sha256" ->
                IF ~file.readable THEN Failed
                ELSE IF Matches(r, file, Content(r.digest.alg)) THEN Trusted
                ELSE next(rehashed)
          [] conf.integrity = "ima" ->
                IF file.ima = NoDigest THEN Failed
                ELSE IF Matches(r, file, file.ima) THEN Trusted
                ELSE IF rehashed THEN next(TRUE)
                ELSE IF ~file.readable THEN Failed
                ELSE IF Matches(r, file, Content(file.ima.alg)) THEN Trusted
                ELSE next(TRUE)

verdict(v) == IF v.error THEN -1 ELSE v.res

\* check_trust_database_with_read(): on a system whose top directories are links
\* into /usr, a path that is not trusted is looked up without /usr as well.
\* alias = [linked, records]: whether the path is below such a directory, and
\* the records of the shorter path.
check_trust_database(rs, alias, file, conf) ==
    LET first == read_trust_db(rs, file, conf, 0, FALSE) IN
    IF verdict(first) # 0 \/ ~alias.linked THEN verdict(first)
    ELSE verdict(read_trust_db(alias.records, file, conf, 0, FALSE))

\* What a record says of the file, whatever the other records.
Vouches(r, file, conf) ==
    /\ r.ok \/ conf.integrity = "none"
    /\ conf.integrity # "none" => ~DigestFloor(conf, r)
    /\ CASE conf.integrity = "none" -> TRUE
         [] conf.integrity = "size" -> r.size = file.size
         [] conf.integrity = "sha256" -> Matches(r, file, Content(r.digest.alg))
         [] conf.integrity = "ima" -> Matches(r, file, file.ima)

\* With IMA, a digest of the content counts too, but in one record only: the first
\* of the path that the digest floor does not pass over.
RehashVouches(rs, file, conf) ==
    LET kept == SelectSeq(rs, LAMBDA r : ~(r.ok /\ DigestFloor(conf, r)))
    IN  /\ conf.integrity = "ima" /\ kept # <<>>
        /\ kept[1].ok /\ Matches(kept[1], file, Content(file.ima.alg))

\* Unless the lookup fails, a file is trusted exactly when some record of its path,
\* or of the path without /usr where that is a link, vouches for it under the
\* configured integrity and digest floor.  But for IMA that is a fact about the
\* records and not about the order LMDB keeps them in.  With IMA it is not: a file
\* whose attribute no record has is trusted for its content when the record of that
\* content comes first, and is untrusted when the same record comes later.
TrustedAsRecorded(rs, alias, file, conf) ==
    LET lists == {rs} \union (IF alias.linked THEN {alias.records} ELSE {})
        v == check_trust_database(rs, alias, file, conf)
    IN  v # -1 => (v = 1 <=> \E l \in lists :
                                \/ \E r \in ToSet(l) : Vouches(r, file, conf)
                                \/ RehashVouches(l, file, conf))

-----------------------------------------------------------------------------
(* check_database_copy(): the lines of the backends against the database, a   *)
(* set of records.  NoSnapshot stands for a backend without a memfd.          *)

NoSnapshot == <<[path |-> <<"no memfd">>, data |-> <<>>]>>

\* Mutant: a record whose data differ counts as present.
check_data_presence_KeyOnly(db, r) == \E s \in db : s.path = r.path

check_data_presence(db, r) == r \in db
SamePath(db, r) == {s \in db : s.path = r.path}

Lines(b) == {i \in DOMAIN b : b[i] # Malformed}
Missing(b, db) == {i \in Lines(b) : ~check_data_presence(db, b[i])}
Added(b, db) == {i \in Lines(b) : SamePath(db, b[i]) = {}}

check_from_memfd(b, db) ==
    IF b = NoSnapshot THEN [entries |-> 0, problems |-> 1, added |-> 0]
    ELSE [entries |-> Len(b), problems |-> Cardinality(Missing(b, db)),
          added |-> Cardinality(Added(b, db))]

Abs(n) == IF n < 0 THEN -n ELSE n

check_database_copy(backends, db) ==
    LET r == [i \in DOMAIN backends |-> check_from_memfd(backends[i], db)]
        total(f) == FoldLeft(LAMBDA n, c : n + c[f], 0, r)
        removed == Abs(Cardinality(db) - (total("entries") - total("added")))
    IN  IF total("problems") + removed = 0 THEN 0 ELSE 1

\* do_memfd_update_to_dbi(): malformed lines are skipped, equal records merge.
import(backends) ==
    UNION {{backends[i][j] : j \in Lines(backends[i])} :
               i \in {k \in DOMAIN backends : backends[k] # NoSnapshot}}

\* Every backend delivered a snapshot of well-formed lines, none of them twice.
Distinct(backends) ==
    /\ \A i \in DOMAIN backends :
          backends[i] # NoSnapshot /\ Lines(backends[i]) = DOMAIN backends[i]
    /\ Cardinality(import(backends))
         = FoldLeft(LAMBDA n, b : n + Len(b), 0, backends)

\* The startup check accepts a database exactly when an import of the backends
\* would rebuild it: the count of entries makes up for the records of the
\* database that no line asks about.
CopyCheckExact(backends, db) ==
    Distinct(backends) => (check_database_copy(backends, db) = 0 <=> import(backends) = db)

\* A record comes back from the line a backend wrote for it, blanks in the path
\* included.
LineRoundTrip(path, data) ==
    record_from_line(backend_line(path, data[1], data[2], data[3])) = [path |-> path, data |-> data]

=============================================================================
