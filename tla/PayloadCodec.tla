---------------------------- MODULE PayloadCodec ----------------------------
(***************************************************************************)
(* Temporal payloads (temporalpayload, temporalpayload/s3). A worker's     *)
(* codec keeps the strictly smallest of a payload as it is, compressed, or *)
(* stored in the blob bucket under the digest of its wire form with a      *)
(* fixed-size reference in its place. The blob is put before the reference *)
(* is returned; the bucket creates an object once and never overwrites it. *)
(* A collector lists old objects and deletes those without a reference     *)
(* through the RetentionCoordinator, whose contract is modelled (external).*)
(* A payload is its identity and the sizes of its wire forms; the wire     *)
(* form and its SHA-256 stand for each other.                              *)
(***************************************************************************)
EXTENDS Integers, Sequences, FiniteSets

CONSTANTS Source,          \* payloads the data converter hands to the codec
          WireSize,        \* WireSize[p]: size of the payload's own wire form
          ZstdSize,        \* ZstdSize[p]: size of its compressed wire form
          referenceWireSize,
          BlobLimits,      \* values of maximumBlobBytes over the deployed codecs
          CodecWorker,     \* concurrent Encode calls
          MinimumAge, MaxAge,   \* the collector's minimum age; bound on the clock
          MaxHistory       \* bound on recorded payloads

ASSUME PayloadAssumption ==
    /\ WireSize \in [Source -> Nat \ {0}]
    /\ ZstdSize \in [Source -> Nat \ {0}]
    /\ {referenceWireSize, MinimumAge, MaxAge, MaxHistory} \subseteq Nat
    /\ BlobLimits \subseteq Nat \ {0}

VARIABLES encoder,   \* each Encode call: where it is, its limit, source and winner
          bucket,    \* blob key -> [wire, made]: stored bytes and creation time
          workflowHistory,   \* encoded payloads Temporal recorded, each with its source
          fenced,    \* keys for which the coordinator refuses new references
          candidates,\* objects the collector listed and still has to judge
          age        \* the clock

payloadVars == <<encoder, bucket, workflowHistory, fenced, candidates, age>>

Corrupt == "corrupt"

\* A wire form: the payload itself, its compressed form, or a reference to one.
Wire(p, form) == [form |-> form, source |-> p, of |-> "itself"]

SizeOf(wire) == IF wire.form = "zstd" THEN ZstdSize[wire.source] ELSE WireSize[wire.source]

Reference(wire) == [form |-> "remote", source |-> wire.source, of |-> wire.form]

KeyOf(reference) == Wire(reference.source, reference.of)

\* encodeOne up to the store: compression wins when it is strictly smaller.
Winner(p) == Wire(p, IF ZstdSize[p] < WireSize[p] THEN "zstd" ELSE "inline")

IdleEncoder(w) == encoder[w].at = "idle"

Stored(k) == k \in DOMAIN bucket
-----------------------------------------------------------------------------
\* encodeOne: a reference that would not be strictly smaller is not used; content
\* over maximumBlobBytes is refused; otherwise the blob has to be put first.
encodeOne(w, p, limit) ==
    LET winner == Winner(p)
    IN  /\ IdleEncoder(w)
        /\ encoder' = [encoder EXCEPT ![w] =
              IF ~(referenceWireSize < SizeOf(winner))
              THEN [at |-> "returns", payload |-> winner]
              ELSE IF SizeOf(winner) > limit
              THEN [at |-> "failed", payload |-> winner]
              ELSE [at |-> "putting", payload |-> Reference(winner)]]
        /\ UNCHANGED <<bucket, workflowHistory, fenced, candidates, age>>

\* The bytes arrive under a key that is free; creation lifts the key's fence.
Create(k) ==
    /\ bucket' = [x \in DOMAIN bucket \cup {k} |->
                    IF x = k THEN [wire |-> k, made |-> age] ELSE bucket[x]]
    /\ fenced' = fenced \ {k}

\* The mutated form of Put that takes an upload it heard no answer of for done.
PutUnconfirmed(w) ==
    LET k == KeyOf(encoder[w].payload)
    IN  /\ encoder[w].at = "putting"
        /\ \/ Stored(k) /\ encoder' = [encoder EXCEPT ![w].at = "exists"]
              /\ UNCHANGED <<bucket, fenced>>
           \/ ~Stored(k) /\ Create(k) /\ encoder' = [encoder EXCEPT ![w].at = "returns"]
           \/ UNCHANGED <<bucket, fenced>> /\ encoder' = [encoder EXCEPT ![w].at = "returns"]
        /\ UNCHANGED <<workflowHistory, candidates, age>>

\* minioClient.Put, conditional create: If-None-Match refuses an existing object.
\* An upload may fail after it was carried out, and then the encoding fails.
Put(w) ==
    LET k == KeyOf(encoder[w].payload)
    IN  /\ encoder[w].at = "putting"
        /\ \/ /\ Stored(k)
              /\ encoder' = [encoder EXCEPT ![w].at = "exists"]
              /\ UNCHANGED <<bucket, fenced>>
           \/ /\ ~Stored(k)
              /\ Create(k)
              /\ encoder' = [encoder EXCEPT ![w].at = "returns"]
           \/ /\ ~Stored(k)
              /\ Create(k)
              /\ encoder' = [encoder EXCEPT ![w].at = "failed"]
           \/ /\ encoder' = [encoder EXCEPT ![w].at = "failed"]
              /\ UNCHANGED <<bucket, fenced>>
        /\ UNCHANGED <<workflowHistory, candidates, age>>

\* The existing object is stat'ed and read back, and must hold the same bytes.
VerifyExisting(w) ==
    LET k == KeyOf(encoder[w].payload)
    IN  /\ encoder[w].at = "exists"
        /\ encoder' = [encoder EXCEPT ![w].at =
              IF Stored(k) /\ bucket[k].wire = k THEN "returns" ELSE "failed"]
        /\ UNCHANGED <<bucket, workflowHistory, fenced, candidates, age>>

\* Encode fails as a whole and its caller encodes again.
EncodeRetried(w) ==
    /\ encoder[w].at = "failed"
    /\ encoder' = [encoder EXCEPT ![w] = [at |-> "idle"]]
    /\ UNCHANGED <<bucket, workflowHistory, fenced, candidates, age>>

\* External: Temporal records the encoded payload, unless the coordinator's fence
\* refuses a reference to its blob; the codec's caller may also drop it.
Recorded(w) ==
    LET e == encoder[w].payload
        refused == e.form = "remote" /\ KeyOf(e) \in fenced
    IN  /\ encoder[w].at = "returns"
        /\ \/ /\ ~refused
              /\ Cardinality(workflowHistory) < MaxHistory
              /\ workflowHistory' = workflowHistory \cup {e}
           \/ UNCHANGED workflowHistory
        /\ encoder' = [encoder EXCEPT ![w] = [at |-> "idle"]]
        /\ UNCHANGED <<bucket, fenced, candidates, age>>

\* External: the workflow's retention ends and its payload is forgotten.
HistoryExpires ==
    /\ \E e \in workflowHistory : workflowHistory' = workflowHistory \ {e}
    /\ UNCHANGED <<encoder, bucket, fenced, candidates, age>>
-----------------------------------------------------------------------------
\* decodeOne on an encoded payload, by a codec that reads at most limit bytes. A
\* compressed payload is unpacked once; a reference is followed once, after its
\* size is checked, and the bytes must have its size and digest.
decodeOne(e, limit) ==
    LET k == KeyOf(e)
    IN  IF e.form # "remote" THEN e.source
        ELSE IF SizeOf(k) > limit \/ ~Stored(k) THEN "error"
        ELSE IF bucket[k].wire # k THEN "error"
        ELSE k.source

\* Collect: the objects under the prefix are listed with their creation times.
ListCandidates ==
    /\ candidates = {}
    /\ candidates' = {[key |-> k, made |-> bucket[k].made] : k \in DOMAIN bucket}
    /\ UNCHANGED <<encoder, bucket, workflowHistory, fenced, age>>

\* External contract of FenceAndDeleteUnreferenced: under the fence, only the object
\* that was listed is deleted, and only when no recorded payload refers to it.
FenceAndDeleteUnreferenced(c) ==
    IF /\ Stored(c.key)
       /\ bucket[c.key].made = c.made
       /\ ~\E e \in workflowHistory : e.form = "remote" /\ KeyOf(e) = c.key
    THEN /\ bucket' = [k \in DOMAIN bucket \ {c.key} |-> bucket[k]]
         /\ fenced' = fenced \cup {c.key}
    ELSE UNCHANGED <<bucket, fenced>>

\* One object of the pass: skipped while it is young, else given to the coordinator.
Collect ==
    /\ \E c \in candidates :
          /\ candidates' = candidates \ {c}
          /\ IF c.made > age - MinimumAge THEN UNCHANGED <<bucket, fenced>>
             ELSE FenceAndDeleteUnreferenced(c)
    /\ UNCHANGED <<encoder, workflowHistory, age>>

\* Fault: the bytes of an object are damaged at rest.
BlobDamaged ==
    /\ \E k \in DOMAIN bucket :
          /\ bucket[k].wire = k
          /\ bucket' = [bucket EXCEPT ![k].wire.form = Corrupt]
    /\ UNCHANGED <<encoder, workflowHistory, fenced, candidates, age>>

TimeGoesOn ==
    /\ age < MaxAge
    /\ age' = age + 1
    /\ UNCHANGED <<encoder, bucket, workflowHistory, fenced, candidates>>
-----------------------------------------------------------------------------
PayloadInit ==
    /\ encoder = [w \in CodecWorker |-> [at |-> "idle"]]
    /\ bucket = << >>
    /\ workflowHistory = {}
    /\ fenced = {}
    /\ candidates = {}
    /\ age = 0

PayloadNext ==
    \/ \E w \in CodecWorker :
        \/ \E p \in Source, limit \in BlobLimits : encodeOne(w, p, limit)
        \/ Put(w) \/ VerifyExisting(w) \/ EncodeRetried(w) \/ Recorded(w)
    \/ HistoryExpires
    \/ ListCandidates
    \/ Collect
    \/ BlobDamaged
    \/ TimeGoesOn

PayloadSpec == PayloadInit /\ [][PayloadNext]_payloadVars
-----------------------------------------------------------------------------
(***************************************************************************)
(* Properties.                                                             *)
(***************************************************************************)

Undamaged(k) == Stored(k) => bucket[k].wire = k

\* Decode gives back what Encode was given. Whatever uploads failed, raced or were
\* retried and whatever the collector deleted meanwhile, a recorded payload decodes
\* to its source or to an error, and to its source when the blob's bytes are intact
\* and the reading codec's limit admits them.
RecordedDecodes ==
    \A e \in workflowHistory : \A limit \in BlobLimits :
        /\ decodeOne(e, limit) \in {e.source, "error"}
        /\ e.form = "remote" /\ Undamaged(KeyOf(e)) /\ SizeOf(KeyOf(e)) <= limit
             => decodeOne(e, limit) = e.source
=============================================================================
