------------------------------ MODULE ContentCodec ------------------------------
(***************************************************************************)
(* The immutable content of the runtime (internal/runtimecontent): the     *)
(* canonical CBOR encodings of an Agent specification, of its identity-    *)
(* free body and of an Input envelope, their decoders, and the store and   *)
(* readers that keep them under the digest of their bytes.  A byte is a    *)
(* number, a text its bytes, and an integer its digits to the base of a    *)
(* byte, so that the widths of the code are those of the model.  What is   *)
(* stored may be damaged: one byte changed, lost or added, or a head       *)
(* written wider than it needs to be.                                      *)
(***************************************************************************)
EXTENDS Integers, Sequences, FiniteSets

CONSTANTS Document,        \* the documents that are stored: [kind, value]
          EditByte,        \* bytes a damaged object may hold
          maximumTools, MaxInputParts, maximumNameBytes, maximumContentBytes

VARIABLES document,        \* the document of this history
          object,          \* the object under its key, or <<>> for none
          edits,           \* whether the object was damaged
          answer           \* what the last call was answered

codecVars == <<document, object, edits, answer>>

Space == 32                \* insignificant in JSON
Zero == 48                 \* a trailing fraction digit in a time
Invalid == 255             \* no byte of a UTF-8 text

--------------------------------------------------------------------------------
(* CBOR heads: a major type and a number in the least width that holds it.  *)

Digits(n) == IF n < 256 THEN <<n>> ELSE <<n \div 256, n % 256>>
Number(digits) == IF Len(digits) = 1 THEN digits[1] ELSE 256 * digits[1] + digits[2]

Zeros(n) == [i \in 1..n |-> 0]

head(major, digits) ==
  CASE Len(digits) = 1 /\ digits[1] < 24 -> <<32 * major + digits[1]>>
    [] Len(digits) = 1 /\ digits[1] >= 24 -> <<32 * major + 24>> \o digits
    [] Len(digits) = 2 -> <<32 * major + 25>> \o digits
    [] Len(digits) \in 3..4 -> <<32 * major + 26>> \o Zeros(4 - Len(digits)) \o digits
    [] OTHER -> <<32 * major + 27>> \o Zeros(8 - Len(digits)) \o digits

uintv(digits) == head(0, digits)
text(t) == head(3, Digits(Len(t))) \o t
array(n) == head(4, Digits(n))

Malformed == [ok |-> FALSE]

RECURSIVE Stripped(_)
Stripped(digits) == IF Len(digits) > 1 /\ digits[1] = 0 THEN Stripped(Tail(digits)) ELSE digits

(* A decoder that takes a number in any width.                               *)
AnyWidth(width, digits) == TRUE

(* decoder.head refuses a width that a shorter one would have served.        *)
Minimal(width, digits) ==
  CASE width = 1 -> digits[1] >= 24
    [] width = 2 -> Len(digits) > 1
    [] width = 4 -> Len(digits) > 2
    [] width = 8 -> Len(digits) > 4

WideHead(at, major, width, digits) ==
  IF ~Minimal(width, digits) THEN Malformed
  ELSE [ok |-> TRUE, at |-> at + 1 + width, major |-> major, digits |-> digits]
HeadOf(raw, at, major, value, width) ==
  IF value < 24 THEN [ok |-> TRUE, at |-> at + 1, major |-> major, digits |-> <<value>>]
  ELSE IF value > 27 \/ at + width > Len(raw) THEN Malformed
  ELSE WideHead(at, major, width, Stripped(SubSeq(raw, at + 1, at + width)))
decoderHead(raw, at) ==
  IF at > Len(raw) THEN Malformed
  ELSE HeadOf(raw, at, raw[at] \div 32, raw[at] % 32, [value \in 24..27 |-> 2 ^ (value - 24)][raw[at] % 32])

ValidString(t) == \A i \in DOMAIN t : t[i] # Invalid

(* One unsigned integer, text or array head at a position.                   *)
TextAt(raw, at, n) ==
  IF n > Len(raw) - at + 1 \/ ~ValidString(SubSeq(raw, at, at + n - 1)) THEN Malformed
  ELSE [ok |-> TRUE, at |-> at + n, value |-> SubSeq(raw, at, at + n - 1)]
ItemOf(raw, h, kind) ==
  IF ~h.ok THEN Malformed
  ELSE IF h.major # [uint |-> 0, text |-> 3, array |-> 4][kind] THEN Malformed
  ELSE IF kind # "text" THEN [ok |-> TRUE, at |-> h.at, value |-> h.digits]
  ELSE IF Len(h.digits) > 2 THEN Malformed
  ELSE TextAt(raw, h.at, Number(h.digits))
Item(raw, at, kind) == ItemOf(raw, decoderHead(raw, at), kind)

(* Items in a row, after what was read before them.                          *)
RECURSIVE ItemsFrom(_, _, _)
ItemsFrom(raw, read, kinds) ==
  IF kinds = <<>> \/ ~read.ok THEN read
  ELSE LET Then(item) == IF ~item.ok THEN Malformed
                         ELSE [ok |-> TRUE, at |-> item.at, values |-> Append(read.values, item.value)]
       IN  ItemsFrom(raw, Then(Item(raw, read.at, Head(kinds))), Tail(kinds))
Items(raw, at, kinds) == ItemsFrom(raw, [ok |-> TRUE, at |-> at, values |-> <<>>], kinds)

--------------------------------------------------------------------------------
(* Tools and their schemas.  A tool without a schema has none of its own     *)
(* while no tool has one, and the default schema beside one that has.        *)

VersionV1 == <<1>>
VersionV2 == <<2>>
DefaultSchema == <<123, 125>>
Compact(schema) == SelectSeq(schema, LAMBDA b : b # Space)

CanonicalSchema(tool) ==
  IF tool.version = <<>> /\ tool.schema = <<>> THEN [version |-> VersionV1, schema |-> DefaultSchema]
  ELSE [version |-> tool.version, schema |-> Compact(tool.schema)]
ValidSchema(tool) ==
  \/ tool.version = <<>> /\ tool.schema = <<>>
  \/ tool.version \in {VersionV1, VersionV2} /\ Compact(tool.schema) # <<>>

hasToolSchemas(tools) == \E i \in DOMAIN tools : tools[i].version # <<>> \/ tools[i].schema # <<>>

validText(t) == t # <<>> /\ ValidString(t)
validName(t) == t # <<>> /\ Len(t) <= maximumNameBytes /\ \A i \in DOMAIN t : t[i] \in 97..122

ValidTools(tools) ==
  /\ Len(tools) <= maximumTools
  /\ \A i \in DOMAIN tools :
       validName(tools[i].name) /\ validText(tools[i].description) /\ ValidSchema(tools[i])
  /\ \A i, j \in DOMAIN tools : tools[i].name = tools[j].name => i = j

validateAgentSpecificationBody(body) ==
  /\ validName(body.name) /\ validName(body.modelProfile) /\ validText(body.instructions)
  /\ ValidTools(body.tools)

validate(specification) ==
  /\ validName(specification.id) /\ validName(specification.revisionID)
  /\ specification.revision # <<0>>
  /\ validateAgentSpecificationBody(specification)

RECURSIVE Concatenated(_)
Concatenated(parts) == IF parts = <<>> THEN <<>> ELSE Head(parts) \o Concatenated(Tail(parts))

EncodedTools(tools) ==
  array(Len(tools)) \o Concatenated([i \in DOMAIN tools |->
    IF hasToolSchemas(tools)
    THEN LET canonical == CanonicalSchema(tools[i])
         IN  array(4) \o text(tools[i].name) \o text(tools[i].description)
               \o text(canonical.version) \o text(canonical.schema)
    ELSE array(2) \o text(tools[i].name) \o text(tools[i].description)])

EncodedVersion(tools) == uintv(IF hasToolSchemas(tools) THEN <<2>> ELSE <<1>>)

encodeAgentSpecificationBody(body) ==
  array(5) \o EncodedVersion(body.tools) \o text(body.name) \o text(body.modelProfile)
    \o text(body.instructions) \o EncodedTools(body.tools)

encode(specification) ==
  array(9) \o EncodedVersion(specification.tools) \o text(specification.id)
    \o text(specification.revisionID) \o uintv(specification.revision) \o text(specification.name)
    \o text(specification.modelProfile) \o text(specification.instructions)
    \o EncodedTools(specification.tools) \o text(specification.createdAt)

ToolItems(version) ==
  <<"array", "text", "text">> \o IF version = <<2>> THEN <<"text", "text">> ELSE <<>>
DecodedTool(version, v) ==
  [name |-> v[2], description |-> v[3],
   version |-> IF version = <<2>> THEN v[4] ELSE <<>>, schema |-> IF version = <<2>> THEN v[5] ELSE <<>>]
AddTool(before, version, read) ==
  IF ~read.ok THEN Malformed
  ELSE IF read.values[1] # <<2>> /\ (version # <<2>> \/ read.values[1] # <<4>>) THEN Malformed
  ELSE [ok |-> TRUE, at |-> read.at, tools |-> Append(before.tools, DecodedTool(version, read.values))]

RECURSIVE ToolsFrom(_, _, _, _)
ToolsFrom(raw, before, version, count) ==
  IF count = 0 \/ ~before.ok THEN before
  ELSE ToolsFrom(raw, AddTool(before, version, Items(raw, before.at, ToolItems(version))), version, count - 1)
DecodedTools(raw, at, version, count) ==
  ToolsFrom(raw, [ok |-> TRUE, at |-> at, tools |-> <<>>], version, count)

ToolCount(digits) == Len(digits) = 1 /\ digits[1] <= maximumTools

(* A version 2 encoding is compared with the canonical one; a version 1      *)
(* encoding is only encoded again, so that what it holds is valid.           *)
BodyRead(raw, version, tools, body) ==
  IF ~tools.ok THEN Malformed
  ELSE IF tools.at # Len(raw) + 1 \/ ~validateAgentSpecificationBody(body) THEN Malformed
  ELSE IF version = <<2>> /\ encodeAgentSpecificationBody(body) # raw THEN Malformed
  ELSE [ok |-> TRUE, value |-> body]
BodyOfItems(raw, v, tools) ==
  BodyRead(raw, v[2], tools,
           [name |-> v[3], modelProfile |-> v[4], instructions |-> v[5], tools |-> tools.tools])
BodyFrom(raw, read, v) ==
  IF ~read.ok THEN Malformed
  ELSE IF v[1] # <<5>> \/ v[2] \notin {<<1>>, <<2>>} \/ ~ToolCount(v[6]) THEN Malformed
  ELSE BodyOfItems(raw, v, DecodedTools(raw, read.at, v[2], v[6][1]))
decodeAgentSpecificationBody(raw) ==
  LET From(read) == BodyFrom(raw, read, read.values)
  IN  From(Items(raw, 1, <<"array", "uint", "text", "text", "text", "array">>))

(* A time may be written with trailing zeros, which its format then drops.   *)
RECURSIVE ParsedTime(_)
ParsedTime(t) == IF Len(t) > 1 /\ t[Len(t)] = Zero THEN ParsedTime(SubSeq(t, 1, Len(t) - 1)) ELSE t
ValidTime(t) == t # <<>> /\ t[1] = 84 /\ \A i \in 2..Len(t) : t[i] \in 48..57

SpecificationRead(raw, version, specification) ==
  IF ~validate(specification) THEN Malformed
  ELSE IF version = <<2>> /\ encode(specification) # raw THEN Malformed
  ELSE [ok |-> TRUE, value |-> specification]
SpecificationTimed(raw, v, tools, created) ==
  IF ~created.ok THEN Malformed
  ELSE IF created.at # Len(raw) + 1 \/ ~ValidTime(created.value) THEN Malformed
  ELSE SpecificationRead(raw, v[2], [id |-> v[3], revisionID |-> v[4], revision |-> v[5], name |-> v[6],
                                     modelProfile |-> v[7], instructions |-> v[8], tools |-> tools,
                                     createdAt |-> ParsedTime(created.value)])
SpecificationOfItems(raw, v, tools) ==
  IF ~tools.ok THEN Malformed ELSE SpecificationTimed(raw, v, tools.tools, Item(raw, tools.at, "text"))
SpecificationFrom(raw, read, v) ==
  IF ~read.ok THEN Malformed
  ELSE IF v[1] # <<9>> \/ v[2] \notin {<<1>>, <<2>>} \/ ~ToolCount(v[9]) THEN Malformed
  ELSE SpecificationOfItems(raw, v, DecodedTools(raw, read.at, v[2], v[9][1]))
decode(raw) ==
  LET From(read) == SpecificationFrom(raw, read, read.values)
  IN  From(Items(raw, 1, <<"array", "uint", "text", "text", "uint", "text", "text", "text", "array">>))

--------------------------------------------------------------------------------
(* An Input envelope: text parts, and references to artifacts.               *)

TextPart(t) == [kind |-> "text", text |-> t]
ArtifactPart(id, mediaType, size, digest) ==
  [kind |-> "artifact", id |-> id, mediaType |-> mediaType, size |-> size, digest |-> digest]

(* A size has the sign bit of an int64 clear.                                *)
ValidSize(size) == Len(size) = 8 => size[1] < 128

validateInputEnvelope(parts) ==
  /\ Len(parts) \in 1..MaxInputParts
  /\ \A i \in DOMAIN parts :
       IF parts[i].kind = "text" THEN validText(parts[i].text)
       ELSE /\ validName(parts[i].id) /\ validText(parts[i].mediaType)
            /\ ValidSize(parts[i].size) /\ validName(parts[i].digest)

encodeInputEnvelope(parts) ==
  array(2) \o uintv(<<1>>) \o array(Len(parts)) \o Concatenated([i \in DOMAIN parts |->
    IF parts[i].kind = "text" THEN array(2) \o uintv(<<1>>) \o text(parts[i].text)
    ELSE array(2) \o uintv(<<2>>) \o array(4) \o text(parts[i].id) \o text(parts[i].mediaType)
           \o uintv(parts[i].size) \o text(parts[i].digest)])

ArtifactAt(refers) ==
  IF ~refers.ok THEN Malformed
  ELSE IF refers.values[1] # <<4>> \/ ~ValidSize(refers.values[4]) THEN Malformed
  ELSE [ok |-> TRUE, at |-> refers.at,
        part |-> ArtifactPart(refers.values[2], refers.values[3], refers.values[4], refers.values[5])]
TextPartAt(plain) ==
  IF ~plain.ok THEN Malformed
  ELSE [ok |-> TRUE, at |-> plain.at, part |-> TextPart(plain.values[1])]
PartOpened(raw, opened) ==
  IF ~opened.ok THEN Malformed
  ELSE IF opened.values[1] # <<2>> THEN Malformed
  ELSE IF opened.values[2] = <<1>> THEN TextPartAt(Items(raw, opened.at, <<"text">>))
  ELSE IF opened.values[2] # <<2>> THEN Malformed
  ELSE ArtifactAt(Items(raw, opened.at, <<"array", "text", "text", "uint", "text">>))
DecodedPart(raw, at) == PartOpened(raw, Items(raw, at, <<"array", "uint">>))

RECURSIVE PartsFrom(_, _, _)
PartsFrom(raw, before, count) ==
  IF count = 0 \/ ~before.ok THEN before
  ELSE LET Add(one) == IF ~one.ok THEN Malformed
                       ELSE [ok |-> TRUE, at |-> one.at, parts |-> Append(before.parts, one.part)]
       IN  PartsFrom(raw, Add(DecodedPart(raw, before.at)), count - 1)

InputRead(raw, parts) ==
  IF ~parts.ok THEN Malformed
  ELSE IF parts.at # Len(raw) + 1 \/ ~validateInputEnvelope(parts.parts) THEN Malformed
  ELSE IF encodeInputEnvelope(parts.parts) # raw THEN Malformed
  ELSE [ok |-> TRUE, value |-> parts.parts]
InputFrom(raw, read, v) ==
  IF ~read.ok THEN Malformed
  ELSE IF v[1] # <<2>> \/ v[2] # <<1>> \/ Len(v[3]) > 1 THEN Malformed
  ELSE IF v[3][1] \notin 1..MaxInputParts THEN Malformed
  ELSE InputRead(raw, PartsFrom(raw, [ok |-> TRUE, at |-> read.at, parts |-> <<>>], v[3][1]))
decodeInputEnvelope(raw) ==
  LET From(read) == InputFrom(raw, read, read.values)
  IN  From(Items(raw, 1, <<"array", "uint", "array">>))

--------------------------------------------------------------------------------
(* The store and its readers *)

Encoded(d) == CASE d.kind = "specification" -> encode(d.value)
                [] d.kind = "body" -> encodeAgentSpecificationBody(d.value)
                [] d.kind = "input" -> encodeInputEnvelope(d.value)
                [] d.kind = "artifact" -> d.value
Decoded(kind, raw) == CASE kind = "specification" -> decode(raw)
                        [] kind = "body" -> decodeAgentSpecificationBody(raw)
                        [] kind = "input" -> decodeInputEnvelope(raw)
                        [] kind = "artifact" -> [ok |-> TRUE, value |-> raw]

Unanswered == [kind |-> "none"]

(* An object is stored under the digest of its bytes: one that is there is   *)
(* compared, and a new one is believed.  The stages of the other kinds read  *)
(* it back in either case.                                                   *)
PutAgentSpecification ==
  /\ Len(Encoded(document)) <= maximumContentBytes
  /\ IF object = <<>>
     THEN object' = Encoded(document) /\ answer' = [kind |-> "stored"]
     ELSE /\ UNCHANGED object
          /\ answer' = [kind |-> IF object = Encoded(document) THEN "stored" ELSE "integrity"]
  /\ UNCHANGED <<document, edits>>

(* The metadata record of the state store names the digest and the size; the *)
(* repository may deny, and the object store be away.                        *)
getContent(authorized) ==
  LET read == Decoded(document.kind, object)
  IN  IF ~authorized \/ object = <<>> THEN [kind |-> "notFoundOrDenied", authorized |-> authorized]
      ELSE IF object # Encoded(document) THEN [kind |-> "integrity"]
      ELSE IF ~read.ok THEN [kind |-> "integrity"]
      ELSE [kind |-> "content", value |-> read.value]

ReadContent ==
  /\ \E authorized, available \in BOOLEAN :
       answer' = IF authorized /\ ~available THEN [kind |-> "unavailable"] ELSE getContent(authorized)
  /\ UNCHANGED <<document, object, edits>>

(* Damage in the object store.                                               *)
Splice(i, bytes, lost) ==
  SubSeq(object, 1, i - 1) \o bytes \o SubSeq(object, i + lost, Len(object))
Widened(i) == Splice(i, <<(object[i] \div 32) * 32 + 24, object[i] % 32>>, 1)

ObjectIsDamaged ==
  /\ object # <<>> /\ edits = 0
  /\ \E i \in DOMAIN object :
       \/ object' = Splice(i, <<>>, 1)
       \/ i > 1 /\ object' = SubSeq(object, 1, i - 1)
       \/ \E b \in EditByte, lost \in {0, 1} : object' = Splice(i, <<b>>, lost)
       \/ object[i] % 32 < 24 /\ object' = Widened(i)
  /\ edits' = IF object' = object THEN 0 ELSE 1
  /\ answer' = Unanswered
  /\ UNCHANGED document

CodecInit ==
  /\ document \in Document
  /\ object = <<>> /\ edits = 0 /\ answer = Unanswered

CodecNext == PutAgentSpecification \/ ReadContent \/ ObjectIsDamaged
CodecSpec == CodecInit /\ [][CodecNext]_codecVars

--------------------------------------------------------------------------------
(* What a tool list means once encoded: every schema is canonical, and a     *)
(* tool without one has the default schema beside one that has.              *)
NormalTools(tools) ==
  [i \in DOMAIN tools |-> IF hasToolSchemas(tools)
                          THEN [name |-> tools[i].name, description |-> tools[i].description,
                                version |-> CanonicalSchema(tools[i]).version,
                                schema |-> CanonicalSchema(tools[i]).schema]
                          ELSE tools[i]]
Normal(d) == IF d.kind \in {"input", "artifact"} THEN d.value ELSE [d.value EXCEPT !.tools = NormalTools(@)]

(* Every document the store accepts is read back as what it means, at every  *)
(* width a length, a count or a number may have.                             *)
EncodingRoundTrips ==
  LET read == Decoded(document.kind, Encoded(document))
  IN  read.ok /\ read.value = Normal(document)

(* Bytes that decode at all are the encoding of what they decode to, whether *)
(* or not the decoder compares them: two different objects never read as one *)
(* document.  A version 1 specification may differ in how its time is        *)
(* written.                                                                  *)
DecodableIsCanonical ==
  LET read == Decoded(document.kind, object)
      canonical == Encoded([kind |-> document.kind, value |-> read.value])
      timed == IF document.kind = "specification" THEN Len(read.value.createdAt) ELSE 0
  IN  object # <<>> /\ read.ok =>
        \/ canonical = object
        \/ /\ document.kind = "specification"
           /\ SubSeq(canonical, 1, Len(canonical) - timed - 1)
                = SubSeq(object, 1, Len(canonical) - timed - 1)

(* A reader returns the stored document or an error, and an object whose     *)
(* bytes changed is reported as such to whoever may read it, never as absent.*)
ReadsAreExact ==
  /\ answer.kind = "content" => answer.value = Normal(document)
  /\ edits = 1 => answer.kind \notin {"content", "stored"}
  /\ answer.kind = "notFoundOrDenied" /\ answer.authorized => object = <<>>

(* Content is what its digest says.                                          *)
ContentIsCanonical == EncodingRoundTrips /\ DecodableIsCanonical /\ ReadsAreExact
================================================================================
